------------------------ MODULE WhatsappQueue_proofs ------------------------
(***************************************************************************)
(* What the WhatsApp queue promises for any number of servers, societies,  *)
(* messages and disturbances; and that phone, browser and queue keep their *)
(* promises side by side.                                                  *)
(***************************************************************************)
EXTENDS MCBackground, Sessions_proofs, SequenceTheorems

Run == [pc : {"off", "find", "claim", "send", "sent"}, msg : Nat, seen : Nat, left : 0..PerRun,
        blocked : SUBSET Societies, known : [Societies -> {"unasked", "on", "off"}],
        counted : [Societies -> Nat]]
AtSend(p) == sender[p].pc \in {"send", "sent"}
Busy(p) == sender[p].pc = "claim" \/ AtSend(p)

\* Types that a step can rely on.
Surroundings ==
    /\ switchedOn \subseteq Societies /\ canSend \subseteq Societies /\ gatewayUp \in BOOLEAN
    /\ deployed \subseteq Servers /\ night \in BOOLEAN /\ disturbances \in 0..Disturbances
Typed == outbox \in Seq(Message) /\ sender \in [Servers -> Run] /\ Surroundings

\* A run holds a message from its choice to its end, has some of its allowance left for it, and
\* what it is sending is marked so.
Holds(p) ==
    /\ ~Busy(p) => sender[p].msg = 0
    /\ Busy(p) => sender[p].msg \in Rows /\ sender[p].left > 0
    /\ AtSend(p) => outbox[sender[p].msg].status = "SENDING" /\ outbox[sender[p].msg].attempts > 0
    /\ sender[p].pc # "off" => p \in deployed
Held == \A p \in Servers : Holds(p)

\* No message is being sent by two.
Apart == \A p, q \in Servers : AtSend(p) /\ AtSend(q) /\ sender[p].msg = sender[q].msg => p = q

\* A send no server was left unsure of is one that is written down, or will be.
Arrived(i) == \E p \in Servers : sender[p].pc = "sent" /\ sender[p].msg = i
Accounted(i) ==
    outbox[i].delivered <= IF Through[outbox[i].society] = "number" THEN 1
                           ELSE outbox[i].unsure + IF outbox[i].status = "SENT" \/ Arrived(i) THEN 1 ELSE 0
AllAccounted == \A i \in Rows : Accounted(i)

\* With one server, what a run has counted is what was sent, and it leaves room for what it holds.
Tally(run) ==
    run.pc # "off" =>
        /\ \A s \in Societies : Through[s] = "number" /\ run.known[s] = "on"
                                => run.counted[s] = SentToday(s)
        /\ LET s == outbox[run.msg].society
           IN run.pc \in {"claim", "send", "sent"} /\ Through[s] = "number"
              => run.known[s] = "on" /\ run.counted[s] < DailyCap
Kept(s) == Through[s] = "number" => SentToday(s) <= DailyCap
Within == Cardinality(deployed) = 1 =>
              /\ \A p \in Servers : Tally(sender[p])
              /\ \A s \in Societies : Kept(s)

QueueInv == Typed /\ Held /\ Apart /\ AllAccounted
CInv == QueueInv /\ Within

-----------------------------------------------------------------------------
LEMMA Rowed ==
    ASSUME Typed
    PROVE  Len(outbox) \in Nat /\ Rows = 1..Len(outbox) /\ \A i \in Rows : outbox[i] \in Message
  BY LenProperties, ElementOfSeq DEF Typed, Rows

LEMMA Rewritten ==
    ASSUME Typed, NEW m \in Rows, NEW row \in Message, outbox' = [outbox EXCEPT ![m] = row]
    PROVE  /\ outbox' \in Seq(Message) /\ Rows' = Rows /\ outbox'[m] = row
           /\ \A i \in Rows : i # m => outbox'[i] = outbox[i]
  <1>1. m \in 1..Len(outbox)
    BY Rowed
  <1>2. outbox' \in Seq(Message)
    BY <1>1, ExceptSeq DEF Typed
  <1>3. DOMAIN outbox' = DOMAIN outbox /\ outbox'[m] = row
        /\ \A i \in DOMAIN outbox : i # m => outbox'[i] = outbox[i]
    BY DEF Rows
  <1> QED
    BY <1>2, <1>3 DEF Rows

LEMMA Rerun ==
    ASSUME Typed, NEW p \in Servers, NEW run \in Run, sender' = [sender EXCEPT ![p] = run]
    PROVE  /\ sender' \in [Servers -> Run] /\ sender'[p] = run
           /\ \A q \in Servers : q # p => sender'[q] = sender[q]
  BY DEF Typed

\* A step of a server that writes a row no other server is sending.
Follows(p, run, m, row) ==
    /\ run.pc \in {"off", "find"} => run.msg = 0
    /\ run.pc \in {"claim", "send", "sent"} => run.msg \in Rows /\ run.left > 0
    /\ run.pc \in {"send", "sent"} => run.msg = m /\ row.status = "SENDING" /\ row.attempts > 0
    /\ run.pc # "off" => p \in deployed
Free(p, m) == /\ \A q \in Servers : q # p /\ AtSend(q) => sender[q].msg # m
              /\ sender[p].pc = "sent" => sender[p].msg = m
Reckoned(run, row) == row.delivered <=
    IF Through[row.society] = "number" THEN 1
    ELSE row.unsure + IF row.status = "SENT" \/ run.pc = "sent" THEN 1 ELSE 0

LEMMA Writes ==
    ASSUME QueueInv, NEW p \in Servers, NEW run \in Run, NEW m \in Rows, NEW row \in Message,
           outbox' = [outbox EXCEPT ![m] = row], sender' = [sender EXCEPT ![p] = run],
           Surroundings', UNCHANGED deployed,
           row.society = outbox[m].society, Follows(p, run, m, row), Free(p, m), Reckoned(run, row)
    PROVE  QueueInv'
  <1>1. /\ outbox' \in Seq(Message) /\ Rows' = Rows /\ outbox'[m] = row
        /\ \A i \in Rows : i # m => outbox'[i] = outbox[i]
    BY Rewritten DEF QueueInv
  <1>2. /\ sender' \in [Servers -> Run] /\ sender'[p] = run
        /\ \A q \in Servers : q # p => sender'[q] = sender[q]
    BY Rerun DEF QueueInv
  <1>3. Typed'
    BY <1>1, <1>2 DEF QueueInv, Typed
  <1>4. Held'
    <2> SUFFICES ASSUME NEW q \in Servers PROVE Holds(q)'
      BY DEF Held
    <2>1. CASE q = p
      BY <2>1, <1>1, <1>2 DEF Holds, Busy, AtSend, Run, Follows
    <2>2. CASE q # p
      BY <2>2, <1>1, <1>2 DEF QueueInv, Held, Holds, Busy, AtSend, Free
    <2> QED
      BY <2>1, <2>2
  <1>5. Apart'
    BY <1>1, <1>2 DEF QueueInv, Apart, AtSend, Free, Follows
  <1>6. AllAccounted'
    <2> SUFFICES ASSUME NEW i \in Rows PROVE Accounted(i)'
      BY <1>1 DEF AllAccounted
    <2>1. CASE i = m
      <3>1. run.pc = "sent" => Arrived(i)'
        BY <2>1, <1>2 DEF Arrived, Follows
      <3>2. row.unsure \in Nat /\ row.delivered \in Nat
        BY DEF Message
      <3> QED
        BY <2>1, <3>1, <3>2, <1>1 DEF Accounted, Reckoned
    <2>2. CASE i # m
      <3>1. Arrived(i) => Arrived(i)'
        BY <2>2, <1>2 DEF Arrived, Free
      <3>2. outbox[i].unsure \in Nat /\ outbox[i].delivered \in Nat
        BY Rowed DEF Message, QueueInv
      <3> QED
        BY <2>2, <3>1, <3>2, <1>1 DEF Accounted, QueueInv, AllAccounted
    <2> QED
      BY <2>1, <2>2
  <1> QED
    BY <1>3, <1>4, <1>5, <1>6 DEF QueueInv

\* A step of a server that is not about a message it has sent, and writes none.
LEMMA RunMoves ==
    ASSUME QueueInv, NEW p \in Servers, NEW run \in Run, sender' = [sender EXCEPT ![p] = run],
           Surroundings', UNCHANGED <<outbox, deployed>>,
           run.pc \in {"off", "find"} => run.msg = 0,
           run.pc = "claim" => run.msg \in Rows /\ run.left > 0,
           run.pc \in {"off", "find", "claim"}, run.pc # "off" => p \in deployed,
           sender[p].pc # "sent"
    PROVE  QueueInv'
  <1>1. Rows' = Rows
    BY DEF Rows
  <1>2. /\ sender' \in [Servers -> Run] /\ sender'[p] = run
        /\ \A q \in Servers : q # p => sender'[q] = sender[q]
    BY Rerun DEF QueueInv
  <1>3. Typed'
    BY <1>2 DEF QueueInv, Typed
  <1>4. Held'
    <2> SUFFICES ASSUME NEW q \in Servers PROVE Holds(q)'
      BY DEF Held
    <2>1. CASE q = p
      BY <2>1, <1>1, <1>2 DEF Holds, Busy, AtSend
    <2>2. CASE q # p
      BY <2>2, <1>1, <1>2 DEF QueueInv, Held, Holds, Busy, AtSend
    <2> QED
      BY <2>1, <2>2
  <1>5. Apart'
    BY <1>2 DEF QueueInv, Apart, AtSend
  <1>6. AllAccounted'
    <2> SUFFICES ASSUME NEW i \in Rows PROVE Accounted(i)'
      BY <1>1 DEF AllAccounted
    <2>1. Arrived(i) <=> Arrived(i)'
      BY <1>2 DEF Arrived
    <2> QED
      BY <2>1 DEF Accounted, QueueInv, AllAccounted
  <1> QED
    BY <1>3, <1>4, <1>5, <1>6 DEF QueueInv

-----------------------------------------------------------------------------
\* The runs a step can leave behind.
LEMMA StoppedRun == Stopped \in Run /\ Stopped.pc = "off" /\ Stopped.msg = 0
  BY QueueAssumption DEF Stopped, Run

LEMMA UnburdenedRun ==
    ASSUME Typed, NEW p \in Servers
    PROVE  /\ Unburdened(p) \in Run /\ Unburdened(p).pc = "find" /\ Unburdened(p).msg = 0
           /\ Unburdened(p).left = sender[p].left
           /\ Unburdened(p).known = sender[p].known /\ Unburdened(p).counted = sender[p].counted
           /\ Unburdened(p).blocked = sender[p].blocked
  BY DEF Typed, Run, Unburdened

LEMMA AfterRun ==
    ASSUME Typed, NEW p \in Servers, sender[p].left > 0
    PROVE  /\ After(p) \in Run /\ After(p).pc = "find" /\ After(p).msg = 0
           /\ After(p).known = sender[p].known /\ After(p).counted = sender[p].counted
  <1> DEFINE run == Unburdened(p)
  <1>1. run \in Run /\ run.pc = "find" /\ run.msg = 0 /\ run.left = sender[p].left
        /\ run.known = sender[p].known /\ run.counted = sender[p].counted
    BY UnburdenedRun
  <1>2. After(p) = [run EXCEPT !.left = run.left - 1]
    BY DEF After
  <1>3. run.left - 1 \in 0..PerRun
    BY <1>1, QueueAssumption DEF Run
  <1> HIDE DEF run
  <1> QED
    BY <1>1, <1>2, <1>3 DEF Run

LEMMA ShutOutRun ==
    ASSUME Typed, NEW p \in Servers, Of(p) \in Societies
    PROVE  /\ ShutOut(p) \in Run /\ ShutOut(p).pc = "find" /\ ShutOut(p).msg = 0
           /\ ShutOut(p).known = sender[p].known /\ ShutOut(p).counted = sender[p].counted
  <1> DEFINE run == Unburdened(p)
  <1>1. run \in Run /\ run.pc = "find" /\ run.msg = 0 /\ run.blocked \subseteq Societies
        /\ run.known = sender[p].known /\ run.counted = sender[p].counted
    BY UnburdenedRun DEF Run
  <1>2. ShutOut(p) = [run EXCEPT !.blocked = run.blocked \cup {Of(p)}]
    BY DEF ShutOut
  <1> HIDE DEF run
  <1> QED
    BY <1>1, <1>2 DEF Run

LEMMA SkipRun ==
    ASSUME Typed, NEW p \in Servers, NEW s \in Societies
    PROVE  /\ Skip(p, s) \in Run /\ Skip(p, s).pc = sender[p].pc /\ Skip(p, s).msg = sender[p].msg
           /\ Skip(p, s).known = sender[p].known /\ Skip(p, s).counted = sender[p].counted
  BY DEF Typed, Run, Skip

LEMMA ChosenRun ==
    ASSUME Typed, NEW p \in Servers, NEW s \in Societies, NEW i \in Rows
    PROVE  /\ Chosen(p, s, i) \in Run /\ Chosen(p, s, i).pc = "claim" /\ Chosen(p, s, i).msg = i
           /\ Chosen(p, s, i).left = sender[p].left
           /\ Chosen(p, s, i).known = [sender[p].known EXCEPT ![s] = "on"]
           /\ Chosen(p, s, i).counted = sender[p].counted
  <1>1. i \in Nat /\ outbox[i].attempts \in Nat
    BY Rowed DEF Message
  <1>2. sender[p] \in Run
    BY DEF Typed
  <1> DEFINE r1 == [sender[p] EXCEPT !.pc = "claim"]
             r2 == [r1 EXCEPT !.msg = i]
             r3 == [r2 EXCEPT !.seen = outbox[i].attempts]
  <1>3. r1 \in Run /\ r1.pc = "claim" /\ r1.left = sender[p].left /\ r1.known = sender[p].known
        /\ r1.counted = sender[p].counted
    BY <1>2 DEF Run
  <1>4. Chosen(p, s, i) = [r3 EXCEPT !.known = [r3.known EXCEPT ![s] = "on"]]
    BY DEF Chosen
  <1> HIDE DEF r1
  <1>5. r2 \in Run /\ r2.pc = r1.pc /\ r2.msg = i /\ r2.left = r1.left /\ r2.known = r1.known
        /\ r2.counted = r1.counted
    BY <1>1, <1>3 DEF Run
  <1> HIDE DEF r2
  <1>6. r3 \in Run /\ r3.pc = r2.pc /\ r3.msg = r2.msg /\ r3.left = r2.left /\ r3.known = r2.known
        /\ r3.counted = r2.counted
    BY <1>1, <1>5 DEF Run
  <1> HIDE DEF r3
  <1>7. [r3.known EXCEPT ![s] = "on"] \in [Societies -> {"unasked", "on", "off"}]
    BY <1>6 DEF Run
  <1> QED
    BY <1>3, <1>4, <1>5, <1>6, <1>7 DEF Run

\* What a server that is sending knows of its message.
LEMMA OwnRow ==
    ASSUME QueueInv, NEW p \in Servers, AtSend(p)
    PROVE  /\ sender[p].msg \in Rows /\ outbox[sender[p].msg] \in Message
           /\ outbox[sender[p].msg].status = "SENDING" /\ outbox[sender[p].msg].attempts > 0
           /\ sender[p].left > 0 /\ p \in deployed /\ Of(p) \in Societies
           /\ \A q \in Servers : q # p /\ AtSend(q) => sender[q].msg # sender[p].msg
           /\ outbox[sender[p].msg].delivered <=
                 IF Through[Of(p)] = "number" THEN 1
                 ELSE outbox[sender[p].msg].unsure + IF sender[p].pc = "sent" THEN 1 ELSE 0
  <1>1. Holds(p) /\ Busy(p) /\ sender[p].pc # "off"
    BY DEF QueueInv, Held, Busy, AtSend
  <1>2. sender[p].msg \in Rows /\ outbox[sender[p].msg] \in Message
    BY <1>1, Rowed DEF Holds, QueueInv
  <1>3. \A q \in Servers : q # p /\ AtSend(q) => sender[q].msg # sender[p].msg
    BY DEF QueueInv, Apart
  <1>4. Arrived(sender[p].msg) => sender[p].pc = "sent"
    BY <1>3 DEF Arrived, AtSend
  <1>5. Accounted(sender[p].msg)
    BY <1>2 DEF QueueInv, AllAccounted
  <1>6. outbox[sender[p].msg].status = "SENDING" /\ outbox[sender[p].msg].attempts > 0
        /\ sender[p].left > 0 /\ p \in deployed
    BY <1>1 DEF Holds
  <1> QED
    BY <1>2, <1>3, <1>4, <1>5, <1>6 DEF Accounted, Of, Message

-----------------------------------------------------------------------------
\* A row that is what it was, but for one put back that nobody sends; a run that is what it was,
\* or has just begun.
Alike(i) == /\ outbox'[i].society = outbox[i].society /\ outbox'[i].delivered = outbox[i].delivered
            /\ outbox'[i].unsure = outbox[i].unsure /\ outbox'[i].attempts = outbox[i].attempts
            /\ \/ outbox'[i].status = outbox[i].status
               \/ outbox[i].status = "SENDING" /\ ~BeingSent(i)
Begun(q) == \/ sender'[q] = sender[q]
            \/ /\ sender[q].pc = "off" /\ sender'[q].pc = "find"
               /\ sender'[q].msg = 0 /\ q \in deployed

LEMMA Remade ==
    ASSUME QueueInv, UNCHANGED deployed, Surroundings', sender' \in [Servers -> Run],
           \A q \in Servers : Begun(q), outbox' \in Seq(Message), Rows' = Rows, \A i \in Rows : Alike(i)
    PROVE  QueueInv'
  <1>1. Typed'
    BY DEF QueueInv, Typed
  <1>2. \A q \in Servers : /\ AtSend(q) <=> AtSend(q)'
                           /\ AtSend(q) => sender'[q] = sender[q] /\ BeingSent(sender[q].msg)
    BY DEF AtSend, BeingSent, Begun
  <1>3. Held'
    <2> SUFFICES ASSUME NEW q \in Servers PROVE Holds(q)'
      BY DEF Held
    <2>1. Holds(q)
      BY DEF QueueInv, Held
    <2>2. CASE sender'[q] = sender[q]
      <3>1. AtSend(q) => sender[q].msg \in Rows /\ BeingSent(sender[q].msg)
        BY <1>2, <2>1 DEF Holds, Busy
      <3> QED
        BY <2>1, <2>2, <3>1 DEF Holds, Busy, AtSend, Alike
    <2>3. CASE sender[q].pc = "off" /\ sender'[q].pc = "find" /\ sender'[q].msg = 0 /\ q \in deployed
      BY <2>3 DEF Holds, Busy, AtSend
    <2> QED
      BY <2>2, <2>3 DEF Begun
  <1>4. Apart'
    BY <1>2 DEF QueueInv, Apart
  <1>5. AllAccounted'
    <2> SUFFICES ASSUME NEW i \in Rows PROVE Accounted(i)'
      BY DEF AllAccounted
    <2>1. Arrived(i) <=> Arrived(i)'
      BY DEF Arrived, Begun
    <2>2. Arrived(i) => outbox'[i].status = outbox[i].status
      BY DEF Arrived, BeingSent, Alike
    <2>3. outbox[i].unsure \in Nat /\ outbox[i].delivered \in Nat
      BY Rowed DEF Message, QueueInv
    <2> QED
      BY <2>1, <2>2, <2>3 DEF Accounted, QueueInv, AllAccounted, Alike
  <1> QED
    BY <1>1, <1>3, <1>4, <1>5 DEF QueueInv

\* A sequence whose rows are all made anew.
LEMMA Resequenced ==
    ASSUME Typed, DOMAIN outbox' = Rows, outbox' = [i \in Rows |-> outbox'[i]],
           \A i \in Rows : outbox'[i] \in Message
    PROVE  outbox' \in Seq(Message) /\ Rows' = Rows
  <1>1. Rows = 1..Len(outbox) /\ Len(outbox) \in Nat
    BY Rowed
  <1>2. outbox' \in [1..Len(outbox) -> Message]
    BY <1>1
  <1>3. outbox' \in Seq(Message)
    BY <1>1, <1>2, SeqDef
  <1> QED
    BY <1>3 DEF Rows

LEMMA UnstuckRows ==
    ASSUME QueueInv, outbox' = Unstuck
    PROVE  /\ outbox' \in Seq(Message) /\ Rows' = Rows
           /\ \A i \in Rows : /\ Alike(i) /\ outbox'[i].today = outbox[i].today
                               /\ (outbox'[i].status = "SENT" <=> outbox[i].status = "SENT")
  <1>1. \A i \in Rows : outbox'[i] = IF outbox[i].status = "SENDING" /\ ~BeingSent(i)
                                     THEN [outbox[i] EXCEPT !.status = "PENDING"] ELSE outbox[i]
    BY DEF Unstuck
  <1>2. \A i \in Rows : outbox[i] \in Message
    BY Rowed DEF QueueInv
  <1>3. \A i \in Rows : outbox'[i] \in Message
    BY <1>1, <1>2 DEF Message
  <1>4. DOMAIN outbox' = Rows /\ outbox' = [i \in Rows |-> outbox'[i]]
    BY DEF Unstuck
  <1>5. outbox' \in Seq(Message) /\ Rows' = Rows
    BY <1>3, <1>4, Resequenced DEF QueueInv
  <1> QED
    BY <1>1, <1>2, <1>5 DEF Message, Alike

LEMMA StartRunSafe ==
    ASSUME QueueInv, NEW p \in Servers, StartRun(p)
    PROVE  QueueInv'
  <1> DEFINE beg == [Stopped EXCEPT !.pc = "find"]
             run == [beg EXCEPT !.left = PerRun]
  <1>1. beg \in Run /\ beg.pc = "find" /\ beg.msg = 0
    BY StoppedRun DEF Run
  <1>2. sender' = [sender EXCEPT ![p] = run]
    BY DEF StartRun
  <1> HIDE DEF beg
  <1>3. run \in Run /\ run.pc = "find" /\ run.msg = 0
    BY <1>1, QueueAssumption DEF Run
  <1> HIDE DEF run
  <1>4. /\ sender' \in [Servers -> Run] /\ sender'[p] = run
        /\ \A q \in Servers : q # p => sender'[q] = sender[q]
    BY <1>2, <1>3, Rerun DEF QueueInv
  <1>5. outbox' = Unstuck /\ p \in deployed /\ sender[p].pc = "off" /\ UNCHANGED deployed /\ Surroundings'
    BY DEF StartRun, QueueInv, Typed, Surroundings
  <1>6. \A q \in Servers : Begun(q)
    BY <1>3, <1>4, <1>5 DEF Begun
  <1> QED
    BY <1>4, <1>5, <1>6, UnstuckRows, Remade

LEMMA NextDaySafe ==
    ASSUME QueueInv, NextDay
    PROVE  QueueInv'
  <1>1. \A i \in Rows : outbox[i] \in Message
    BY Rowed DEF QueueInv
  <1>2. \A i \in Rows : outbox'[i] = [outbox[i] EXCEPT !.today = FALSE]
    BY DEF NextDay
  <1>3. \A i \in Rows : outbox'[i] \in Message /\ Alike(i)
    BY <1>1, <1>2 DEF Message, Alike
  <1>4. outbox' \in Seq(Message) /\ Rows' = Rows
    BY <1>3, Resequenced DEF NextDay, QueueInv
  <1>5. UNCHANGED deployed /\ Surroundings' /\ sender' \in [Servers -> Run]
    BY DEF NextDay, QueueInv, Typed, Surroundings
  <1>6. \A q \in Servers : Begun(q)
    BY DEF NextDay, Begun
  <1> QED
    BY <1>3, <1>4, <1>5, <1>6, Remade

LEMMA SurroundingsSafe ==
    ASSUME QueueInv, Nightfall \/ Circumstances
    PROVE  QueueInv'
  <1>1. UNCHANGED <<outbox, sender, deployed>>
    BY DEF Nightfall, Circumstances
  <1>2. Surroundings'
    <2>1. CASE Nightfall
      BY <2>1 DEF Nightfall, QueueInv, Typed, Surroundings
    <2>2. CASE Circumstances
      <3>1. disturbances' \in 0..Disturbances
        BY <2>2, QueueAssumption DEF Circumstances, QueueInv, Typed, Surroundings
      <3>2. switchedOn' \subseteq Societies /\ canSend' \subseteq Societies
        BY <2>2 DEF Circumstances, Flip, QueueInv, Typed, Surroundings
      <3>3. gatewayUp' \in BOOLEAN /\ UNCHANGED <<deployed, night>>
        BY <2>2, Zenon DEF Circumstances, QueueInv, Typed, Surroundings
      <3> QED
        BY <3>1, <3>2, <3>3 DEF QueueInv, Typed, Surroundings
    <2> QED
      BY <2>1, <2>2
  <1>3. Rows' = Rows /\ outbox' \in Seq(Message) /\ sender' \in [Servers -> Run]
    BY <1>1 DEF QueueInv, Typed, Rows
  <1>4. (\A q \in Servers : Begun(q)) /\ \A i \in Rows : Alike(i)
    BY <1>1 DEF Begun, Alike
  <1> QED
    BY <1>1, <1>2, <1>3, <1>4, Remade

\* A message is queued while no run is on.
LEMMA EnqueueSafe ==
    ASSUME QueueInv, NEW s \in Societies, Enqueue(s)
    PROVE  QueueInv'
  <1> DEFINE row == [society |-> s, status |-> "PENDING", attempts |-> 0,
                     today |-> FALSE, delivered |-> 0, unsure |-> 0]
             n == Len(outbox)
  <1>1. row \in Message /\ row.delivered = 0 /\ row.unsure = 0
    BY DEF Message
  <1>2. outbox' = Append(outbox, row) /\ UNCHANGED <<sender, deployed>> /\ Surroundings'
    BY DEF Enqueue, QueueInv, Typed, Surroundings
  <1>3. \A p \in Servers : sender[p].pc = "off"
    BY DEF Enqueue
  <1> HIDE DEF row
  <1>4. n \in Nat /\ Rows = 1..n
    BY Rowed DEF QueueInv
  <1>5. /\ outbox' \in Seq(Message) /\ Len(outbox') = n + 1
        /\ \A i \in 1..(n + 1) : outbox'[i] = IF i <= n THEN outbox[i] ELSE row
    BY <1>1, <1>2, AppendProperties DEF QueueInv, Typed
  <1> HIDE DEF n
  <1>6. Rows' = 1..(n + 1)
    BY <1>5, LenProperties DEF Rows
  <1>7. Held' /\ Apart'
    BY <1>2, <1>3 DEF Held, Holds, Busy, AtSend, Apart, QueueInv
  <1>8. AllAccounted'
    <2> SUFFICES ASSUME NEW i \in 1..(n + 1) PROVE Accounted(i)'
      BY <1>6 DEF AllAccounted
    <2>1. Arrived(i)' <=> Arrived(i)
      BY <1>2 DEF Arrived
    <2>2. CASE i \in 1..n
      BY <1>4, <1>5, <2>1, <2>2 DEF Accounted, AllAccounted, QueueInv
    <2>3. CASE i = n + 1
      BY <1>1, <1>4, <1>5, <2>3 DEF Accounted
    <2> QED
      BY <1>4, <2>2, <2>3
  <1> QED
    BY <1>2, <1>5, <1>7, <1>8 DEF QueueInv, Typed

LEMMA EndRunSafe ==
    ASSUME QueueInv, NEW p \in Servers, EndRun(p)
    PROVE  QueueInv'
  <1>1. sender' = [sender EXCEPT ![p] = Stopped] /\ sender[p].pc # "sent" /\ UNCHANGED <<outbox, deployed>>
        /\ Surroundings'
    BY DEF EndRun, QueueInv, Typed, Surroundings
  <1> QED
    BY <1>1, StoppedRun, RunMoves

\* The oldest message of a society that is not skipped.
LEMMA Oldest ==
    ASSUME QueueInv, NEW p \in Servers, Candidates(p) # {}
    PROVE  Min(Candidates(p)) \in Candidates(p)
  <1>1. Candidates(p) \subseteq Nat
    BY Rowed DEF Candidates, QueueInv
  <1> DEFINE Before == {ss \in Nat \X Nat : ss[1] < ss[2]}
  <1>2. IsWellFoundedOn(Before, Nat)
    BY NatLessThanWellFounded DEF OpToRel
  <1>3. \A m, n \in Nat : m < n => <<m, n>> \in Before
    OBVIOUS
  <1> HIDE DEF Before
  <1>4. \E i \in Candidates(p) : \A j \in Candidates(p) : i <= j
    <2>1. PICK i \in Candidates(p) : \A j \in Candidates(p) : <<j, i>> \notin Before
      BY <1>1, <1>2, WFMin
    <2>2. ASSUME NEW j \in Candidates(p) PROVE i <= j
      <3>1. i \in Nat /\ j \in Nat /\ <<j, i>> \notin Before
        BY <1>1, <2>1
      <3>2. ~(j < i)
        BY <1>3, <3>1
      <3> QED
        BY <3>1, <3>2
    <2> QED
      BY <2>2
  <1> QED
    BY <1>4 DEF Min

\* A row that waits is nobody's, and was not sent without a server knowing or being unsure.
LEMMA StillWaiting ==
    ASSUME QueueInv, NEW i \in Rows, outbox[i].status = "PENDING"
    PROVE  /\ outbox[i] \in Message /\ \A q \in Servers : AtSend(q) => sender[q].msg # i
           /\ outbox[i].delivered <= IF Through[outbox[i].society] = "number" THEN 1 ELSE outbox[i].unsure
  <1>1. \A q \in Servers : AtSend(q) => sender[q].msg # i
    BY DEF QueueInv, Held, Holds
  <1>2. ~Arrived(i)
    BY <1>1 DEF Arrived, AtSend
  <1>3. outbox[i] \in Message /\ Accounted(i)
    BY Rowed DEF QueueInv, AllAccounted
  <1> QED
    BY <1>1, <1>2, <1>3 DEF Accounted, Message

\* What a society has sent today can be counted.
Sent(s) == {i \in Rows : outbox[i].society = s /\ outbox[i].status = "SENT" /\ outbox[i].today}
LEMMA SentFinite ==
    ASSUME Typed, NEW s
    PROVE  IsFiniteSet(Sent(s)) /\ SentToday(s) = Cardinality(Sent(s)) /\ SentToday(s) \in Nat
  <1>1. IsFiniteSet(Rows)
    BY Rowed, FS_Interval
  <1>2. IsFiniteSet(Sent(s))
    BY <1>1, FS_Subset DEF Sent
  <1> QED
    BY <1>2, FS_CardinalityType DEF Sent, SentToday

\* What Find makes of the oldest message.
Dropped(p, i) == /\ outbox' = [outbox EXCEPT ![i].status = "FAILED"]
                 /\ sender' = [sender EXCEPT ![p].known[outbox[i].society] = "off"]
Taken(p, i) == LET s == outbox[i].society
               IN \/ Through[s] = "meta" /\ sender' = [sender EXCEPT ![p] = Chosen(p, s, i)]
                  \/ /\ Through[s] = "number" /\ ~(Count(p, s) >= DailyCap)
                     /\ sender' = [sender EXCEPT ![p] = [Chosen(p, s, i) EXCEPT !.counted[s] = Count(p, s)]]
Passed(p, i) == sender' = [sender EXCEPT ![p] = Stopped]
                \/ sender' = [sender EXCEPT ![p] = Skip(p, outbox[i].society)]

\* The run that has taken a message up.
TakesUp(run, p, i) ==
    LET s == outbox[i].society
    IN /\ run.pc = "claim" /\ run.msg = i /\ run.left = sender[p].left
       /\ run.known = [sender[p].known EXCEPT ![s] = "on"]
       /\ Through[s] = "number" => /\ run.counted = [sender[p].counted EXCEPT ![s] = Count(p, s)]
                                   /\ Count(p, s) < DailyCap
       /\ Through[s] # "number" => run.counted = sender[p].counted

LEMMA TakenRun ==
    ASSUME Typed, NEW p \in Servers, NEW i \in Rows, outbox[i].society \in Societies, Taken(p, i)
    PROVE  \E run \in Run : sender' = [sender EXCEPT ![p] = run] /\ TakesUp(run, p, i)
  <1> DEFINE s == outbox[i].society
             ch == Chosen(p, s, i)
             run == [ch EXCEPT !.counted = [ch.counted EXCEPT ![s] = Count(p, s)]]
  <1>1. /\ ch \in Run /\ ch.pc = "claim" /\ ch.msg = i /\ ch.left = sender[p].left
        /\ ch.known = [sender[p].known EXCEPT ![s] = "on"] /\ ch.counted = sender[p].counted
    BY ChosenRun
  <1>2. \/ Through[s] = "meta" /\ sender' = [sender EXCEPT ![p] = ch]
        \/ Through[s] = "number" /\ ~(Count(p, s) >= DailyCap) /\ sender' = [sender EXCEPT ![p] = run]
    BY DEF Taken
  <1>3. Count(p, s) \in Nat
    BY SentFinite DEF Count, Run, Typed
  <1> HIDE DEF ch
  <1>4. [ch.counted EXCEPT ![s] = Count(p, s)] \in [Societies -> Nat]
    BY <1>1, <1>3 DEF Run
  <1>5. /\ run \in Run /\ run.pc = "claim" /\ run.msg = i /\ run.left = sender[p].left
        /\ run.known = ch.known /\ run.counted = [ch.counted EXCEPT ![s] = Count(p, s)]
    BY <1>1, <1>4 DEF Run
  <1> HIDE DEF run, s
  <1>6. CASE Through[s] = "meta" /\ sender' = [sender EXCEPT ![p] = ch]
    BY <1>1, <1>6 DEF s, TakesUp
  <1>7. CASE Through[s] = "number" /\ ~(Count(p, s) >= DailyCap) /\ sender' = [sender EXCEPT ![p] = run]
    <2>1. Count(p, s) < DailyCap
      BY <1>3, <1>7, QueueAssumption
    <2>2. run.counted = [sender[p].counted EXCEPT ![s] = Count(p, s)] /\ run.known = [sender[p].known EXCEPT ![s] = "on"]
      BY <1>1, <1>5
    <2> QED
      BY <1>5, <1>7, <2>1, <2>2 DEF s, TakesUp
  <1> QED
    BY <1>2, <1>6, <1>7

LEMMA FindCases ==
    ASSUME QueueInv, NEW p \in Servers, Find(p)
    PROVE  /\ sender[p].pc = "find" /\ sender[p].left > 0 /\ sender[p] \in Run /\ sender[p].msg = 0
           /\ p \in deployed /\ Surroundings' /\ UNCHANGED deployed
           /\ \E i \in Rows : /\ outbox[i].status = "PENDING" /\ outbox[i].society \in Societies
                              /\ Dropped(p, i) \/ (UNCHANGED outbox /\ (Taken(p, i) \/ Passed(p, i)))
  <1> DEFINE i == Min(Candidates(p))
             s == outbox[i].society
  <1>1. i \in Candidates(p) /\ sender[p].pc = "find" /\ sender[p].left > 0
    BY Oldest DEF Find
  <1>2. i \in Rows /\ outbox[i].status = "PENDING" /\ s \in Societies
    BY <1>1, Rowed DEF Candidates, QueueInv, Message
  <1>3. Surroundings' /\ UNCHANGED deployed
    BY <1>2, Zenon DEF Find, QueueInv, Typed, Surroundings
  <1>4. sender[p] \in Run /\ sender[p].msg = 0 /\ p \in deployed
    BY <1>1 DEF QueueInv, Typed, Held, Holds, Busy, AtSend
  <1>5. Dropped(p, i) \/ (UNCHANGED outbox /\ (Taken(p, i) \/ Passed(p, i)))
    BY Zenon DEF Find, Dropped, Taken, Passed
  <1> HIDE DEF i
  <1> QED
    BY <1>1, <1>2, <1>3, <1>4, <1>5

LEMMA FindSafe ==
    ASSUME QueueInv, NEW p \in Servers, Find(p)
    PROVE  QueueInv'
  <1>1. /\ sender[p].pc = "find" /\ sender[p].left > 0 /\ sender[p] \in Run /\ sender[p].msg = 0
        /\ p \in deployed /\ Surroundings' /\ UNCHANGED deployed
    BY FindCases
  <1>2. PICK i \in Rows : /\ outbox[i].status = "PENDING" /\ outbox[i].society \in Societies
                          /\ Dropped(p, i) \/ (UNCHANGED outbox /\ (Taken(p, i) \/ Passed(p, i)))
    BY FindCases
  <1>3. CASE Dropped(p, i)
    <2> DEFINE row == [outbox[i] EXCEPT !.status = "FAILED"]
               run == [sender[p] EXCEPT !.known = [sender[p].known EXCEPT ![outbox[i].society] = "off"]]
    <2>1. outbox' = [outbox EXCEPT ![i] = row] /\ sender' = [sender EXCEPT ![p] = run]
      BY <1>3 DEF Dropped
    <2>2. row \in Message /\ row.society = outbox[i].society /\ row.delivered = outbox[i].delivered
          /\ row.unsure = outbox[i].unsure /\ row.status = "FAILED"
      BY <1>2, StillWaiting DEF Message
    <2>3. [sender[p].known EXCEPT ![outbox[i].society] = "off"] \in [Societies -> {"unasked", "on", "off"}]
      BY <1>1 DEF Run
    <2>4. run \in Run /\ run.pc = "find" /\ run.msg = 0
      BY <1>1, <2>3 DEF Run
    <2> HIDE DEF row, run
    <2>5. Reckoned(run, row)
      BY <1>2, <2>2, <2>4, StillWaiting DEF Message, Reckoned
    <2>6. Free(p, i) /\ Follows(p, run, i, row)
      BY <1>1, <1>2, <2>4, StillWaiting DEF Free, Follows
    <2> QED
      BY <1>1, <2>1, <2>2, <2>4, <2>5, <2>6, Writes
  <1>4. CASE UNCHANGED outbox /\ Taken(p, i)
    <2>1. PICK run \in Run : sender' = [sender EXCEPT ![p] = run] /\ TakesUp(run, p, i)
      BY <1>2, <1>4, TakenRun DEF QueueInv
    <2>2. run.pc = "claim" /\ run.msg = i /\ run.left = sender[p].left
      BY <2>1 DEF TakesUp
    <2> QED
      BY <1>1, <1>4, <2>1, <2>2, RunMoves
  <1>5. CASE UNCHANGED outbox /\ Passed(p, i)
    <2> DEFINE run == Skip(p, outbox[i].society)
    <2>1. run \in Run /\ run.pc = "find" /\ run.msg = 0
      BY <1>1, <1>2, SkipRun DEF QueueInv
    <2>2. sender' = [sender EXCEPT ![p] = Stopped] \/ sender' = [sender EXCEPT ![p] = run]
      BY <1>5 DEF Passed
    <2> HIDE DEF run
    <2> QED
      BY <1>1, <1>5, <2>1, <2>2, StoppedRun, RunMoves
  <1> QED
    BY <1>2, <1>3, <1>4, <1>5

LEMMA ClaimSafe ==
    ASSUME QueueInv, NEW p \in Servers, Claim(p)
    PROVE  QueueInv'
  <1> DEFINE m == sender[p].msg
  <1>1. /\ sender[p].pc = "claim" /\ m \in Rows /\ sender[p].left > 0 /\ sender[p] \in Run
        /\ p \in deployed /\ Surroundings' /\ UNCHANGED deployed
    BY DEF Claim, QueueInv, Typed, Held, Holds, Busy, Surroundings
  <1>2. CASE outbox[m].status = "PENDING"
    <2> DEFINE mid == [outbox[m] EXCEPT !.status = "SENDING"]
               row == [mid EXCEPT !.attempts = outbox[m].attempts + 1]
               run == [sender[p] EXCEPT !.pc = "send"]
    <2>1. sender' = [sender EXCEPT ![p] = run]
      BY <1>2 DEF Claim
    <2>2. outbox' = [outbox EXCEPT ![m] = row]
      BY <1>2 DEF Claim
    <2>3. /\ outbox[m] \in Message /\ \A q \in Servers : AtSend(q) => sender[q].msg # m
          /\ outbox[m].delivered <= IF Through[outbox[m].society] = "number" THEN 1 ELSE outbox[m].unsure
      BY <1>1, <1>2, StillWaiting
    <2>4. mid \in Message /\ mid.society = outbox[m].society /\ mid.delivered = outbox[m].delivered
          /\ mid.unsure = outbox[m].unsure /\ mid.status = "SENDING"
      BY <2>3 DEF Message
    <2>5. run \in Run /\ run.pc = "send" /\ run.msg = m /\ run.left = sender[p].left
      BY <1>1 DEF Run
    <2>6. outbox[m].attempts + 1 \in Nat /\ outbox[m].attempts + 1 > 0
      BY <2>3 DEF Message
    <2> HIDE DEF m, mid, run
    <2>7. row \in Message /\ row.society = mid.society /\ row.delivered = mid.delivered
          /\ row.unsure = mid.unsure /\ row.status = mid.status /\ row.attempts > 0
      BY <2>4, <2>6 DEF Message
    <2> HIDE DEF row
    <2>8. row.society = outbox[m].society /\ Reckoned(run, row)
      BY <2>3, <2>4, <2>5, <2>7 DEF Message, Reckoned
    <2>9. Free(p, m) /\ Follows(p, run, m, row)
      BY <1>1, <2>3, <2>4, <2>5, <2>7 DEF Free, Follows
    <2>10. outbox' = [outbox EXCEPT ![m] = row]
      BY <2>2 DEF m
    <2> QED
      BY <1>1, <2>1, <2>5, <2>7, <2>8, <2>9, <2>10, Writes
  <1>3. CASE outbox[m].status # "PENDING"
    <2>1. sender' = [sender EXCEPT ![p] = Unburdened(p)] /\ UNCHANGED outbox
      BY <1>3 DEF Claim
    <2>2. Unburdened(p) \in Run /\ Unburdened(p).pc = "find" /\ Unburdened(p).msg = 0
      BY UnburdenedRun DEF QueueInv
    <2> QED
      BY <1>1, <2>1, <2>2, RunMoves
  <1> QED
    BY <1>2, <1>3

\* A server lays its message down.
LEMMA LaysDown ==
    ASSUME QueueInv, NEW p \in Servers, AtSend(p), NEW row \in Message, NEW run \in Run,
           outbox' = [outbox EXCEPT ![sender[p].msg] = row], sender' = [sender EXCEPT ![p] = run],
           Surroundings', UNCHANGED deployed,
           row.society = Of(p), run.pc \in {"off", "find"}, run.msg = 0,
           row.delivered <= IF Through[Of(p)] = "number" THEN 1
                            ELSE row.unsure + IF row.status = "SENT" THEN 1 ELSE 0
    PROVE  QueueInv'
  <1> DEFINE m == sender[p].msg
  <1>1. m \in Rows /\ row.society = outbox[m].society /\ Free(p, m) /\ p \in deployed
    BY OwnRow DEF Of, Free
  <1>2. Follows(p, run, m, row) /\ Reckoned(run, row)
    BY <1>1 DEF Follows, Reckoned
  <1> HIDE DEF m
  <1>3. outbox' = [outbox EXCEPT ![m] = row]
    BY DEF m
  <1> QED
    BY <1>1, <1>2, <1>3, Writes

\* What becomes of a message that is put back, failed, or unheard of.
LEMMA Reworded ==
    ASSUME NEW row \in Message, row.attempts > 0, NEW p
    PROVE  /\ PutBack(row) \in Message /\ PutBack(row).society = row.society
           /\ PutBack(row).delivered = row.delivered /\ PutBack(row).unsure = row.unsure
           /\ Failed(p, row) \in Message /\ Failed(p, row).society = row.society
           /\ Failed(p, row).delivered = row.delivered /\ Failed(p, row).unsure = row.unsure
           /\ Failed(p, row).status # "SENT" /\ PutBack(row).status # "SENT"
           /\ Unheard(row) \in Message /\ Unheard(row).society = row.society
           /\ Unheard(row).delivered = row.delivered /\ Unheard(row).unsure = row.unsure + 1
           /\ Unheard(row).attempts = row.attempts /\ Unheard(row).status = row.status
           /\ Unheard(row).today = row.today
  <1>1. /\ Failed(p, row) \in Message /\ Failed(p, row).society = row.society
        /\ Failed(p, row).delivered = row.delivered /\ Failed(p, row).unsure = row.unsure
        /\ Failed(p, row).status # "SENT"
    BY DEF Failed, Message
  <1>2. /\ Unheard(row) \in Message /\ Unheard(row).society = row.society
        /\ Unheard(row).delivered = row.delivered /\ Unheard(row).unsure = row.unsure + 1
        /\ Unheard(row).attempts = row.attempts /\ Unheard(row).status = row.status
        /\ Unheard(row).today = row.today
    BY DEF Unheard, Message
  <1> DEFINE mid == [row EXCEPT !.status = "PENDING"]
  <1>3. mid \in Message /\ mid.society = row.society /\ mid.delivered = row.delivered
        /\ mid.unsure = row.unsure /\ mid.status = "PENDING"
    BY DEF Message
  <1>4. PutBack(row) = [mid EXCEPT !.attempts = row.attempts - 1] /\ row.attempts - 1 \in Nat
    BY DEF PutBack, Message
  <1> HIDE DEF mid
  <1>5. /\ PutBack(row) \in Message /\ PutBack(row).society = mid.society
        /\ PutBack(row).delivered = mid.delivered /\ PutBack(row).unsure = mid.unsure
        /\ PutBack(row).status = mid.status
    BY <1>3, <1>4 DEF Message
  <1> QED
    BY <1>1, <1>2, <1>3, <1>5

LEMMA DeliveredRow ==
    ASSUME QueueInv, NEW p \in Servers, sender[p].pc = "send"
    PROVE  /\ Delivered(p) \in Message /\ Delivered(p).society = Of(p)
           /\ Delivered(p).status = "SENDING" /\ Delivered(p).attempts > 0
           /\ Delivered(p).delivered <= IF Through[Of(p)] = "number" THEN 1 ELSE Delivered(p).unsure + 1
  <1>1. /\ outbox[sender[p].msg] \in Message /\ outbox[sender[p].msg].society = Of(p)
        /\ outbox[sender[p].msg].status = "SENDING" /\ outbox[sender[p].msg].attempts > 0
        /\ outbox[sender[p].msg].delivered <=
              IF Through[Of(p)] = "number" THEN 1 ELSE outbox[sender[p].msg].unsure
    BY OwnRow DEF AtSend, Of, Message
  <1> QED
    BY <1>1 DEF Delivered, Message

LEMMA TransmitSafe ==
    ASSUME QueueInv, NEW p \in Servers, Transmit(p)
    PROVE  QueueInv'
  <1> DEFINE m == sender[p].msg
             row == outbox[m]
  <1>1. /\ sender[p].pc = "send" /\ AtSend(p) /\ Surroundings' /\ UNCHANGED deployed
    <2>1. sender[p].pc = "send" /\ UNCHANGED <<switchedOn, canSend, gatewayUp, deployed, night>>
      BY DEF Transmit, Leaves
    <2>2. disturbances' \in 0..Disturbances
      BY QueueAssumption DEF Transmit, QueueInv, Typed, Surroundings
    <2> QED
      BY <2>1, <2>2 DEF AtSend, QueueInv, Typed, Surroundings
  <1>2. /\ m \in Rows /\ row \in Message /\ row.society = Of(p) /\ row.attempts > 0
        /\ sender[p].left > 0 /\ p \in deployed /\ Of(p) \in Societies
        /\ row.delivered <= IF Through[Of(p)] = "number" THEN 1 ELSE row.unsure
        /\ row.unsure \in Nat /\ Free(p, m)
    BY <1>1, OwnRow DEF Of, Message, Free
  <1>3. /\ Stopped \in Run /\ Stopped.pc = "off" /\ Stopped.msg = 0
        /\ ShutOut(p) \in Run /\ ShutOut(p).pc = "find" /\ ShutOut(p).msg = 0
        /\ After(p) \in Run /\ After(p).pc = "find" /\ After(p).msg = 0
    BY <1>2, StoppedRun, ShutOutRun, AfterRun DEF QueueInv
  <1>4. /\ Delivered(p) \in Message /\ Delivered(p).society = Of(p)
        /\ Delivered(p).status = "SENDING" /\ Delivered(p).attempts > 0
        /\ Delivered(p).delivered <= IF Through[Of(p)] = "number" THEN 1 ELSE Delivered(p).unsure + 1
    BY <1>1, DeliveredRow
  <1>5. ASSUME NEW left \in Message, NEW run \in Run, Leaves(p, left, run),
               left.society = Of(p), run.pc \in {"off", "find"}, run.msg = 0,
               left.delivered <= IF Through[Of(p)] = "number" THEN 1
                                 ELSE left.unsure + IF left.status = "SENT" THEN 1 ELSE 0
        PROVE  QueueInv'
    BY <1>1, <1>5, LaysDown DEF Leaves
  <1>6. CASE Leaves(p, PutBack(row), Stopped) \/ Leaves(p, PutBack(row), ShutOut(p))
    <2>1. /\ PutBack(row) \in Message /\ PutBack(row).society = Of(p)
          /\ PutBack(row).delivered <= IF Through[Of(p)] = "number" THEN 1
                 ELSE PutBack(row).unsure + IF PutBack(row).status = "SENT" THEN 1 ELSE 0
      BY <1>2, Reworded
    <2> HIDE DEF row, m
    <2> QED
      BY <1>3, <1>5, <1>6, <2>1
  <1>7. CASE Leaves(p, Failed(p, row), After(p))
    <2>1. /\ Failed(p, row) \in Message /\ Failed(p, row).society = Of(p)
          /\ Failed(p, row).delivered <= IF Through[Of(p)] = "number" THEN 1
                 ELSE Failed(p, row).unsure + IF Failed(p, row).status = "SENT" THEN 1 ELSE 0
      BY <1>2, Reworded
    <2> HIDE DEF row, m
    <2> QED
      BY <1>3, <1>5, <1>7, <2>1
  <1>8. CASE Leaves(p, [row EXCEPT !.status = "FAILED"], After(p))
    <2> DEFINE dropped == [row EXCEPT !.status = "FAILED"]
    <2>1. /\ dropped \in Message /\ dropped.society = Of(p) /\ dropped.status = "FAILED"
          /\ dropped.delivered = row.delivered /\ dropped.unsure = row.unsure
      BY <1>2 DEF Message
    <2>2. Leaves(p, dropped, After(p))
      BY <1>8
    <2> HIDE DEF row, m, dropped
    <2>3. dropped.delivered <= IF Through[Of(p)] = "number" THEN 1
                 ELSE dropped.unsure + IF dropped.status = "SENT" THEN 1 ELSE 0
      BY <1>2, <2>1
    <2> QED
      BY <1>3, <1>5, <2>1, <2>2, <2>3
  <1>9. CASE Leaves(p, PutBack(Unheard(Delivered(p))),
                    IF Through[Of(p)] = "number" THEN Stopped ELSE ShutOut(p))
    <2> DEFINE unheard == Unheard(Delivered(p))
               back == PutBack(unheard)
               run == IF Through[Of(p)] = "number" THEN Stopped ELSE ShutOut(p)
    <2>1. /\ unheard \in Message /\ unheard.society = Of(p) /\ unheard.attempts > 0
          /\ unheard.delivered = Delivered(p).delivered /\ unheard.unsure = Delivered(p).unsure + 1
      BY <1>4, Reworded
    <2> HIDE DEF unheard
    <2>2. /\ back \in Message /\ back.society = Of(p)
          /\ back.delivered = unheard.delivered /\ back.unsure = unheard.unsure /\ back.status # "SENT"
          /\ back.unsure \in Nat
      BY <2>1, Reworded DEF Message
    <2>3. Leaves(p, back, run)
      BY <1>9 DEF unheard
    <2>4. run \in Run /\ run.pc \in {"off", "find"} /\ run.msg = 0
      BY <1>3
    <2> HIDE DEF back, run
    <2>5. back.delivered <= IF Through[Of(p)] = "number" THEN 1
                 ELSE back.unsure + IF back.status = "SENT" THEN 1 ELSE 0
      BY <1>4, <2>1, <2>2
    <2> QED
      BY <1>5, <2>2, <2>3, <2>4, <2>5
  <1>10. CASE Leaves(p, Delivered(p), [sender[p] EXCEPT !.pc = "sent"])
    <2> DEFINE run == [sender[p] EXCEPT !.pc = "sent"]
               sent == Delivered(p)
    <2>1. run \in Run /\ run.pc = "sent" /\ run.msg = m /\ run.left = sender[p].left
      BY DEF QueueInv, Typed, Run
    <2>2. sender' = [sender EXCEPT ![p] = run] /\ outbox' = [outbox EXCEPT ![m] = sent]
      BY <1>10 DEF Leaves
    <2>3. sent.society = outbox[m].society
      BY <1>2, <1>4
    <2> HIDE DEF run, sent
    <2>4. Follows(p, run, m, sent)
      BY <1>2, <1>4, <2>1 DEF Follows, sent
    <2>5. Reckoned(run, sent)
      BY <1>4, <2>1 DEF Reckoned, sent
    <2>6. sent \in Message
      BY <1>4 DEF sent
    <2> HIDE DEF row, m
    <2> QED
      BY <1>1, <1>2, <2>1, <2>2, <2>3, <2>4, <2>5, <2>6, Writes
  <1> QED
    BY <1>6, <1>7, <1>8, <1>9, <1>10 DEF Transmit

LEMMA RecordSentSafe ==
    ASSUME QueueInv, NEW p \in Servers, RecordSent(p)
    PROVE  QueueInv'
  <1> DEFINE row == outbox[sender[p].msg]
             mid == [row EXCEPT !.status = "SENT"]
             left == [mid EXCEPT !.today = TRUE]
             after == After(p)
             count == IF Through[Of(p)] = "number" THEN after.counted[Of(p)] + 1 ELSE after.counted[Of(p)]
             run == [after EXCEPT !.counted = [after.counted EXCEPT ![Of(p)] = count]]
  <1>1. AtSend(p) /\ Surroundings' /\ UNCHANGED deployed /\ sender[p].pc = "sent"
    BY DEF RecordSent, Leaves, AtSend, QueueInv, Typed, Surroundings
  <1>2. /\ row \in Message /\ row.society = Of(p) /\ Of(p) \in Societies /\ sender[p].left > 0
        /\ row.delivered <= IF Through[Of(p)] = "number" THEN 1 ELSE row.unsure + 1
    BY <1>1, OwnRow DEF Of
  <1>3. outbox' = [outbox EXCEPT ![sender[p].msg] = left] /\ sender' = [sender EXCEPT ![p] = run]
    BY DEF RecordSent, Leaves
  <1>4. mid \in Message /\ mid.society = Of(p) /\ mid.status = "SENT"
        /\ mid.delivered = row.delivered /\ mid.unsure = row.unsure
    BY <1>2 DEF Message
  <1>5. after \in Run /\ after.pc = "find" /\ after.msg = 0
    BY <1>2, AfterRun DEF QueueInv
  <1> HIDE DEF row, mid, after
  <1>6. left \in Message /\ left.society = Of(p) /\ left.status = "SENT"
        /\ left.delivered = row.delivered /\ left.unsure = row.unsure
    BY <1>4 DEF Message
  <1>7. [after.counted EXCEPT ![Of(p)] = count] \in [Societies -> Nat]
    BY <1>2, <1>5 DEF Run
  <1> HIDE DEF left, count
  <1>8. run \in Run /\ run.pc = "find" /\ run.msg = 0
    BY <1>5, <1>7 DEF Run
  <1> HIDE DEF run
  <1>9. left.delivered <= IF Through[Of(p)] = "number" THEN 1
                          ELSE left.unsure + IF left.status = "SENT" THEN 1 ELSE 0
    BY <1>2, <1>6
  <1> QED
    BY <1>1, <1>3, <1>6, <1>8, <1>9, LaysDown

LEMMA RecordLostSafe ==
    ASSUME QueueInv, NEW p \in Servers, RecordLost(p)
    PROVE  QueueInv'
  <1> DEFINE row == outbox[sender[p].msg]
             unheard == Unheard(row)
             left == Failed(p, unheard)
             run == After(p)
  <1>1. AtSend(p) /\ Surroundings' /\ UNCHANGED deployed /\ sender[p].pc = "sent"
    BY QueueAssumption DEF RecordLost, Leaves, AtSend, QueueInv, Typed, Surroundings
  <1>2. /\ row \in Message /\ row.society = Of(p) /\ Of(p) \in Societies /\ sender[p].left > 0
        /\ row.attempts > 0
        /\ row.delivered <= IF Through[Of(p)] = "number" THEN 1 ELSE row.unsure + 1
    BY <1>1, OwnRow DEF Of
  <1>3. outbox' = [outbox EXCEPT ![sender[p].msg] = left] /\ sender' = [sender EXCEPT ![p] = run]
    BY DEF RecordLost, Leaves
  <1>4. unheard \in Message /\ unheard.society = Of(p) /\ unheard.attempts > 0
        /\ unheard.delivered = row.delivered /\ unheard.unsure = row.unsure + 1
    BY <1>2, Reworded
  <1>5. run \in Run /\ run.pc = "find" /\ run.msg = 0
    BY <1>2, AfterRun DEF QueueInv
  <1> HIDE DEF unheard, run
  <1>6. /\ left \in Message /\ left.society = Of(p) /\ left.status # "SENT"
        /\ left.delivered = row.delivered /\ left.unsure = row.unsure + 1 /\ left.unsure \in Nat
    BY <1>4, Reworded DEF Message
  <1> HIDE DEF left, row
  <1>7. left.delivered <= IF Through[Of(p)] = "number" THEN 1
                          ELSE left.unsure + IF left.status = "SENT" THEN 1 ELSE 0
    BY <1>2, <1>6
  <1> QED
    BY <1>1, <1>3, <1>5, <1>6, <1>7, LaysDown

\* A server that dies is unsure of what it has sent and not written down.
LEMMA DieSafe ==
    ASSUME QueueInv, NEW p \in Servers, Die(p)
    PROVE  QueueInv'
  <1>1. Surroundings' /\ UNCHANGED deployed /\ sender' = [sender EXCEPT ![p] = Stopped]
    BY QueueAssumption DEF Die, QueueInv, Typed, Surroundings
  <1>2. CASE sender[p].pc = "sent"
    <2> DEFINE row == outbox[sender[p].msg]
               left == Unheard(row)
    <2>1. AtSend(p)
      BY <1>2 DEF AtSend
    <2>2. /\ row \in Message /\ row.society = Of(p) /\ row.attempts > 0 /\ row.status = "SENDING"
          /\ row.delivered <= IF Through[Of(p)] = "number" THEN 1 ELSE row.unsure + 1
      BY <1>2, <2>1, OwnRow DEF Of
    <2>3. outbox' = [outbox EXCEPT ![sender[p].msg] = left]
      BY <1>2 DEF Die, Unheard
    <2>4. left \in Message /\ left.society = Of(p) /\ left.status = row.status
          /\ left.delivered = row.delivered /\ left.unsure = row.unsure + 1
      BY <2>2, Reworded
    <2> HIDE DEF left, row
    <2>5. left.unsure \in Nat /\ left.status # "SENT"
      BY <2>2, <2>4 DEF Message
    <2>6. left.delivered <= IF Through[Of(p)] = "number" THEN 1
                            ELSE left.unsure + IF left.status = "SENT" THEN 1 ELSE 0
      BY <2>2, <2>4, <2>5
    <2> QED
      BY <1>1, <2>1, <2>3, <2>4, <2>6, StoppedRun, LaysDown
  <1>3. CASE sender[p].pc # "sent"
    <2>1. UNCHANGED outbox
      BY <1>3 DEF Die
    <2> QED
      BY <1>1, <1>3, <2>1, StoppedRun, RunMoves
  <1> QED
    BY <1>2, <1>3

-----------------------------------------------------------------------------
LEMMA Begins == QueueInit => QueueInv
  <1> SUFFICES ASSUME QueueInit PROVE QueueInv
    OBVIOUS
  <1>1. outbox = <<>> /\ sender = [p \in Servers |-> Stopped] /\ switchedOn = Societies
        /\ canSend \subseteq Societies /\ gatewayUp \in BOOLEAN /\ night = FALSE
    BY DEF QueueInit
  <1>2. Rows = {} /\ outbox \in Seq(Message)
    BY <1>1 DEF Rows
  <1>3. (CHOOSE p \in Servers : TRUE) \in Servers
    BY QueueAssumption
  <1>4. deployed \subseteq Servers
    BY <1>3 DEF QueueInit
  <1>5. disturbances \in 0..Disturbances
    BY QueueAssumption DEF QueueInit
  <1>6. Typed
    BY <1>1, <1>2, <1>4, <1>5, StoppedRun DEF Typed, Surroundings
  <1>7. Held /\ Apart
    BY <1>1, StoppedRun DEF Held, Holds, Busy, AtSend, Apart
  <1> QED
    BY <1>2, <1>6, <1>7 DEF QueueInv, AllAccounted

LEMMA Goes == QueueInv /\ [QueueNext]_queueVars => QueueInv'
  <1> SUFFICES ASSUME QueueInv, [QueueNext]_queueVars PROVE QueueInv'
    OBVIOUS
  <1>1. CASE UNCHANGED queueVars
    BY <1>1 DEF queueVars, QueueInv, Typed, Surroundings, Held, Holds, Busy, AtSend, Apart,
                AllAccounted, Accounted, Arrived, Rows
  <1>2. CASE \E s \in Societies : Enqueue(s)
    BY <1>2, EnqueueSafe
  <1>3. ASSUME NEW p \in Servers, StartRun(p) \/ QueueStep(p) \/ Die(p)
        PROVE  QueueInv'
    BY <1>3, StartRunSafe, EndRunSafe, FindSafe, ClaimSafe, TransmitSafe, RecordSentSafe,
       RecordLostSafe, DieSafe DEF QueueStep
  <1>4. CASE Nightfall \/ NextDay \/ Circumstances
    BY <1>4, SurroundingsSafe, NextDaySafe
  <1> QED
    BY <1>1, <1>2, <1>3, <1>4 DEF QueueNext

\* The day's count, with one server.
LEMMA Alone ==
    ASSUME QueueInv, Cardinality(deployed) = 1, NEW p \in deployed, NEW q \in Servers, q # p
    PROVE  sender[q].pc = "off"
  <1>1. IsFiniteSet(deployed)
    BY QueueAssumption, FS_Subset DEF QueueInv, Typed, Surroundings
  <1>2. \E x : deployed = {x}
    BY <1>1, FS_Singleton
  <1>3. q \notin deployed
    BY <1>2
  <1> QED
    BY <1>3 DEF QueueInv, Held, Holds

\* Nothing was sent, and the run that moved on has counted right.
Unsent == /\ Rows \subseteq Rows' /\ \A i \in Rows : outbox'[i].society = outbox[i].society
          /\ \A s \in Societies : SentToday(s)' = SentToday(s)
Points(run) == run.pc \in {"claim", "send", "sent"} => run.msg \in Rows

LEMMA Steady ==
    ASSUME QueueInv, Within, NEW p \in deployed, p \in Servers, UNCHANGED deployed, NEW run \in Run,
           sender' = [sender EXCEPT ![p] = run], Unsent, Points(run),
           Cardinality(deployed) = 1 => Tally(run)
    PROVE  Within'
  <1> SUFFICES ASSUME Cardinality(deployed) = 1
               PROVE  (\A q \in Servers : Tally(sender[q])') /\ \A s \in Societies : Kept(s)'
    BY DEF Within
  <1>1. /\ sender'[p] = run /\ \A q \in Servers : q # p => sender'[q] = sender[q]
    BY Rerun DEF QueueInv
  <1>2. ASSUME NEW q \in Servers PROVE Tally(sender[q])'
    <2>1. CASE q = p
      BY <1>1, <2>1 DEF Tally, Unsent, Points
    <2>2. CASE q # p
      BY <1>1, <2>2, Alone DEF Tally
    <2> QED
      BY <2>1, <2>2
  <1>3. ASSUME NEW s \in Societies PROVE Kept(s)'
    BY DEF Within, Kept, Unsent
  <1> QED
    BY <1>2, <1>3

\* The same rows count when none of them changes to or from one sent today.
LEMMA SameCount ==
    ASSUME NEW s, Rows \subseteq Rows',
           \A i \in Rows : /\ outbox'[i].society = outbox[i].society
                           /\ outbox'[i].status = "SENT" <=> outbox[i].status = "SENT"
                           /\ outbox[i].status = "SENT" => outbox'[i].today = outbox[i].today,
           \A i \in Rows' : i \notin Rows => outbox'[i].status # "SENT"
    PROVE  SentToday(s)' = SentToday(s)
  <1>1. Sent(s)' = Sent(s)
    BY DEF Sent
  <1> QED
    BY <1>1 DEF Sent, SentToday

LEMMA UnsentSame ==
    ASSUME UNCHANGED outbox
    PROVE  Unsent
  BY DEF Unsent, Rows, SentToday

LEMMA UnsentRow ==
    ASSUME Typed, NEW m \in Rows, NEW row \in Message, outbox' = [outbox EXCEPT ![m] = row],
           row.society = outbox[m].society, row.status # "SENT", outbox[m].status # "SENT"
    PROVE  Unsent
  <1>1. Rows' = Rows /\ outbox'[m] = row /\ \A i \in Rows : i # m => outbox'[i] = outbox[i]
    BY Rewritten
  <1>2. \A i \in Rows : /\ outbox'[i].society = outbox[i].society
                        /\ outbox'[i].status = "SENT" <=> outbox[i].status = "SENT"
                        /\ outbox[i].status = "SENT" => outbox'[i].today = outbox[i].today
    BY <1>1
  <1>3. ASSUME NEW s \in Societies PROVE SentToday(s)' = SentToday(s)
    BY <1>1, <1>2, SameCount
  <1> QED
    BY <1>1, <1>2, <1>3 DEF Unsent

LEMMA StartRunWithin ==
    ASSUME QueueInv, Within, NEW p \in Servers, StartRun(p)
    PROVE  Within'
  <1> DEFINE beg == [Stopped EXCEPT !.pc = "find"]
             run == [beg EXCEPT !.left = PerRun]
  <1>1. beg \in Run /\ beg.pc = "find" /\ beg.known = [s \in Societies |-> "unasked"]
    BY StoppedRun DEF Run, Stopped
  <1>2. sender' = [sender EXCEPT ![p] = run] /\ p \in deployed /\ UNCHANGED deployed /\ outbox' = Unstuck
    BY DEF StartRun
  <1> HIDE DEF beg
  <1>3. run \in Run /\ run.pc = "find" /\ run.known = [s \in Societies |-> "unasked"]
    BY <1>1, QueueAssumption DEF Run
  <1> HIDE DEF run
  <1>4. Unsent
    <2>1. Rows' = Rows
      BY <1>2, UnstuckRows
    <2>2. \A i \in Rows : /\ outbox'[i].society = outbox[i].society
                          /\ outbox'[i].status = "SENT" <=> outbox[i].status = "SENT"
                          /\ outbox[i].status = "SENT" => outbox'[i].today = outbox[i].today
      BY <1>2, UnstuckRows DEF Alike
    <2>3. ASSUME NEW s \in Societies PROVE SentToday(s)' = SentToday(s)
      BY <2>1, <2>2, SameCount
    <2> QED
      BY <2>1, <2>2, <2>3 DEF Unsent
  <1>5. Tally(run) /\ Points(run)
    BY <1>3 DEF Tally, Points
  <1> QED
    BY <1>2, <1>3, <1>4, <1>5, Steady

LEMMA EnqueueWithin ==
    ASSUME QueueInv, Within, NEW s \in Societies, Enqueue(s)
    PROVE  Within'
  <1> DEFINE row == [society |-> s, status |-> "PENDING", attempts |-> 0,
                     today |-> FALSE, delivered |-> 0, unsure |-> 0]
             n == Len(outbox)
  <1>1. row \in Message /\ row.status = "PENDING"
    BY DEF Message
  <1>2. outbox' = Append(outbox, row) /\ UNCHANGED <<sender, deployed>> /\ \A p \in Servers : sender[p].pc = "off"
    BY DEF Enqueue
  <1> HIDE DEF row
  <1>3. n \in Nat /\ Rows = 1..n
    BY Rowed DEF QueueInv
  <1>4. /\ outbox' \in Seq(Message) /\ Len(outbox') = n + 1
        /\ \A i \in 1..(n + 1) : outbox'[i] = IF i <= n THEN outbox[i] ELSE row
    BY <1>1, <1>2, AppendProperties DEF QueueInv, Typed
  <1> HIDE DEF n
  <1>5. Rows' = 1..(n + 1)
    BY <1>4, LenProperties DEF Rows
  <1>6. (\A i \in Rows : outbox'[i] = outbox[i]) /\ \A i \in Rows' : i \notin Rows => outbox'[i].status # "SENT"
    BY <1>1, <1>3, <1>4, <1>5
  <1>7. Rows \subseteq Rows'
    BY <1>3, <1>5
  <1>8. ASSUME NEW t \in Societies PROVE SentToday(t)' = SentToday(t)
    BY <1>6, <1>7, SameCount
  <1> QED
    BY <1>2, <1>8 DEF Within, Tally, Kept

LEMMA NextDayWithin ==
    ASSUME QueueInv, Within, NextDay
    PROVE  Within'
  <1>1. \A i \in Rows : outbox[i] \in Message
    BY Rowed DEF QueueInv
  <1>2. Rows' = Rows
    BY DEF NextDay, Rows
  <1>3. \A i \in Rows : outbox'[i].today = FALSE
    BY <1>1 DEF NextDay, Message
  <1>4. ASSUME NEW s \in Societies PROVE SentToday(s)' = 0
    <2>1. Sent(s)' = {}
      BY <1>2, <1>3 DEF Sent
    <2> QED
      BY <2>1, FS_EmptySet DEF Sent, SentToday
  <1> QED
    BY <1>4, QueueAssumption DEF NextDay, Within, Tally, Kept

LEMMA FindWithin ==
    ASSUME QueueInv, Within, NEW p \in Servers, Find(p)
    PROVE  Within'
  <1>1. /\ sender[p].pc = "find" /\ sender[p] \in Run /\ p \in deployed /\ UNCHANGED deployed
    BY FindCases
  <1>2. PICK i \in Rows : /\ outbox[i].status = "PENDING" /\ outbox[i].society \in Societies
                          /\ Dropped(p, i) \/ (UNCHANGED outbox /\ (Taken(p, i) \/ Passed(p, i)))
    BY FindCases
  <1> DEFINE o == outbox[i].society
  <1>3. Cardinality(deployed) = 1 => Tally(sender[p])
    BY DEF Within
  <1>4. CASE Dropped(p, i)
    <2> DEFINE row == [outbox[i] EXCEPT !.status = "FAILED"]
               run == [sender[p] EXCEPT !.known = [sender[p].known EXCEPT ![o] = "off"]]
    <2>1. outbox' = [outbox EXCEPT ![i] = row] /\ sender' = [sender EXCEPT ![p] = run]
      BY <1>4 DEF Dropped
    <2>2. row \in Message /\ row.society = outbox[i].society /\ row.status = "FAILED"
      BY <1>2, StillWaiting DEF Message
    <2>3. [sender[p].known EXCEPT ![o] = "off"] \in [Societies -> {"unasked", "on", "off"}]
      BY <1>1 DEF Run
    <2>4. run \in Run /\ run.pc = "find" /\ run.counted = sender[p].counted
          /\ run.known = [sender[p].known EXCEPT ![o] = "off"]
      BY <1>1, <2>3 DEF Run
    <2> HIDE DEF row, run
    <2>5. Unsent
      BY <1>2, <2>1, <2>2, UnsentRow DEF QueueInv
    <2>6. \A s \in Societies : run.known[s] = "on" => sender[p].known[s] = "on"
      BY <1>1, <2>4 DEF Run
    <2>7. Points(run) /\ (Cardinality(deployed) = 1 => Tally(run))
      BY <1>1, <1>3, <2>4, <2>6 DEF Tally, Points
    <2> QED
      BY <1>1, <2>1, <2>4, <2>5, <2>7, Steady
  <1>5. CASE UNCHANGED outbox /\ Taken(p, i)
    <2>1. PICK run \in Run : sender' = [sender EXCEPT ![p] = run] /\ TakesUp(run, p, i)
      BY <1>2, <1>5, TakenRun DEF QueueInv
    <2>2. run.pc = "claim" /\ run.msg = i /\ run.known = [sender[p].known EXCEPT ![o] = "on"]
      BY <2>1 DEF TakesUp
    <2>3. sender[p].known \in [Societies -> {"unasked", "on", "off"}] /\ sender[p].counted \in [Societies -> Nat]
      BY <1>1 DEF Run
    <2>4. CASE Through[o] = "number"
      <3>1. run.counted = [sender[p].counted EXCEPT ![o] = Count(p, o)] /\ Count(p, o) < DailyCap
        BY <2>1, <2>4 DEF TakesUp
      <3>2. Cardinality(deployed) = 1 => Count(p, o) = SentToday(o)
        BY <1>1, <1>2, <1>3, <2>4 DEF Count, Tally
      <3>3. Cardinality(deployed) = 1 => \A s \in Societies : Through[s] = "number" /\ run.known[s] = "on"
                                          => run.counted[s] = SentToday(s)
        BY <1>1, <1>2, <1>3, <2>2, <2>3, <3>1, <3>2 DEF Tally
      <3>4. run.known[o] = "on" /\ run.counted[o] < DailyCap
        BY <1>2, <2>2, <2>3, <3>1
      <3>5. Points(run) /\ (Cardinality(deployed) = 1 => Tally(run))
        BY <2>2, <3>3, <3>4 DEF Tally, Points
      <3> QED
        BY <1>1, <1>5, <2>1, <3>5, UnsentSame, Steady
    <2>5. CASE Through[o] # "number"
      <3>1. run.counted = sender[p].counted
        BY <2>1, <2>5 DEF TakesUp
      <3>2. \A s \in Societies : Through[s] = "number" => run.known[s] = sender[p].known[s]
        BY <2>2, <2>3, <2>5
      <3>3. Points(run) /\ (Cardinality(deployed) = 1 => Tally(run))
        BY <1>1, <1>3, <2>2, <2>5, <3>1, <3>2 DEF Tally, Points
      <3> QED
        BY <1>1, <1>5, <2>1, <3>3, UnsentSame, Steady
    <2> QED
      BY <2>4, <2>5
  <1>6. CASE UNCHANGED outbox /\ Passed(p, i)
    <2> DEFINE run == Skip(p, o)
    <2>1. run \in Run /\ run.pc = "find" /\ run.known = sender[p].known /\ run.counted = sender[p].counted
      BY <1>1, <1>2, SkipRun DEF QueueInv
    <2>2. sender' = [sender EXCEPT ![p] = Stopped] \/ sender' = [sender EXCEPT ![p] = run]
      BY <1>6 DEF Passed
    <2> HIDE DEF run
    <2>3. Points(run) /\ (Cardinality(deployed) = 1 => Tally(run))
      BY <1>1, <1>3, <2>1 DEF Tally, Points
    <2>4. Stopped \in Run /\ Points(Stopped) /\ Tally(Stopped)
      BY StoppedRun DEF Tally, Points
    <2> QED
      BY <1>1, <1>6, <2>1, <2>2, <2>3, <2>4, UnsentSame, Steady
  <1> QED
    BY <1>2, <1>4, <1>5, <1>6

\* A run that has ended, has laid its message down, or holds what it held.
CarriesOn(p, run) ==
    \/ run.pc = "off"
    \/ /\ run.known = sender[p].known /\ run.counted = sender[p].counted /\ sender[p].pc # "off"
       /\ \/ run.pc = "find"
          \/ /\ run.pc \in {"send", "sent"} /\ run.msg = sender[p].msg
             /\ sender[p].pc \in {"claim", "send", "sent"} /\ sender[p].msg \in Rows

LEMMA Onward ==
    ASSUME QueueInv, Within, NEW p \in Servers, p \in deployed, UNCHANGED deployed, NEW run \in Run,
           sender' = [sender EXCEPT ![p] = run], Unsent, CarriesOn(p, run)
    PROVE  Within'
  <1>1. Points(run)
    BY DEF Points, CarriesOn
  <1>2. Cardinality(deployed) = 1 => Tally(run)
    BY DEF Within, Tally, CarriesOn
  <1> QED
    BY <1>1, <1>2, Steady

\* A run that carries on with a row it holds and leaves it unsent.
LEMMA OnwardWith ==
    ASSUME QueueInv, Within, NEW p \in Servers, AtSend(p), UNCHANGED deployed,
           NEW left \in Message, NEW run \in Run,
           outbox' = [outbox EXCEPT ![sender[p].msg] = left], sender' = [sender EXCEPT ![p] = run],
           left.society = Of(p), left.status # "SENT", CarriesOn(p, run)
    PROVE  Within'
  <1> DEFINE m == sender[p].msg
  <1>1. m \in Rows /\ outbox[m].status # "SENT" /\ p \in deployed /\ left.society = outbox[m].society
    BY OwnRow DEF Of
  <1> HIDE DEF m
  <1>2. outbox' = [outbox EXCEPT ![m] = left]
    BY DEF m
  <1>3. Unsent
    BY <1>1, <1>2, UnsentRow DEF QueueInv
  <1> QED
    BY <1>1, <1>3, Onward

LEMMA ClaimWithin ==
    ASSUME QueueInv, Within, NEW p \in Servers, Claim(p)
    PROVE  Within'
  <1> DEFINE m == sender[p].msg
  <1>1. /\ sender[p].pc = "claim" /\ m \in Rows /\ sender[p] \in Run
        /\ p \in deployed /\ UNCHANGED deployed
    BY DEF Claim, QueueInv, Typed, Held, Holds, Busy
  <1>2. CASE outbox[m].status = "PENDING"
    <2> DEFINE mid == [outbox[m] EXCEPT !.status = "SENDING"]
               row == [mid EXCEPT !.attempts = outbox[m].attempts + 1]
               run == [sender[p] EXCEPT !.pc = "send"]
    <2>1. sender' = [sender EXCEPT ![p] = run] /\ outbox' = [outbox EXCEPT ![m] = row]
      BY <1>2 DEF Claim
    <2>2. outbox[m] \in Message
      BY <1>1, Rowed DEF QueueInv
    <2>3. mid \in Message /\ mid.society = outbox[m].society /\ mid.status = "SENDING"
      BY <2>2 DEF Message
    <2>4. run \in Run /\ run.pc = "send" /\ run.msg = m /\ run.known = sender[p].known
          /\ run.counted = sender[p].counted
      BY <1>1 DEF Run
    <2>5. outbox[m].attempts + 1 \in Nat
      BY <2>2 DEF Message
    <2> HIDE DEF mid, run
    <2>6. row \in Message /\ row.society = mid.society /\ row.status = mid.status
      BY <2>3, <2>5 DEF Message
    <2>7. CarriesOn(p, run)
      BY <1>1, <2>4 DEF CarriesOn
    <2> HIDE DEF row, m
    <2>8. Unsent
      BY <1>1, <1>2, <2>1, <2>3, <2>6, UnsentRow DEF QueueInv
    <2> QED
      BY <1>1, <2>1, <2>4, <2>7, <2>8, Onward
  <1>3. CASE outbox[m].status # "PENDING"
    <2>1. sender' = [sender EXCEPT ![p] = Unburdened(p)] /\ UNCHANGED outbox
      BY <1>3 DEF Claim
    <2>2. Unburdened(p) \in Run /\ CarriesOn(p, Unburdened(p))
      BY <1>1, UnburdenedRun DEF QueueInv, CarriesOn
    <2> QED
      BY <1>1, <2>1, <2>2, UnsentSame, Onward
  <1> QED
    BY <1>2, <1>3

LEMMA TransmitWithin ==
    ASSUME QueueInv, Within, NEW p \in Servers, Transmit(p)
    PROVE  Within'
  <1> DEFINE m == sender[p].msg
             row == outbox[m]
  <1>1. sender[p].pc = "send" /\ AtSend(p) /\ UNCHANGED deployed
    BY DEF Transmit, Leaves, AtSend
  <1>2. /\ m \in Rows /\ row \in Message /\ row.society = Of(p) /\ row.attempts > 0
        /\ sender[p].left > 0 /\ Of(p) \in Societies /\ row.status = "SENDING"
    BY <1>1, OwnRow DEF Of
  <1>3. /\ Stopped \in Run /\ CarriesOn(p, Stopped)
        /\ ShutOut(p) \in Run /\ CarriesOn(p, ShutOut(p))
        /\ After(p) \in Run /\ CarriesOn(p, After(p))
    BY <1>1, <1>2, StoppedRun, ShutOutRun, AfterRun DEF QueueInv, CarriesOn
  <1>4. /\ Delivered(p) \in Message /\ Delivered(p).society = Of(p)
        /\ Delivered(p).status = "SENDING" /\ Delivered(p).attempts > 0
    BY <1>1, DeliveredRow
  <1>5. ASSUME NEW left \in Message, NEW run \in Run, Leaves(p, left, run),
               left.society = Of(p), left.status # "SENT", CarriesOn(p, run)
        PROVE  Within'
    BY <1>1, <1>5, OnwardWith DEF Leaves
  <1>6. CASE Leaves(p, PutBack(row), Stopped) \/ Leaves(p, PutBack(row), ShutOut(p))
    <2>1. PutBack(row) \in Message /\ PutBack(row).society = Of(p) /\ PutBack(row).status # "SENT"
      BY <1>2, Reworded
    <2> HIDE DEF row, m
    <2> QED
      BY <1>3, <1>5, <1>6, <2>1
  <1>7. CASE Leaves(p, Failed(p, row), After(p))
    <2>1. Failed(p, row) \in Message /\ Failed(p, row).society = Of(p) /\ Failed(p, row).status # "SENT"
      BY <1>2, Reworded
    <2> HIDE DEF row, m
    <2> QED
      BY <1>3, <1>5, <1>7, <2>1
  <1>8. CASE Leaves(p, [row EXCEPT !.status = "FAILED"], After(p))
    <2> DEFINE dropped == [row EXCEPT !.status = "FAILED"]
    <2>1. dropped \in Message /\ dropped.society = Of(p) /\ dropped.status # "SENT"
      BY <1>2 DEF Message
    <2>2. Leaves(p, dropped, After(p))
      BY <1>8
    <2> HIDE DEF row, m, dropped
    <2> QED
      BY <1>3, <1>5, <2>1, <2>2
  <1>9. CASE Leaves(p, PutBack(Unheard(Delivered(p))),
                    IF Through[Of(p)] = "number" THEN Stopped ELSE ShutOut(p))
    <2> DEFINE unheard == Unheard(Delivered(p))
               back == PutBack(unheard)
    <2>1. unheard \in Message /\ unheard.society = Of(p) /\ unheard.attempts > 0
      BY <1>4, Reworded
    <2> HIDE DEF unheard
    <2>2. back \in Message /\ back.society = Of(p) /\ back.status # "SENT"
      BY <2>1, Reworded
    <2>3. Leaves(p, back, Stopped) \/ Leaves(p, back, ShutOut(p))
      BY <1>9 DEF unheard
    <2> HIDE DEF back, row, m
    <2> QED
      BY <1>3, <1>5, <2>2, <2>3
  <1>10. CASE Leaves(p, Delivered(p), [sender[p] EXCEPT !.pc = "sent"])
    <2> DEFINE run == [sender[p] EXCEPT !.pc = "sent"]
    <2>1. run \in Run /\ run.pc = "sent" /\ run.msg = m /\ run.known = sender[p].known
          /\ run.counted = sender[p].counted
      BY DEF QueueInv, Typed, Run
    <2>2. Leaves(p, Delivered(p), run)
      BY <1>10
    <2> HIDE DEF run
    <2>3. CarriesOn(p, run)
      BY <1>1, <1>2, <2>1 DEF CarriesOn
    <2> HIDE DEF row, m
    <2> QED
      BY <1>4, <1>5, <2>1, <2>2, <2>3
  <1> QED
    BY <1>6, <1>7, <1>8, <1>9, <1>10 DEF Transmit

LEMMA RecordLostWithin ==
    ASSUME QueueInv, Within, NEW p \in Servers, RecordLost(p)
    PROVE  Within'
  <1> DEFINE row == outbox[sender[p].msg]
             unheard == Unheard(row)
             left == Failed(p, unheard)
             run == After(p)
  <1>1. AtSend(p) /\ UNCHANGED deployed /\ sender[p].pc = "sent"
    BY DEF RecordLost, Leaves, AtSend
  <1>2. row \in Message /\ row.society = Of(p) /\ row.attempts > 0 /\ sender[p].left > 0
    BY <1>1, OwnRow DEF Of
  <1>3. outbox' = [outbox EXCEPT ![sender[p].msg] = left] /\ sender' = [sender EXCEPT ![p] = run]
    BY DEF RecordLost, Leaves
  <1>4. unheard \in Message /\ unheard.society = Of(p) /\ unheard.attempts > 0
    BY <1>2, Reworded
  <1>5. run \in Run /\ CarriesOn(p, run)
    BY <1>1, <1>2, AfterRun DEF QueueInv, CarriesOn
  <1> HIDE DEF unheard, run
  <1>6. left \in Message /\ left.society = Of(p) /\ left.status # "SENT"
    BY <1>4, Reworded
  <1> HIDE DEF left, row
  <1> QED
    BY <1>1, <1>3, <1>5, <1>6, OnwardWith

LEMMA DieWithin ==
    ASSUME QueueInv, Within, NEW p \in Servers, Die(p)
    PROVE  Within'
  <1>1. UNCHANGED deployed /\ sender' = [sender EXCEPT ![p] = Stopped] /\ p \in deployed
    BY DEF Die, QueueInv, Held, Holds
  <1>2. Stopped \in Run /\ CarriesOn(p, Stopped)
    BY StoppedRun DEF CarriesOn
  <1>3. CASE sender[p].pc = "sent"
    <2> DEFINE row == outbox[sender[p].msg]
               left == Unheard(row)
    <2>1. AtSend(p)
      BY <1>3 DEF AtSend
    <2>2. row \in Message /\ row.society = Of(p) /\ row.attempts > 0 /\ row.status = "SENDING"
      BY <2>1, OwnRow DEF Of
    <2>3. outbox' = [outbox EXCEPT ![sender[p].msg] = left]
      BY <1>3 DEF Die, Unheard
    <2>4. left \in Message /\ left.society = Of(p) /\ left.status # "SENT"
      BY <2>2, Reworded
    <2> HIDE DEF left, row
    <2> QED
      BY <1>1, <1>2, <2>1, <2>3, <2>4, OnwardWith
  <1>4. CASE sender[p].pc # "sent"
    <2>1. UNCHANGED outbox
      BY <1>4 DEF Die
    <2> QED
      BY <1>1, <1>2, <2>1, UnsentSame, Onward
  <1> QED
    BY <1>3, <1>4

\* The message that is written down as sent is the one there was room for.
LEMMA RecordSentWithin ==
    ASSUME QueueInv, Within, NEW p \in Servers, RecordSent(p)
    PROVE  Within'
  <1>1. AtSend(p) /\ UNCHANGED deployed /\ sender[p].pc = "sent"
    BY DEF RecordSent, Leaves, AtSend
  <1>o. PICK o \in Societies : o = Of(p)
    BY <1>1, OwnRow
  <1> DEFINE m == sender[p].msg
             row == outbox[m]
             mid == [row EXCEPT !.status = "SENT"]
             left == [mid EXCEPT !.today = TRUE]
             after == After(p)
             count == IF Through[o] = "number" THEN after.counted[o] + 1 ELSE after.counted[o]
             run == [after EXCEPT !.counted = [after.counted EXCEPT ![o] = count]]
  <1>2. /\ m \in Rows /\ row \in Message /\ row.society = o /\ o \in Societies
        /\ sender[p].left > 0 /\ row.status = "SENDING" /\ p \in deployed
    BY <1>o, <1>1, OwnRow DEF Of
  <1>3. outbox' = [outbox EXCEPT ![m] = left] /\ sender' = [sender EXCEPT ![p] = run]
    BY <1>o DEF RecordSent, Leaves
  <1>4. mid \in Message /\ mid.society = o /\ mid.status = "SENT"
    BY <1>2 DEF Message
  <1>5. after \in Run /\ after.pc = "find" /\ after.known = sender[p].known
        /\ after.counted = sender[p].counted
    BY <1>2, AfterRun DEF QueueInv
  <1> HIDE DEF mid, after
  <1>6. left \in Message /\ left.society = o /\ left.status = "SENT" /\ left.today = TRUE
    BY <1>4 DEF Message
  <1>7. [after.counted EXCEPT ![o] = count] \in [Societies -> Nat]
    BY <1>2, <1>5 DEF Run
  <1> HIDE DEF left, count
  <1>8. run \in Run /\ run.pc = "find" /\ run.known = sender[p].known
        /\ run.counted = [sender[p].counted EXCEPT ![o] = count]
    BY <1>5, <1>7 DEF Run
  <1> HIDE DEF run
  <1>9. /\ Rows' = Rows /\ outbox'[m] = left /\ \A i \in Rows : i # m => outbox'[i] = outbox[i]
    BY <1>2, <1>3, <1>6, Rewritten DEF QueueInv
  <1>10. /\ sender'[p] = run /\ \A q \in Servers : q # p => sender'[q] = sender[q]
    BY <1>3, <1>8, Rerun DEF QueueInv
  <1>11. SentToday(o)' = SentToday(o) + 1
    <2>1. Sent(o)' = Sent(o) \cup {m} /\ m \notin Sent(o)
      <3> HIDE DEF m
      <3> QED
        BY <1>2, <1>6, <1>9 DEF Sent, row
    <2>2. IsFiniteSet(Sent(o)) /\ SentToday(o) = Cardinality(Sent(o))
      BY SentFinite DEF QueueInv
    <2>3. Cardinality(Sent(o)') = Cardinality(Sent(o)) + 1
      BY <2>1, <2>2, FS_AddElement
    <2>4. SentToday(o)' = Cardinality(Sent(o)')
      BY DEF Sent, SentToday
    <2> QED
      BY <2>2, <2>3, <2>4
  <1>12. ASSUME NEW s \in Societies, s # o
         PROVE  SentToday(s)' = SentToday(s)
    <2>1. Sent(s)' = Sent(s)
      <3> HIDE DEF m
      <3> QED
        BY <1>2, <1>6, <1>9, <1>12 DEF Sent, row
    <2> QED
      BY <2>1 DEF Sent, SentToday
  <1>13. SUFFICES ASSUME Cardinality(deployed) = 1
                  PROVE  (\A q \in Servers : Tally(sender[q])') /\ \A s \in Societies : Kept(s)'
    BY <1>1 DEF Within
  <1>14. /\ \A s \in Societies : Through[s] = "number" /\ sender[p].known[s] = "on"
                                => sender[p].counted[s] = SentToday(s)
         /\ Through[o] = "number" => sender[p].known[o] = "on" /\ sender[p].counted[o] < DailyCap
    BY <1>o, <1>1, <1>13 DEF Within, Tally, Of
  <1>15. Through[o] = "number" => SentToday(o) < DailyCap /\ count = SentToday(o) + 1
    BY <1>2, <1>5, <1>14 DEF count
  <1>16. SentToday(o) \in Nat
    BY SentFinite DEF QueueInv
  <1>17. sender[p].counted \in [Societies -> Nat]
    BY DEF QueueInv, Typed, Run
  <1> HIDE DEF m
  <1>18. ASSUME NEW s \in Societies PROVE Kept(s)'
    <2>1. CASE s = o
      BY <1>11, <1>15, <1>16, <2>1, QueueAssumption DEF Kept
    <2>2. CASE s # o
      BY <1>12, <1>13, <2>2 DEF Kept, Within
    <2> QED
      BY <2>1, <2>2
  <1>19. ASSUME NEW q \in Servers PROVE Tally(sender[q])'
    <2>1. CASE q = p
      <3>1. ASSUME NEW s \in Societies, Through[s] = "number", run.known[s] = "on"
            PROVE  run.counted[s] = SentToday(s)'
        <4>1. CASE s = o
          BY <1>8, <1>11, <1>15, <1>17, <3>1, <4>1
        <4>2. CASE s # o
          BY <1>8, <1>12, <1>14, <1>17, <3>1, <4>2
        <4> QED
          BY <4>1, <4>2
      <3> QED
        BY <1>8, <1>10, <2>1, <3>1 DEF Tally
    <2>2. CASE q # p
      BY <1>2, <1>10, <1>13, <2>2, Alone DEF Tally
    <2> QED
      BY <2>1, <2>2
  <1> QED
    BY <1>18, <1>19

LEMMA EndRunWithin ==
    ASSUME QueueInv, Within, NEW p \in Servers, EndRun(p)
    PROVE  Within'
  <1>1. sender' = [sender EXCEPT ![p] = Stopped] /\ UNCHANGED <<outbox, deployed>> /\ p \in deployed
    BY DEF EndRun, QueueInv, Held, Holds
  <1>2. Stopped \in Run /\ CarriesOn(p, Stopped)
    BY StoppedRun DEF CarriesOn
  <1> QED
    BY <1>1, <1>2, UnsentSame, Onward

LEMMA GoesWithin == QueueInv /\ Within /\ [QueueNext]_queueVars => Within'
  <1> SUFFICES ASSUME QueueInv, Within, [QueueNext]_queueVars PROVE Within'
    OBVIOUS
  <1>1. CASE UNCHANGED <<outbox, sender, deployed>>
    BY <1>1 DEF Within, Tally, Kept, SentToday, Rows
  <1>2. CASE \E s \in Societies : Enqueue(s)
    BY <1>2, EnqueueWithin
  <1>3. ASSUME NEW p \in Servers, StartRun(p) \/ QueueStep(p) \/ Die(p)
        PROVE  Within'
    BY <1>3, StartRunWithin, EndRunWithin, FindWithin, ClaimWithin, TransmitWithin,
       RecordSentWithin, RecordLostWithin, DieWithin DEF QueueStep
  <1>4. CASE NextDay
    BY <1>4, NextDayWithin
  <1>5. CASE Nightfall \/ Circumstances \/ UNCHANGED queueVars
    BY <1>1, <1>5 DEF Nightfall, Circumstances, queueVars
  <1> QED
    BY <1>2, <1>3, <1>4, <1>5 DEF QueueNext

LEMMA BeginsWithin == QueueInit => Within
  <1> SUFFICES ASSUME QueueInit PROVE Within
    OBVIOUS
  <1>1. \A p \in Servers : sender[p].pc = "off"
    BY StoppedRun DEF QueueInit
  <1>2. ASSUME NEW s \in Societies PROVE SentToday(s) = 0
    <2>1. Sent(s) = {}
      BY DEF QueueInit, Sent, Rows
    <2> QED
      BY <2>1, FS_EmptySet DEF Sent, SentToday
  <1> QED
    BY <1>1, <1>2, QueueAssumption DEF Within, Tally, Kept

\* Rows, runs and settings keep their types; a run is about a row there is.
THEOREM QueueTypeCorrect == QueueSpec => []QueueTypeOK
  <1>1. QueueInv => QueueTypeOK
    BY DEF QueueInv, Typed, Surroundings, Held, Holds, Run, QueueTypeOK
  <1> QED
    BY <1>1, Begins, Goes, PTL DEF QueueSpec

\* However many servers drain the queue, die, or lose an answer, a message goes out through a
\* number at most once, and through a Meta account at most once more than the sends no server
\* learned the end of.
THEOREM SentOnce == QueueSpec => []NeverSentTwice
  <1>1. QueueInv => NeverSentTwice
    <2> SUFFICES ASSUME QueueInv, NEW i \in Rows
                 PROVE  outbox[i].delivered <= IF Through[outbox[i].society] = "number" THEN 1
                                               ELSE 1 + outbox[i].unsure
      BY DEF NeverSentTwice
    <2>1. Accounted(i) /\ outbox[i].unsure \in Nat /\ outbox[i].delivered \in Nat
      BY Rowed DEF QueueInv, AllAccounted, Message
    <2> QED
      BY <2>1 DEF Accounted
  <1> QED
    BY <1>1, Begins, Goes, PTL DEF QueueSpec

\* While one server sends, no number sends more than its limit in a day: the count a run keeps for
\* itself is the number of rows marked sent, whatever fails, is lost, or is started again.
THEOREM WithinTheDay == QueueSpec => []DailyLimit
  <1>1. Within => DailyLimit
    BY DEF Within, Kept, DailyLimit
  <1>2. QueueInit => QueueInv /\ Within
    BY Begins, BeginsWithin
  <1>3. QueueInv /\ Within /\ [QueueNext]_queueVars => QueueInv' /\ Within'
    BY Goes, GoesWithin
  <1> QED
    BY <1>1, <1>2, <1>3, PTL DEF QueueSpec

-----------------------------------------------------------------------------
(* Phone, browser and queue side by side.                                  *)

\* The part that runs keeps what it promises, and the others stand still.
BackgroundInv ==
    /\ IInv /\ QueueInv /\ WebHolds /\ PhoneTypeOK /\ QueueFits
    /\ part = "phone" => PhoneInv

LEMMA BackgroundStarts == Init => BackgroundInv
  BY PhoneStarts, WebStarts, Begins DEF Init, BackgroundInv

LEMMA BackgroundGoesOn == ASSUME BackgroundInv, [Step]_vars PROVE BackgroundInv'
  <1>0. IInv /\ QueueInv /\ WebHolds /\ PhoneTypeOK /\ QueueFits
    BY DEF BackgroundInv
  <1>1. CASE UNCHANGED <<serverVars, phoneVars, webVars>> /\ [QueueNext]_queueVars /\ UNCHANGED part
    <2>1. QueueInv'
      BY <1>0, <1>1, Goes
    <2>2. IInv' /\ WebHolds'
      BY <1>0, <1>1, WebGoesOn
    <2>3. PhoneTypeOK' /\ QueueFits'
      BY <1>0, <1>1 DEF phoneVars, PhoneTypeOK, QueueFits, RoutinesAtRest
    <2>4. ASSUME part = "phone" PROVE PhoneInv'
      <3>1. PhoneInv
        BY <2>4 DEF BackgroundInv
      <3> QED
        BY <1>0, <1>1, <3>1, PhoneGoesOn
    <2> QED
      BY <1>1, <2>1, <2>2, <2>3, <2>4 DEF BackgroundInv
  <1>2. CASE part = "phone" /\ PhoneNext /\ UNCHANGED <<webVars, queueVars>> /\ UNCHANGED part
    <2>1. QueueInv'
      BY <1>0, <1>2, Goes
    <2>2. PhoneInv
      BY <1>2 DEF BackgroundInv
    <2>3. IInv' /\ PhoneInv' /\ PhoneTypeOK' /\ QueueFits'
      BY <1>0, <1>2, <2>2, PhoneGoesOn
    <2>4. WebHolds'
      BY <1>0, <1>2, <2>3 DEF WebHolds, webVars, IInv
    <2> QED
      BY <2>1, <2>3, <2>4 DEF BackgroundInv
  <1>3. CASE part = "browser" /\ WebNext /\ UNCHANGED <<phoneVars, queueVars>> /\ UNCHANGED part
    <2>1. QueueInv'
      BY <1>0, <1>3, Goes
    <2>2. IInv' /\ WebHolds'
      BY <1>0, <1>3, WebGoesOn
    <2>3. PhoneTypeOK' /\ QueueFits'
      BY <1>0, <1>3 DEF phoneVars, PhoneTypeOK, QueueFits, RoutinesAtRest
    <2> QED
      BY <1>3, <2>1, <2>2, <2>3 DEF BackgroundInv
  <1> QED
    BY <1>1, <1>2, <1>3 DEF Step, vars

\* Side by side, as the instance explores them, they keep their types; and one token has one
\* successor, whichever client rotates it.
THEOREM BackgroundTypeCorrect == BackgroundSpec => [](TypeOK /\ OneSuccessor)
  <1>1. BackgroundInv => TypeOK /\ OneSuccessor
    <2>1. QueueInv => QueueTypeOK
      BY DEF QueueInv, Typed, Surroundings, Held, Holds, Run, QueueTypeOK
    <2> QED
      BY <2>1 DEF BackgroundInv, IInv, WebHolds, WebTypeOK, TypeOK
  <1> QED
    BY <1>1, BackgroundStarts, BackgroundGoesOn, PTL DEF BackgroundSpec
=============================================================================
