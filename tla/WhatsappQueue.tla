---------------------------- MODULE WhatsappQueue ----------------------------
(* The outbox of WhatsApp messages and the servers that drain it: what is   *)
(* claimed, sent, put back, retried and given up, with servers that stop in *)
(* the middle, answers that never arrive, societies that cannot send and a  *)
(* gateway that is down for a while.                                        *)
EXTENDS Integers, Sequences, FiniteSets, FiniteSetsExt

CONSTANTS Servers,      \* API processes, one timer each
          Societies,
          Through,      \* each society's way out: its "number" or its "meta" account
          MaxMessages,  \* bound: messages queued in a behaviour
          DailyCap,     \* messages a number may send a day
          MaxAttempts,
          PerRun,       \* messages one run may use up
          Disturbances  \* bound: server deaths, lost answers and changed circumstances together

ASSUME QueueAssumption ==
    /\ Servers # {} /\ IsFiniteSet(Servers)
    /\ Through \in [Societies -> {"number", "meta"}]
    /\ MaxMessages \in Nat /\ DailyCap \in Nat /\ Disturbances \in Nat
    /\ MaxAttempts \in Nat \ {0} /\ PerRun \in Nat \ {0}

VARIABLES outbox,       \* the rows, oldest first
          switchedOn,   \* societies allowed to send, with the setting on
          canSend,      \* societies whose session is ready or whose token is accepted
          gatewayUp,    \* whether the platform's gateway answers
          sender,       \* each server's run
          deployed,     \* the servers there are
          night,        \* outside the sending window
          disturbances  \* how many there have been

queueVars == <<outbox, switchedOn, canSend, gatewayUp, sender, deployed, night, disturbances>>

\* delivered and unsure are history: how often it reached the person, and how many sends
\* ended without the server learning of it.  The delay before a retry is not modelled: a
\* failed message may be found again at once.
Message == [society : Societies, status : {"PENDING", "SENDING", "SENT", "FAILED"},
            attempts : Nat, today : BOOLEAN,
            delivered : Nat, unsure : Nat]
Stopped == [pc |-> "off", msg |-> 0, seen |-> 0, left |-> 0, blocked |-> {},
            known |-> [s \in Societies |-> "unasked"], counted |-> [s \in Societies |-> 0]]

Rows == DOMAIN outbox
Of(p) == outbox[sender[p].msg].society
SentToday(s) == Cardinality({i \in Rows : outbox[i].society = s /\ outbox[i].status = "SENT"
                                            /\ outbox[i].today})
BeingSent(i) == \E p \in Servers : sender[p].msg = i
                                     /\ sender[p].pc \in {"send", "sent"}

QueueInit ==
    /\ outbox = <<>>
    /\ switchedOn = Societies
    /\ canSend \in SUBSET Societies
    /\ gatewayUp \in BOOLEAN
    /\ sender = [p \in Servers |-> Stopped]
    /\ deployed \in {{CHOOSE p \in Servers : TRUE}, Servers}
    /\ disturbances = 0
    /\ night = FALSE

\* An event of a society that is switched on; one seen before adds nothing (dedupeKey).
\* Bound: events happen between runs.
Enqueue(s) ==
    /\ s \in switchedOn
    /\ Len(outbox) < MaxMessages /\ \A p \in Servers : sender[p].pc = "off"
    /\ outbox' = Append(outbox, [society |-> s, status |-> "PENDING", attempts |-> 0,
                                 today |-> FALSE, delivered |-> 0, unsure |-> 0])
    /\ UNCHANGED <<switchedOn, canSend, gatewayUp, sender, deployed, night, disturbances>>

\* The timer: rows left SENDING for ten minutes are put back (none a live server is sending:
\* a send gives up after thirty seconds), and a run begins if any row waits.
Unstuck == [i \in Rows |-> IF outbox[i].status = "SENDING" /\ ~BeingSent(i)
                           THEN [outbox[i] EXCEPT !.status = "PENDING"] ELSE outbox[i]]

StartRun(p) ==
    /\ p \in deployed /\ ~night
    /\ sender[p].pc = "off"
    /\ \E i \in Rows : Unstuck[i].status = "PENDING"
    /\ outbox' = Unstuck
    /\ sender' = [sender EXCEPT ![p] = [Stopped EXCEPT !.pc = "find", !.left = PerRun]]
    /\ UNCHANGED <<switchedOn, canSend, gatewayUp, deployed, night, disturbances>>

\* The count of the day, taken when a run first meets a number and kept by adding to it.
CountIgnored(p, s) == 0
Count(p, s) == IF sender[p].known[s] = "on" THEN sender[p].counted[s] ELSE SentToday(s)

\* What a run makes of the society of the oldest row: its settings and its session as the run
\* first read them ("on" is switched on with its session ready), the day's limit.  Nothing is
\* asked about a Meta account before the send.
Skip(p, s) == [sender[p] EXCEPT !.blocked = @ \cup {s}]
Chosen(p, s, i) == [sender[p] EXCEPT !.pc = "claim", !.msg = i, !.seen = outbox[i].attempts,
                                     !.known[s] = "on"]

\* Nothing waits of the societies this run has not skipped, or it has used itself up.
Candidates(p) == {i \in Rows : /\ outbox[i].status = "PENDING"
                               /\ outbox[i].society \notin sender[p].blocked}
EndRun(p) ==
    /\ sender[p].pc = "find"
    /\ Candidates(p) = {} \/ sender[p].left = 0
    /\ sender' = [sender EXCEPT ![p] = Stopped]
    /\ UNCHANGED <<outbox, switchedOn, canSend, gatewayUp, deployed, night, disturbances>>

Find(p) ==
    /\ sender[p].pc = "find" /\ Candidates(p) # {} /\ sender[p].left > 0
    /\ LET i == Min(Candidates(p))
           s == outbox[i].society
           known == sender[p].known[s]
           isOn == known = "on" \/ (known = "unasked" /\ s \in switchedOn)
           isReady == known = "on" \/ (gatewayUp /\ s \in canSend)
       IN \/ \* switched off since it was queued: dropped
             /\ ~isOn
             /\ outbox' = [outbox EXCEPT ![i].status = "FAILED"]
             /\ sender' = [sender EXCEPT ![p].known[s] = "off"]
             /\ UNCHANGED canSend
          \/ /\ isOn /\ Through[s] = "meta"
             /\ sender' = [sender EXCEPT ![p] = Chosen(p, s, i)]
             /\ UNCHANGED <<outbox, canSend>>
          \/ \* the gateway cannot be asked: the whole run stops
             /\ isOn /\ Through[s] = "number" /\ known # "on" /\ ~gatewayUp
             /\ sender' = [sender EXCEPT ![p] = Stopped]
             /\ UNCHANGED <<outbox, canSend>>
          \/ \* a session that is not ready is skipped, and may come back by being started again
             /\ isOn /\ Through[s] = "number" /\ known # "on" /\ gatewayUp /\ s \notin canSend
             /\ sender' = [sender EXCEPT ![p] = Skip(p, s)]
             /\ canSend' \in {canSend, canSend \cup {s}}
             /\ UNCHANGED outbox
          \/ /\ isOn /\ Through[s] = "number" /\ isReady
             /\ sender' = [sender EXCEPT ![p] =
                   IF Count(p, s) >= DailyCap THEN Skip(p, s)
                   ELSE [Chosen(p, s, i) EXCEPT !.counted[s] = Count(p, s)]]
             /\ UNCHANGED <<outbox, canSend>>
    /\ UNCHANGED <<switchedOn, gatewayUp, deployed, night, disturbances>>

Unburdened(p) == [sender[p] EXCEPT !.pc = "find", !.msg = 0, !.seen = 0]

\* The claim left out: what is found is sent.
ClaimAnyway(p) ==
    /\ sender[p].pc = "claim"
    /\ outbox' = [outbox EXCEPT ![sender[p].msg].status = "SENDING",
                                ![sender[p].msg].attempts = @ + 1]
    /\ sender' = [sender EXCEPT ![p].pc = "send"]
    /\ UNCHANGED <<switchedOn, canSend, gatewayUp, deployed, night, disturbances>>

\* The conditional update: only one server gets the row.
Claim(p) ==
    /\ sender[p].pc = "claim"
    /\ IF outbox[sender[p].msg].status = "PENDING"
       THEN /\ outbox' = [outbox EXCEPT ![sender[p].msg].status = "SENDING",
                                        ![sender[p].msg].attempts = @ + 1]
            /\ sender' = [sender EXCEPT ![p].pc = "send"]
       ELSE /\ sender' = [sender EXCEPT ![p] = Unburdened(p)]
            /\ UNCHANGED outbox
    /\ UNCHANGED <<switchedOn, canSend, gatewayUp, deployed, night, disturbances>>

\* How a try at sending ends.  The gateway sends a number's message once per
\* Idempotency-Key; Meta sends whatever it is asked to.
GatewayCannot(p) == Through[Of(p)] = "number" /\ ~gatewayUp
Delivered(p) == [outbox[sender[p].msg] EXCEPT
                    !.delivered = IF Through[Of(p)] = "number" THEN 1 ELSE @ + 1]
Unheard(row) == [row EXCEPT !.unsure = @ + 1]
\* Not the message's fault: back as it was.
PutBack(row) == [row EXCEPT !.status = "PENDING", !.attempts = @ - 1]
\* Retried, or given up at the last attempt.
Failed(p, row) == [row EXCEPT !.status = IF sender[p].seen + 1 >= MaxAttempts
                                          THEN "FAILED" ELSE "PENDING"]
After(p) == [Unburdened(p) EXCEPT !.left = @ - 1]
ShutOutStops(p) == Stopped
ShutOut(p) == [Unburdened(p) EXCEPT !.blocked = @ \cup {Of(p)}]

Leaves(p, row, next) ==
    /\ outbox' = [outbox EXCEPT ![sender[p].msg] = row]
    /\ sender' = [sender EXCEPT ![p] = next]
    /\ UNCHANGED <<switchedOn, canSend, gatewayUp, deployed, night>>

\* A send that fails is written down with it: a server that dies in between leaves the row
\* as one that dies before the send.
Transmit(p) ==
    /\ sender[p].pc = "send"
    /\ LET row == outbox[sender[p].msg]
           able == ~GatewayCannot(p) /\ Of(p) \in canSend
       IN \/ /\ GatewayCannot(p)
             /\ Leaves(p, PutBack(row), Stopped) /\ UNCHANGED disturbances
          \/ /\ ~GatewayCannot(p) /\ Of(p) \notin canSend
             /\ Leaves(p, PutBack(row), ShutOut(p)) /\ UNCHANGED disturbances
          \/ /\ able
             /\ Leaves(p, Delivered(p), [sender[p] EXCEPT !.pc = "sent"])
             /\ UNCHANGED disturbances
          \/ /\ able
             /\ Leaves(p, Failed(p, row), After(p)) /\ UNCHANGED disturbances
          \/ \* it can never arrive
             /\ able
             /\ Leaves(p, [row EXCEPT !.status = "FAILED"], After(p)) /\ UNCHANGED disturbances
          \/ \* it arrived, and the answer took too long
             /\ able /\ disturbances < Disturbances
             /\ disturbances' = disturbances + 1
             /\ Leaves(p, PutBack(Unheard(Delivered(p))),
                       IF Through[Of(p)] = "number" THEN Stopped ELSE ShutOut(p))

RecordSent(p) ==
    /\ sender[p].pc = "sent"
    /\ Leaves(p, [outbox[sender[p].msg] EXCEPT !.status = "SENT", !.today = TRUE],
              [After(p) EXCEPT
                  !.counted[Of(p)] = IF Through[Of(p)] = "number" THEN @ + 1 ELSE @])
    /\ UNCHANGED disturbances

\* The row could not be written: the sent message is taken for one that failed.
RecordLost(p) ==
    /\ sender[p].pc = "sent"
    /\ disturbances < Disturbances
    /\ disturbances' = disturbances + 1
    /\ Leaves(p, Failed(p, Unheard(outbox[sender[p].msg])), After(p))

QueueStep(p) ==
    \/ EndRun(p) \/ Find(p) \/ Claim(p) \/ Transmit(p)
    \/ RecordSent(p) \/ RecordLost(p)

\* A server dies in the middle of a run, and is started again.
Die(p) ==
    /\ sender[p].pc # "off"
    /\ disturbances < Disturbances
    /\ disturbances' = disturbances + 1
    /\ outbox' = IF sender[p].pc = "sent" THEN [outbox EXCEPT ![sender[p].msg].unsure = @ + 1]
                 ELSE outbox
    /\ sender' = [sender EXCEPT ![p] = Stopped]
    /\ UNCHANGED <<switchedOn, canSend, gatewayUp, deployed, night>>

\* Runs begin in the daytime only, and none goes past midnight.
Nightfall ==
    /\ ~night /\ night' = TRUE
    /\ \E i \in Rows : outbox[i].today
    /\ UNCHANGED <<outbox, switchedOn, canSend, gatewayUp, sender, deployed, disturbances>>
NextDay ==
    /\ night /\ night' = FALSE
    /\ \A p \in Servers : sender[p].pc = "off"
    /\ outbox' = [i \in Rows |-> [outbox[i] EXCEPT !.today = FALSE]]
    /\ UNCHANGED <<switchedOn, canSend, gatewayUp, sender, deployed, disturbances>>

\* Settings, sessions and the gateway change when they like.
Flip(s, set) == IF s \in set THEN set \ {s} ELSE set \cup {s}
Circumstances ==
    /\ disturbances < Disturbances
    /\ disturbances' = disturbances + 1
    /\ \/ \E s \in Societies : switchedOn' = Flip(s, switchedOn) /\ UNCHANGED <<canSend, gatewayUp>>
       \/ \E s \in Societies : canSend' = Flip(s, canSend) /\ UNCHANGED <<switchedOn, gatewayUp>>
       \/ gatewayUp' = ~gatewayUp /\ UNCHANGED <<switchedOn, canSend>>
    /\ UNCHANGED <<outbox, sender, deployed, night>>

QueueNext ==
    \/ \E s \in Societies : Enqueue(s)
    \/ \E p \in Servers : StartRun(p) \/ QueueStep(p) \/ Die(p)
    \/ Nightfall \/ NextDay \/ Circumstances

\* The timer fires every minute and a run goes on until it ends; days pass.
QueueFairness ==
    /\ \A p \in Servers : WF_queueVars(StartRun(p)) /\ WF_queueVars(QueueStep(p))
    /\ WF_queueVars(Nightfall) /\ WF_queueVars(NextDay)

QueueSpec == QueueInit /\ [][QueueNext]_queueVars /\ QueueFairness

QueueTypeOK ==
    /\ outbox \in Seq(Message)
    /\ switchedOn \subseteq Societies /\ canSend \subseteq Societies /\ gatewayUp \in BOOLEAN
    /\ deployed \subseteq Servers /\ night \in BOOLEAN /\ disturbances \in 0..Disturbances
    /\ \A p \in Servers : sender[p].msg \in Rows \cup {0} /\ sender[p].left \in 0..PerRun

\* "Each message has a key, so running a job twice, or retrying, never sends twice": through a
\* number never, and through Meta only when a server did not learn that a send had arrived.
NeverSentTwice ==
    \A i \in Rows : outbox[i].delivered <=
        IF Through[outbox[i].society] = "number" THEN 1 ELSE 1 + outbox[i].unsure

\* "At most 250 a day per number", while one server sends.
DailyLimit ==
    Cardinality(deployed) = 1 =>
        \A s \in Societies : Through[s] = "number" => SentToday(s) <= DailyCap

\* "One society never holds up another": when the gateway stays up and a message's own society
\* may and can send, the message is sent or given up, whatever the other societies do.
Able(i) == /\ i \in Rows /\ gatewayUp
           /\ outbox[i].society \in canSend /\ outbox[i].society \in switchedOn
Ended(i) == i \in Rows /\ outbox[i].status \in {"SENT", "FAILED"}
EveryMessageEnds == \A i \in 1..MaxMessages : <>[]Able(i) => <>Ended(i)
=============================================================================
