-------------------------- MODULE Services_proofs --------------------------
(***************************************************************************)
(* What the services beside the payments promise: the gate for any number  *)
(* of passes, attempts, guards and residents; the books for any number of  *)
(* accounts, funds, expenses, salaries and requests under way; the         *)
(* bookings for any number of slots, flats, rules and requests; and the    *)
(* month's charges for any flats, rules, discounts, prices and limits.     *)
(***************************************************************************)
EXTENDS MCServices, Summation_proofs, SequenceTheorems, FiniteSetTheorems, TLAPS

-----------------------------------------------------------------------------
(* The gate.                                                               *)

\* What a guard's request is about to write, and entries nobody made yet.
GuardFits(g) == g.pc = "write" => g.attempt \in Attempts /\ g.what \in Kinds
GuardsFit == \A g \in GuardCalls : GuardFits(guard[g])
Unmade == \A a \in Attempts : entry[a].status = "none" => entry[a].via = "nothing"
\* A pass nobody gave has no uses to count.
Ungiven == \A p \in Passes : pass[p].status = "none" => pass[p].max = 0

GateInv == GateTypeOK /\ GuardsFit /\ Unmade /\ Ungiven /\ UsesMatchEntries

\* What one step may do to an entry.
EntryMoves(a) ==
    entry[a].status \notin Open \cup {"none"} =>
       /\ entry'[a].by = entry[a].by
       /\ <<entry[a].status, entry'[a].status>> \in
             {<<s, s>> : s \in Statuses} \cup {<<"APPROVED", "CHECKED_IN">>, <<"CHECKED_IN", "CHECKED_OUT">>}
Stands == \A a \in Attempts : EntryMoves(a)
GateSafe == GateInv' /\ Stands

-----------------------------------------------------------------------------
LEMMA EntriesFinite == \A p : IsFiniteSet(EntriesBy(p))
  BY GateAssumption, FS_Subset DEF EntriesBy

\* Entries keep the pass they came by and passes their uses: the counts stay right.
LEMMA CountsKept ==
    ASSUME UsesMatchEntries, \A a \in Attempts : entry'[a].via = entry[a].via,
           \A p \in Passes : /\ pass'[p].used = pass[p].used
                             /\ pass[p].used <= pass[p].max => pass'[p].used <= pass'[p].max
    PROVE  UsesMatchEntries'
  <1>1. \A p \in Passes : EntriesBy(p)' = EntriesBy(p)
    BY DEF EntriesBy
  <1> QED
    BY <1>1 DEF UsesMatchEntries

\* A use and the entry it admits, counted together.
LEMMA CountedTogether ==
    ASSUME GateInv, NEW a \in Attempts, NEW p \in Passes, Admits(p), pass' = Spend(p),
           entry[a].status = "none", NEW row \in EntryRow, row.via = p,
           entry' = [entry EXCEPT ![a] = row]
    PROVE  UsesMatchEntries' /\ Ungiven' /\ pass' \in [Passes -> PassRow]
  <1>1. entry[a].via = "nothing" /\ p # "nothing"
    BY GateAssumption DEF GateInv, Unmade
  <1>2. entry'[a].via = p /\ \A x \in Attempts : x # a => entry'[x].via = entry[x].via
    BY DEF GateInv, GateTypeOK
  <1>3. EntriesBy(p)' = EntriesBy(p) \cup {a} /\ a \notin EntriesBy(p)
    BY <1>1, <1>2 DEF EntriesBy
  <1>4. \A q \in Passes : q # p => EntriesBy(q)' = EntriesBy(q)
    <2> SUFFICES ASSUME NEW q \in Passes, q # p PROVE EntriesBy(q)' = EntriesBy(q)
      OBVIOUS
    <2>1. entry[a].via # q /\ entry'[a].via # q
      BY <1>1, <1>2, GateAssumption
    <2> QED
      BY <1>2, <2>1 DEF EntriesBy
  <1>5. Cardinality(EntriesBy(p)') = Cardinality(EntriesBy(p)) + 1
    BY <1>3, EntriesFinite, FS_AddElement
  <1>6. pass \in [Passes -> PassRow] /\ pass[p].used < pass[p].max
        /\ pass[p].used \in Nat /\ pass[p].max \in Nat /\ pass[p].status = "ACTIVE"
    BY DEF GateInv, GateTypeOK, PassRow, Admits
  <1>7. [pass[p] EXCEPT !.used = @ + 1] \in PassRow
        /\ [pass[p] EXCEPT !.used = @ + 1].used = pass[p].used + 1
        /\ [pass[p] EXCEPT !.used = @ + 1].max = pass[p].max
        /\ [pass[p] EXCEPT !.used = @ + 1].status = "ACTIVE"
    BY <1>6 DEF PassRow
  <1>8. pass' = [pass EXCEPT ![p] = [pass[p] EXCEPT !.used = @ + 1]]
    BY DEF Spend
  <1>9. /\ pass' \in [Passes -> PassRow]
        /\ \A q \in Passes : q # p => pass'[q] = pass[q]
        /\ pass'[p].used = pass[p].used + 1 /\ pass'[p].max = pass[p].max
        /\ pass'[p].status = "ACTIVE"
    BY <1>6, <1>7, <1>8
  <1>10. \A q \in Passes : /\ pass'[q].used = Cardinality(EntriesBy(q)')
                           /\ pass'[q].used <= pass'[q].max
    <2> SUFFICES ASSUME NEW q \in Passes
                 PROVE  /\ pass'[q].used = Cardinality(EntriesBy(q)')
                        /\ pass'[q].used <= pass'[q].max
      OBVIOUS
    <2>1. pass[q].used = Cardinality(EntriesBy(q)) /\ pass[q].used <= pass[q].max
      BY DEF GateInv, UsesMatchEntries
    <2>2. CASE q = p
      <3>1. EntriesBy(q)' = EntriesBy(p)'
        BY <2>2
      <3>2. Cardinality(EntriesBy(q)') = pass[p].used + 1
        BY <1>5, <2>1, <2>2, <3>1
      <3>3. \A u, max \in Nat : u < max => u + 1 <= max
        OBVIOUS
      <3>4. pass[p].used + 1 <= pass[p].max
        BY <1>6, <3>3
      <3>5. pass'[q].used = pass[p].used + 1 /\ pass'[q].max = pass[p].max
        BY <1>9, <2>2
      <3> QED
        BY <3>2, <3>4, <3>5
    <2>3. CASE q # p
      BY <1>4, <1>9, <2>1, <2>3
    <2> QED
      BY <2>2, <2>3
  <1>11. UsesMatchEntries'
    BY <1>10 DEF UsesMatchEntries
  <1>12. \A q \in Passes : pass'[q].status = "none" => pass'[q].max = 0
    <2> SUFFICES ASSUME NEW q \in Passes, pass'[q].status = "none" PROVE pass'[q].max = 0
      OBVIOUS
    <2>1. q # p /\ pass'[q] = pass[q]
      BY <1>9
    <2> QED
      BY <2>1 DEF GateInv, Ungiven
  <1> QED
    BY <1>9, <1>11, <1>12 DEF Ungiven

\* An entry that nobody has answered yet, or that only moves on, is written.
LEMMA EntryWritten ==
    ASSUME GateInv, NEW a \in Attempts, NEW row \in EntryRow, entry' = [entry EXCEPT ![a] = row],
           row.status # "none",
           \/ entry[a].status \in Open \cup {"none"}
           \/ /\ row.by = entry[a].by
              /\ \/ row.status = entry[a].status
                 \/ entry[a].status = "APPROVED" /\ row.status = "CHECKED_IN"
                 \/ entry[a].status = "CHECKED_IN" /\ row.status = "CHECKED_OUT"
    PROVE  /\ entry' \in [Attempts -> EntryRow] /\ Unmade' /\ Stands
           /\ entry'[a] = row /\ \A x \in Attempts : x # a => entry'[x] = entry[x]
  <1>1. entry \in [Attempts -> EntryRow] /\ \A x \in Attempts : entry[x].status \in Statuses
    BY DEF GateInv, GateTypeOK, EntryRow
  <1>2. /\ entry' \in [Attempts -> EntryRow]
        /\ entry'[a] = row /\ \A x \in Attempts : x # a => entry'[x] = entry[x]
    BY <1>1
  <1>3. Unmade'
    BY <1>2 DEF GateInv, Unmade
  <1>4. Stands
    BY <1>1, <1>2 DEF Stands, EntryMoves
  <1> QED
    BY <1>2, <1>3, <1>4

\* The same, of an entry that keeps the pass it came by while the passes stay.
LEMMA Answered ==
    ASSUME GateInv, NEW a \in Attempts, NEW row \in EntryRow, entry' = [entry EXCEPT ![a] = row],
           row.status # "none", row.via = entry[a].via, UNCHANGED <<pass, guard>>,
           late' \in [Answers -> Attempts \cup {"none"}],
           \/ entry[a].status \in Open
           \/ /\ row.by = entry[a].by
              /\ \/ row.status = entry[a].status
                 \/ entry[a].status = "APPROVED" /\ row.status = "CHECKED_IN"
                 \/ entry[a].status = "CHECKED_IN" /\ row.status = "CHECKED_OUT"
    PROVE  GateSafe
  <1>1. /\ entry' \in [Attempts -> EntryRow] /\ Unmade' /\ Stands
        /\ entry'[a] = row /\ \A x \in Attempts : x # a => entry'[x] = entry[x]
    BY EntryWritten
  <1>2. UsesMatchEntries'
    BY <1>1, CountsKept DEF GateInv
  <1> QED
    BY <1>1, <1>2 DEF GateSafe, GateInv, GateTypeOK, GuardsFit, GuardFits, Ungiven

\* Steps that leave the entries alone.
LEMMA EntriesLeft ==
    ASSUME GateInv, UNCHANGED entry, pass' \in [Passes -> PassRow], late' \in [Answers -> Attempts \cup {"none"}],
           guard' \in [GuardCalls -> [pc : {"idle", "write"}, attempt : Attempts \cup {"none"},
                                      what : Kinds \cup {"none"}]],
           GuardsFit', Ungiven',
           \A p \in Passes : /\ pass'[p].used = pass[p].used
                             /\ pass[p].used <= pass[p].max => pass'[p].used <= pass'[p].max
    PROVE  GateSafe
  <1>1. UsesMatchEntries' /\ Unmade'
    BY CountsKept DEF GateInv, Unmade
  <1>2. Stands
    BY DEF GateInv, GateTypeOK, EntryRow, Stands, EntryMoves
  <1> QED
    BY <1>1, <1>2 DEF GateSafe, GateInv, GateTypeOK

LEMMA PassTyped == ASSUME GateInv, NEW p \in Passes PROVE pass[p] \in PassRow /\ pass \in [Passes -> PassRow]
  BY DEF GateInv, GateTypeOK
LEMMA EntryTyped == ASSUME GateInv, NEW a \in Attempts PROVE entry[a] \in EntryRow /\ entry \in [Attempts -> EntryRow]
  BY DEF GateInv, GateTypeOK

\* A guard's request is over.
LEMMA BackAtPost ==
    ASSUME GateInv, NEW g \in GuardCalls, guard' = [guard EXCEPT ![g] = AtPost]
    PROVE  /\ guard' \in [GuardCalls -> [pc : {"idle", "write"}, attempt : Attempts \cup {"none"},
                                         what : Kinds \cup {"none"}]]
           /\ GuardsFit'
  BY DEF GateInv, GateTypeOK, GuardsFit, GuardFits, Ungiven, AtPost

-----------------------------------------------------------------------------
LEMMA CreateSafe == ASSUME GateInv, NEW p \in Passes, Create(p) PROVE GateSafe
  <1>1. PICK max \in 1..MaxUses : pass' = [pass EXCEPT ![p].status = "ACTIVE", ![p].max = max]
    BY DEF Create
  <1>2. max \in Nat /\ pass[p] \in PassRow /\ pass \in [Passes -> PassRow]
    BY PassTyped, GateAssumption
  <1> DEFINE mid == [pass[p] EXCEPT !.status = "ACTIVE"]
             row == [mid EXCEPT !.max = max]
  <1>3. pass' = [pass EXCEPT ![p] = row]
    BY <1>1
  <1>4. mid \in PassRow /\ mid.used = pass[p].used /\ mid.status = "ACTIVE"
    BY <1>2 DEF PassRow
  <1> HIDE DEF mid
  <1>5. row \in PassRow /\ row.used = mid.used /\ row.max = max /\ row.status = mid.status
    BY <1>2, <1>4 DEF PassRow
  <1> HIDE DEF row
  <1>6. pass[p].used <= pass[p].max => row.used <= row.max
    <2>1. pass[p].max = 0 /\ pass[p].used \in Nat
      BY <1>2 DEF Create, GateInv, Ungiven, PassRow
    <2> QED
      BY <1>2, <1>4, <1>5, <2>1
  <1>7. /\ pass' \in [Passes -> PassRow] /\ pass'[p] = row /\ Ungiven'
        /\ \A q \in Passes : q # p => pass'[q] = pass[q]
    BY <1>2, <1>3, <1>4, <1>5 DEF GateInv, Ungiven
  <1>8. UNCHANGED <<entry, guard, late>>
    BY DEF Create
  <1> QED
    BY <1>4, <1>5, <1>6, <1>7, <1>8, EntriesLeft DEF GateInv, GateTypeOK, GuardsFit, GuardFits, Ungiven

\* Withdrawing a pass and its window's end write one field that counts nothing.
LEMMA PassEdited ==
    ASSUME GateInv, NEW p \in Passes, NEW row \in PassRow, pass' = [pass EXCEPT ![p] = row],
           row.used = pass[p].used, row.max = pass[p].max, UNCHANGED <<entry, guard, late>>,
           row.status = "none" => pass[p].status = "none"
    PROVE  GateSafe
  <1>1. /\ pass' \in [Passes -> PassRow] /\ pass'[p] = row /\ Ungiven'
        /\ \A q \in Passes : q # p => pass'[q] = pass[q]
    BY PassTyped DEF GateInv, Ungiven
  <1> QED
    BY <1>1, EntriesLeft DEF GateInv, GateTypeOK, GuardsFit, GuardFits, Ungiven

LEMMA WithdrawSafe == ASSUME GateInv, NEW p \in Passes, Withdraw(p) PROVE GateSafe
  <1> DEFINE row == [pass[p] EXCEPT !.status = "WITHDRAWN"]
  <1>1. row \in PassRow /\ row.used = pass[p].used /\ row.max = pass[p].max
        /\ row.status = "WITHDRAWN"
    BY PassTyped DEF PassRow
  <1>2. pass' = [pass EXCEPT ![p] = row] /\ UNCHANGED <<entry, guard, late>>
    BY DEF Withdraw
  <1> QED
    BY <1>1, <1>2, PassEdited

LEMMA LookUpSafe ==
    ASSUME GateInv, NEW g \in GuardCalls, NEW a \in Attempts, NEW w \in Kinds, LookUp(g, a, w)
    PROVE  GateSafe
  <1>1. /\ guard' \in [GuardCalls -> [pc : {"idle", "write"}, attempt : Attempts \cup {"none"},
                                       what : Kinds \cup {"none"}]]
        /\ GuardsFit'
    BY DEF LookUp, GateInv, GateTypeOK, GuardsFit, GuardFits
  <1> QED
    BY <1>1, EntriesLeft DEF LookUp, GateInv, GateTypeOK, Ungiven

LEMMA GiveUpWriteSafe == ASSUME GateInv, NEW g \in GuardCalls, GiveUpWrite(g) PROVE GateSafe
  BY BackAtPost, EntriesLeft DEF GiveUpWrite, GateInv, GateTypeOK, Ungiven

\* The entry of a guard's request is written while the passes stay.
LEMMA EntryMade ==
    ASSUME GateInv, NEW g \in GuardCalls, guard[g].pc = "write", NEW row \in EntryRow,
           entry[guard[g].attempt].status = "none", Write(g, row),
           row.status # "none", row.via = "nothing", UNCHANGED pass
    PROVE  GateSafe
  <1> DEFINE a == guard[g].attempt
  <1>1. a \in Attempts /\ entry[a].via = "nothing" /\ entry' = [entry EXCEPT ![a] = row]
    BY DEF GateInv, GuardsFit, GuardFits, Unmade, Write
  <1>2. guard' = [guard EXCEPT ![g] = AtPost] /\ UNCHANGED late /\ entry[a].status = "none"
    BY DEF Write
  <1> HIDE DEF a
  <1>3. /\ entry' \in [Attempts -> EntryRow] /\ Unmade' /\ Stands
        /\ entry'[a] = row /\ \A x \in Attempts : x # a => entry'[x] = entry[x]
    BY <1>1, <1>2, EntryWritten
  <1>4. UsesMatchEntries'
    BY <1>1, <1>3, CountsKept DEF GateInv
  <1> QED
    BY <1>2, <1>3, <1>4, BackAtPost DEF GateSafe, GateInv, GateTypeOK, Ungiven

\* The same, with a use of the pass that admits it.
LEMMA EntryAdmitted ==
    ASSUME GateInv, NEW g \in GuardCalls, guard[g].pc = "write", NEW row \in EntryRow,
           entry[guard[g].attempt].status = "none", Write(g, row), NEW p \in Passes,
           row.status # "none", row.via = p, Admits(p), pass' = Spend(p)
    PROVE  GateSafe
  <1> DEFINE a == guard[g].attempt
  <1>1. a \in Attempts /\ entry' = [entry EXCEPT ![a] = row]
    BY DEF GateInv, GuardsFit, GuardFits, Write
  <1>2. guard' = [guard EXCEPT ![g] = AtPost] /\ UNCHANGED late /\ entry[a].status = "none"
    BY DEF Write
  <1> HIDE DEF a
  <1>3. entry' \in [Attempts -> EntryRow] /\ Unmade' /\ Stands
    BY <1>1, <1>2, EntryWritten
  <1>4. UsesMatchEntries' /\ Ungiven' /\ pass' \in [Passes -> PassRow]
    BY <1>1, <1>2, CountedTogether
  <1> QED
    BY <1>2, <1>3, <1>4, BackAtPost DEF GateSafe, GateInv, GateTypeOK, Ungiven

LEMMA MadeTyped ==
    /\ \A p \in Passes : /\ Made("APPROVED", "expectation", p) \in EntryRow
                         /\ Made("CHECKED_IN", "invitation", p) \in EntryRow
    /\ Made("APPROVED", "policy", "nothing") \in EntryRow
    /\ Made("PENDING_APPROVAL", "nobody", "nothing") \in EntryRow
    /\ \A s, by, via : Made(s, by, via).status = s /\ Made(s, by, via).via = via
  BY DEF Made, EntryRow, Statuses

LEMMA RegisterWalkInSafe == ASSUME GateInv, NEW g \in GuardCalls, RegisterWalkIn(g) PROVE GateSafe
  <1>1. guard[g].pc = "write" /\ entry[guard[g].attempt].status = "none"
    BY DEF RegisterWalkIn
  <1>2. CASE UNCHANGED pass /\ Write(g, Made("APPROVED", "policy", "nothing"))
    BY <1>1, <1>2, MadeTyped, EntryMade
  <1>3. CASE UNCHANGED pass /\ Write(g, Made("PENDING_APPROVAL", "nobody", "nothing"))
    BY <1>1, <1>3, MadeTyped, EntryMade
  <1>4. ASSUME NEW p \in Passes, Admits(p), pass' = Spend(p), Write(g, Made("APPROVED", "expectation", p))
        PROVE  GateSafe
    BY <1>1, <1>4, MadeTyped, EntryAdmitted
  <1> QED
    BY <1>2, <1>3, <1>4 DEF RegisterWalkIn

LEMMA ScanCodeSafe == ASSUME GateInv, NEW g \in GuardCalls, ScanCode(g) PROVE GateSafe
  <1> DEFINE p == guard[g].what
  <1>1. guard[g].pc = "write" /\ entry[guard[g].attempt].status = "none" /\ p \in Passes
    BY GateAssumption DEF ScanCode
  <1>2. CASE Admits(p)
    <2>1. pass' = Spend(p) /\ Write(g, Made("CHECKED_IN", "invitation", p))
      BY <1>2 DEF ScanCode
    <2> HIDE DEF p
    <2> QED
      BY <1>1, <1>2, <2>1, MadeTyped, EntryAdmitted
  <1>3. CASE ~Admits(p)
    BY <1>3, BackAtPost, EntriesLeft DEF ScanCode, GateInv, GateTypeOK, Ungiven
  <1> QED
    BY <1>2, <1>3

-----------------------------------------------------------------------------
\* Both answers write a status and who gave it.
LEMMA Judged ==
    ASSUME GateInv, NEW a \in Attempts, entry[a].status \in Open, NEW answer \in {"APPROVED", "REJECTED"},
           NEW who \in {"resident", "committee"}, UNCHANGED <<pass, guard, late>>,
           entry' = [entry EXCEPT ![a].status = answer, ![a].by = who]
    PROVE  GateSafe
  <1> DEFINE mid == [entry[a] EXCEPT !.status = answer]
             row == [mid EXCEPT !.by = who]
  <1>1. entry' = [entry EXCEPT ![a] = row]
    OBVIOUS
  <1>2. mid \in EntryRow /\ mid.status = answer /\ mid.via = entry[a].via
    BY EntryTyped DEF EntryRow, Statuses
  <1> HIDE DEF mid
  <1>3. row \in EntryRow /\ row.status = mid.status /\ row.via = mid.via
    BY <1>2 DEF EntryRow
  <1>4. late' \in [Answers -> Attempts \cup {"none"}]
    BY DEF GateInv, GateTypeOK
  <1> HIDE DEF row
  <1>5. row \in EntryRow /\ row.status # "none" /\ row.via = entry[a].via
    BY <1>2, <1>3
  <1>6. UNCHANGED <<pass, guard>>
    OBVIOUS
  <1>7. /\ entry' = [entry EXCEPT ![a] = row]
        /\ late' \in [Answers -> Attempts \cup {"none"}]
        /\ row.status # "none" /\ row.via = entry[a].via /\ entry[a].status \in Open
        /\ UNCHANGED <<pass, guard>>
    BY <1>1, <1>4, <1>5, <1>6
  <1> QED
    BY <1>5, <1>7, Answered

LEMMA DecideSafe ==
    ASSUME GateInv, NEW a \in Attempts, NEW answer \in {"APPROVED", "REJECTED"},
           Decide(a, answer) \/ Override(a, answer)
    PROVE  GateSafe
  BY Judged DEF Decide, Override, Open

LEMMA DecideLateSafe == ASSUME GateInv, NEW r \in Answers, NEW a \in Attempts, DecideLate(r, a) PROVE GateSafe
  BY EntriesLeft DEF DecideLate, GateInv, GateTypeOK, GuardsFit, GuardFits, Ungiven

\* An entry that only gets another status.
LEMMA Restated ==
    ASSUME GateInv, NEW a \in Attempts, NEW s \in Statuses \ {"none"},
           entry' = [entry EXCEPT ![a].status = s], UNCHANGED <<pass, guard>>,
           late' \in [Answers -> Attempts \cup {"none"}],
           \/ entry[a].status \in Open
           \/ entry[a].status = "APPROVED" /\ s = "CHECKED_IN"
           \/ entry[a].status = "CHECKED_IN" /\ s = "CHECKED_OUT"
    PROVE  GateSafe
  <1> DEFINE row == [entry[a] EXCEPT !.status = s]
  <1>1. row \in EntryRow /\ row.status = s /\ row.via = entry[a].via /\ row.by = entry[a].by
    BY EntryTyped DEF EntryRow
  <1>2. entry' = [entry EXCEPT ![a] = row]
    OBVIOUS
  <1> HIDE DEF row
  <1> QED
    BY <1>1, <1>2, Answered

LEMMA CheckSafe == ASSUME GateInv, NEW a \in Attempts, CheckIn(a) \/ CheckOut(a) PROVE GateSafe
  <1>1. late' \in [Answers -> Attempts \cup {"none"}] /\ UNCHANGED <<pass, guard>>
    BY DEF CheckIn, CheckOut, GateInv, GateTypeOK
  <1>2. CASE CheckIn(a)
    BY <1>1, <1>2, Restated DEF CheckIn, Statuses
  <1>3. CASE CheckOut(a)
    BY <1>1, <1>3, Restated DEF CheckOut, Statuses
  <1> QED
    BY <1>2, <1>3

LEMMA ExpireLateSafe == ASSUME GateInv, NEW r \in Answers, ExpireLate(r) PROVE GateSafe
  <1> DEFINE a == late[r]
  <1>1. a \in Attempts /\ late' \in [Answers -> Attempts \cup {"none"}] /\ UNCHANGED <<pass, guard>>
    BY DEF ExpireLate, GateInv, GateTypeOK
  <1>2. CASE entry[a].status = "PENDING_APPROVAL"
    <2>1. entry' = [entry EXCEPT ![a].status = "EXPIRED"]
      BY <1>2 DEF ExpireLate
    <2> HIDE DEF a
    <2> QED
      BY <1>1, <1>2, <2>1, Restated DEF Statuses, Open
  <1>3. CASE entry[a].status # "PENDING_APPROVAL"
    <2>1. entry[a] \in EntryRow /\ entry \in [Attempts -> EntryRow]
      BY <1>1, EntryTyped
    <2>2. entry' = [entry EXCEPT ![a] = [entry[a] EXCEPT !.status = entry[a].status]]
      BY <1>3 DEF ExpireLate
    <2> HIDE DEF a
    <2>3. [entry[a] EXCEPT !.status = entry[a].status] = entry[a]
      BY <2>1 DEF EntryRow
    <2>4. UNCHANGED entry
      BY <2>1, <2>2, <2>3
    <2> QED
      BY <1>1, <2>4, EntriesLeft DEF GateInv, GateTypeOK, GuardsFit, GuardFits, Ungiven
  <1> QED
    BY <1>2, <1>3

LEMMA ExpireStaleSafe == ASSUME GateInv, ExpireStale PROVE GateSafe
  <1>1. entry' = [a \in Attempts |-> IF a \in Stale THEN [entry[a] EXCEPT !.status = "EXPIRED"] ELSE entry[a]]
    BY DEF ExpireStale
  <1>2. ASSUME NEW a \in Attempts
        PROVE  /\ entry'[a] \in EntryRow /\ entry'[a].via = entry[a].via
               /\ entry'[a] = entry[a]
                  \/ (entry[a].status = "PENDING_APPROVAL" /\ entry'[a].status = "EXPIRED")
    <2>1. entry[a] \in EntryRow
      BY EntryTyped
    <2>2. CASE a \in Stale
      BY <1>1, <2>1, <2>2 DEF EntryRow, Statuses, Stale
    <2>3. CASE a \notin Stale
      BY <1>1, <2>1, <2>3
    <2> QED
      BY <2>2, <2>3
  <1>3. entry' \in [Attempts -> EntryRow] /\ Unmade'
    BY <1>1, <1>2 DEF GateInv, Unmade
  <1>4. UNCHANGED <<pass, guard, late>>
    BY DEF ExpireStale
  <1>5. UsesMatchEntries'
    BY <1>2, <1>4, CountsKept DEF GateInv
  <1>6. ASSUME NEW a \in Attempts PROVE EntryMoves(a)
    BY <1>2, EntryTyped DEF EntryMoves, Open, EntryRow
  <1> QED
    BY <1>3, <1>4, <1>5, <1>6 DEF GateSafe, Stands, GateInv, GateTypeOK, GuardsFit, GuardFits, Ungiven

LEMMA GateTimeSafe == ASSUME GateInv, GateTime PROVE GateSafe
  <1>1. ASSUME NEW a \in Attempts, entry[a].status = "PENDING_APPROVAL",
               entry' = [entry EXCEPT ![a].fresh = FALSE], UNCHANGED <<pass, guard, late>>
        PROVE  GateSafe
    <2> DEFINE row == [entry[a] EXCEPT !.fresh = FALSE]
    <2>1. row \in EntryRow /\ row.status = entry[a].status /\ row.via = entry[a].via /\ row.by = entry[a].by
      BY EntryTyped DEF EntryRow
    <2>2. entry' = [entry EXCEPT ![a] = row] /\ late' \in [Answers -> Attempts \cup {"none"}]
      BY <1>1 DEF GateInv, GateTypeOK
    <2> HIDE DEF row
    <2> QED
      BY <1>1, <2>1, <2>2, Answered
  <1>2. ASSUME NEW p \in Passes, pass' = [pass EXCEPT ![p].valid = FALSE], UNCHANGED <<entry, guard, late>>
        PROVE  GateSafe
    <2> DEFINE row == [pass[p] EXCEPT !.valid = FALSE]
    <2>1. row \in PassRow /\ row.used = pass[p].used /\ row.max = pass[p].max
          /\ row.status = pass[p].status
      BY PassTyped DEF PassRow
    <2> QED
      BY <1>2, <2>1, PassEdited
  <1> QED
    BY <1>1, <1>2 DEF GateTime

-----------------------------------------------------------------------------
LEMMA GateStarts == GateInit => GateInv
  <1> SUFFICES ASSUME GateInit PROVE GateInv
    OBVIOUS
  <1>1. GateTypeOK
    BY DEF GateInit, GateTypeOK, PassRow, EntryRow, Statuses, NoEntry, Made, AtPost
  <1>2. GuardsFit /\ Unmade /\ Ungiven
    BY DEF GateInit, GuardsFit, GuardFits, Unmade, Ungiven, AtPost, NoEntry, Made
  <1>3. \A p \in Passes : EntriesBy(p) = {}
    BY GateAssumption DEF GateInit, EntriesBy, NoEntry, Made
  <1>4. UsesMatchEntries
    BY <1>3, FS_EmptySet DEF GateInit, UsesMatchEntries
  <1> QED
    BY <1>1, <1>2, <1>4 DEF GateInv

LEMMA GateStepSafe == GateInv /\ [GateNext]_gateVars => GateSafe
  <1> SUFFICES ASSUME GateInv, [GateNext]_gateVars PROVE GateSafe
    OBVIOUS
  <1>1. CASE UNCHANGED gateVars
    BY <1>1, EntriesLeft DEF gateVars, GateInv, GateTypeOK, GuardsFit, GuardFits, Ungiven
  <1>2. ASSUME NEW p \in Passes, Create(p) \/ Withdraw(p) PROVE GateSafe
    BY <1>2, CreateSafe, WithdrawSafe
  <1>3. ASSUME NEW g \in GuardCalls,
               \/ \E a \in Attempts, w \in Kinds : LookUp(g, a, w)
               \/ GiveUpWrite(g) \/ RegisterWalkIn(g) \/ ScanCode(g)
        PROVE  GateSafe
    BY <1>3, LookUpSafe, GiveUpWriteSafe, RegisterWalkInSafe, ScanCodeSafe
  <1>4. ASSUME NEW a \in Attempts, NEW answer \in {"APPROVED", "REJECTED"},
               Decide(a, answer) \/ Override(a, answer)
        PROVE  GateSafe
    BY <1>4, DecideSafe
  <1>5. ASSUME NEW r \in Answers, ExpireLate(r) \/ \E a \in Attempts : DecideLate(r, a) PROVE GateSafe
    BY <1>5, ExpireLateSafe, DecideLateSafe
  <1>6. ASSUME NEW a \in Attempts, CheckIn(a) \/ CheckOut(a) PROVE GateSafe
    BY <1>6, CheckSafe
  <1>7. CASE ExpireStale \/ GateTime
    BY <1>7, ExpireStaleSafe, GateTimeSafe
  <1> QED
    BY <1>1, <1>2, <1>3, <1>4, <1>5, <1>6, <1>7 DEF GateNext

\* The gate's variables keep their types: passes, entries, guards' requests and late answers.
THEOREM GateTypeCorrect == GateSpec => []GateTypeOK
  <1>1. GateInv /\ [GateNext]_gateVars => GateInv'
    BY GateStepSafe DEF GateSafe
  <1>2. GateInv => GateTypeOK
    BY DEF GateInv
  <1> QED
    BY <1>1, <1>2, GateStarts, PTL DEF GateSpec

\* A pass admits exactly the entries it counted and no more than it was given, for any number
\* of guards who scan, register and repeat at once (consumeAllowEntry, scanCode).
THEOREM UsesCounted == GateSpec => []UsesMatchEntries
  <1>1. GateInv /\ [GateNext]_gateVars => GateInv'
    BY GateStepSafe DEF GateSafe
  <1>2. GateInv => UsesMatchEntries
    BY DEF GateInv
  <1> QED
    BY <1>1, <1>2, GateStarts, PTL DEF GateSpec

\* What was decided at the gate stays decided (decide, override, expireStale).
THEOREM AnswersStand == GateSpec => DecisionStands
  <1>1. GateInv /\ [GateNext]_gateVars => GateInv'
    BY GateStepSafe DEF GateSafe
  <1>2. GateInv /\ [GateNext]_gateVars =>
          [\A a \in Attempts : entry[a].status \notin Open \cup {"none"} =>
              /\ entry'[a].by = entry[a].by
              /\ <<entry[a].status, entry'[a].status>> \in
                    {<<s, s>> : s \in Statuses} \cup {<<"APPROVED", "CHECKED_IN">>, <<"CHECKED_IN", "CHECKED_OUT">>}
          ]_entry
    BY GateStepSafe DEF GateSafe, Stands, EntryMoves
  <1> QED
    BY <1>1, <1>2, GateStarts, PTL DEF GateSpec, DecisionStands

-----------------------------------------------------------------------------
(* The books.                                                              *)

\* What a request read is of the kind its operation works on.
RequestFits(q) ==
    /\ q.op \in {"remove", "unrecord"} => q.id \in Expenses
    /\ q.op \in {"make", "redo", "pay"} => q.id \in Salaries /\ q.purse \in Accounts \cup {"none"}
    /\ q.op = "record" => q.purse \in Funds
    /\ q.op = "spend" => q.id \in Expenses /\ q.purse \in Funds \cup {"none"}
RequestsFit == \A c \in Calls : RequestFits(request[c])

\* An expense nobody made out yet has no rows.
NoRowsYet == \A x \in Expenses : expense[x].status = "none" => rows[x] = 0

BooksInv == BooksTypeOK /\ RequestsFit /\ NoRowsYet /\ PaidMatchesRows /\ SalaryPaidOnce

-----------------------------------------------------------------------------
(* The parts of the invariant, by the variables they speak of.             *)
OfExpenses == /\ balance \in [Purses -> Int] /\ rows \in [Expenses -> Int]
              /\ expense \in [Expenses -> ExpenseRow]
              /\ NoRowsYet /\ PaidMatchesRows
OfSalaries == salary \in [Salaries -> SalaryRow] /\ SalaryPaidOnce
OfRequests == request \in [Calls -> Request] /\ RequestsFit
OfEvents == /\ event \in [cost : Amounts, fund : Funds]
            /\ lastDebit \in [amount : Amounts \cup {0}, fund : Funds \cup {"none"}]
OfMoves == moves \in 0..MaxMoves

LEMMA BooksParts == BooksInv <=> OfExpenses /\ OfSalaries /\ OfRequests /\ OfEvents /\ OfMoves
  BY DEF BooksInv, BooksTypeOK, OfExpenses, OfSalaries, OfRequests, OfEvents, OfMoves

LEMMA AmountsAreNumbers == Amounts \subseteq Nat /\ MaxMoves \in Nat
  BY BooksAssumption

LEMMA AmountIsNumber == \A n \in Amounts \cup {0} : n \in Int
  BY AmountsAreNumbers

LEMMA ShiftedTyped ==
    ASSUME NEW D, NEW f \in [D -> Int], NEW S, NEW d \in Int
    PROVE  /\ Shifted(f, S, d) \in [D -> Int]
           /\ \A k \in D : Shifted(f, S, d)[k] = IF k \in S THEN f[k] + d ELSE f[k]
  BY DEF Shifted

\* Moving money keeps balances and rows numbers, and shifts the linked expenses only.
LEMMA MoveTyped ==
    ASSUME OfExpenses, NEW S, NEW d \in Int, NEW links, Move(S, d, links)
    PROVE  /\ balance' \in [Purses -> Int] /\ rows' \in [Expenses -> Int]
           /\ \A x \in Expenses : rows'[x] = IF x \in links THEN rows[x] + d ELSE rows[x]
  BY ShiftedTyped DEF OfExpenses, Move

\* Money that moves without naming an expense leaves the rows as they are.
LEMMA MoveUnnamed ==
    ASSUME OfExpenses, NEW S, NEW d \in Int, Move(S, d, {})
    PROVE  balance' \in [Purses -> Int] /\ rows' = rows
  <1>1. /\ balance' \in [Purses -> Int] /\ rows' \in [Expenses -> Int]
        /\ \A x \in Expenses : rows'[x] = rows[x]
    BY MoveTyped
  <1> QED
    BY <1>1 DEF OfExpenses

\* A request that ends leaves the others as they were.
LEMMA DoneSafe == ASSUME OfRequests, NEW c \in Calls, Done(c) PROVE OfRequests'
  <1>1. NoRequest \in Request /\ RequestFits(NoRequest)
    BY DEF NoRequest, Request, RequestFits
  <1> QED
    BY <1>1 DEF OfRequests, RequestsFit, Done

LEMMA AskSafe ==
    ASSUME OfRequests, NEW c \in Calls, NEW q \in Request, RequestFits(q), Ask(c, q)
    PROVE  OfRequests'
  BY DEF OfRequests, RequestsFit, Ask

\* One expense changes, to a row whose payment the ledger bears out.
LEMMA ExpenseWritten ==
    ASSUME OfExpenses, NEW x \in Expenses, NEW row \in ExpenseRow,
           balance' \in [Purses -> Int], rows' \in [Expenses -> Int],
           expense' = [expense EXCEPT ![x] = row],
           \A y \in Expenses : y # x => rows'[y] = rows[y],
           row.status = "none" => rows'[x] = 0,
           row.status \notin {"none", "deleted"} =>
               rows'[x] = IF row.status = "PAID" THEN -row.amount ELSE 0
    PROVE  OfExpenses'
  <1>1. expense' \in [Expenses -> ExpenseRow] /\ expense'[x] = row
        /\ \A y \in Expenses : y # x => expense'[y] = expense[y]
    BY DEF OfExpenses
  <1>2. NoRowsYet'
    BY <1>1 DEF OfExpenses, NoRowsYet
  <1>3. PaidMatchesRows'
    BY <1>1 DEF OfExpenses, PaidMatchesRows, Exists
  <1> QED
    BY <1>1, <1>2, <1>3 DEF OfExpenses

\* Money moves and no expense is named.
LEMMA UnnamedMove ==
    ASSUME OfExpenses, UNCHANGED expense, NEW S, NEW d \in Int, Move(S, d, {})
    PROVE  OfExpenses'
  BY MoveTyped DEF OfExpenses, NoRowsYet, PaidMatchesRows, Exists

LEMMA OneExpense ==
    ASSUME OfExpenses, NEW x \in Expenses
    PROVE  /\ expense[x] \in ExpenseRow /\ expense[x].amount \in Int
           /\ expense[x].status = "none" => rows[x] = 0
           /\ expense[x].status \in {"PENDING", "APPROVED", "REJECTED"} => rows[x] = 0
           /\ expense[x].status = "PAID" => rows[x] = -expense[x].amount
  <1>1. expense[x] \in ExpenseRow /\ expense[x].amount \in Amounts \cup {0}
    BY DEF OfExpenses, ExpenseRow
  <1>2. expense[x].amount \in Int
    BY <1>1, AmountIsNumber
  <1> QED
    BY <1>1, <1>2 DEF OfExpenses, NoRowsYet, PaidMatchesRows, Exists

\* A row of an expense with some of its fields written is such a row.
LEMMA RowEdited ==
    ASSUME NEW row \in ExpenseRow, NEW n \in Amounts, NEW a \in Accounts, NEW f \in Funds \cup {"none"}
    PROVE  /\ [row EXCEPT !.status = "APPROVED"] \in ExpenseRow
           /\ [row EXCEPT !.status = "REJECTED"] \in ExpenseRow
           /\ [row EXCEPT !.status = "deleted"] \in ExpenseRow
           /\ [row EXCEPT !.amount = n] \in ExpenseRow
           /\ [row EXCEPT !.status = "PAID", !.account = a, !.fund = f] \in ExpenseRow
           /\ [NoExpense EXCEPT !.status = "PENDING", !.amount = n, !.fund = f] \in ExpenseRow
  BY DEF ExpenseRow, NoExpense

-----------------------------------------------------------------------------
(* Every action of the expenses keeps the invariant.                       *)

LEMMA CreateExpenseSafe == ASSUME OfExpenses, NEW x \in Expenses, CreateExpense(x) PROVE OfExpenses'
  <1>1. PICK n \in Amounts, f \in Funds \cup {"none"} :
          expense' = [expense EXCEPT ![x] = [NoExpense EXCEPT !.status = "PENDING", !.amount = n, !.fund = f]]
    BY DEF CreateExpense
  <1> DEFINE row == [NoExpense EXCEPT !.status = "PENDING", !.amount = n, !.fund = f]
  <1>2. row \in ExpenseRow /\ row.status = "PENDING"
    BY DEF ExpenseRow, NoExpense
  <1>3. rows' = rows /\ balance' = balance /\ rows[x] = 0
    BY OneExpense DEF CreateExpense
  <1> HIDE DEF row
  <1> QED
    BY <1>1, <1>2, <1>3, ExpenseWritten DEF OfExpenses, row

LEMMA JudgeSafe ==
    ASSUME OfExpenses, NEW x \in Expenses, Judge(x, "APPROVED") \/ Judge(x, "REJECTED")
    PROVE  OfExpenses'
  <1>1. PICK row \in {[expense[x] EXCEPT !.status = "APPROVED"], [expense[x] EXCEPT !.status = "REJECTED"]} :
          expense' = [expense EXCEPT ![x] = row]
    BY DEF Judge
  <1>2. expense[x] \in ExpenseRow
    BY OneExpense
  <1>3. row \in ExpenseRow /\ row.status \in {"APPROVED", "REJECTED"}
    BY <1>2 DEF ExpenseRow
  <1>4. rows' = rows /\ balance' = balance /\ rows[x] = 0
    BY OneExpense DEF Judge
  <1> QED
    BY <1>1, <1>3, <1>4, ExpenseWritten DEF OfExpenses

LEMMA MarkPaidSafe == ASSUME OfExpenses, OfRequests, NEW c \in Calls, MarkPaid(c) PROVE OfExpenses'
  <1> DEFINE x == request[c].id
             f == request[c].purse
             n == expense[x].amount
  <1>1. x \in Expenses /\ f \in Funds \cup {"none"}
    BY DEF OfRequests, RequestsFit, RequestFits, MarkPaid, Spends
  <1>2. CASE UNCHANGED <<balance, rows, expense>>
    BY <1>2 DEF OfExpenses, NoRowsYet, PaidMatchesRows, Exists
  <1>3. ASSUME expense[x].status = "APPROVED", NEW a \in Accounts,
               Move({a} \cup Some(f), -n, {x}),
               expense' = [expense EXCEPT ![x].status = "PAID", ![x].account = a, ![x].fund = f]
        PROVE  OfExpenses'
    <2> HIDE DEF x, f
    <2> DEFINE row == [expense[x] EXCEPT !.status = "PAID", !.account = a, !.fund = f]
               S == {a} \cup Some(f)
               d == -n
    <2>1. expense[x] \in ExpenseRow /\ d \in Int /\ n \in Int /\ rows[x] = 0
      BY <1>1, <1>3, OneExpense
    <2>2. row \in ExpenseRow /\ row.status = "PAID" /\ row.amount = n
      BY <1>1, <1>3, <2>1 DEF ExpenseRow
    <2>3. expense' = [expense EXCEPT ![x] = row]
      BY <1>3
    <2>4. Move(S, d, {x})
      BY <1>3
    <2> HIDE DEF S, d
    <2>5. /\ balance' \in [Purses -> Int] /\ rows' \in [Expenses -> Int]
          /\ \A y \in Expenses : rows'[y] = IF y \in {x} THEN rows[y] + d ELSE rows[y]
      BY <2>1, <2>4, MoveTyped
    <2>6. rows'[x] = -row.amount /\ \A y \in Expenses : y # x => rows'[y] = rows[y]
      BY <1>1, <2>1, <2>2, <2>5 DEF d
    <2> HIDE DEF row
    <2> QED
      BY <1>1, <2>2, <2>3, <2>5, <2>6, ExpenseWritten
  <1> QED
    BY <1>2, <1>3 DEF MarkPaid, Spends

LEMMA CorrectSafe == ASSUME OfExpenses, NEW x \in Expenses, Correct(x) PROVE OfExpenses'
  <1> DEFINE f == expense[x].fund
  <1>1. PICK n \in Amounts :
          /\ expense' = [expense EXCEPT ![x].amount = n]
          /\ IF expense[x].status = "PAID"
             THEN Move({expense[x].account} \cup Some(f), -(n - expense[x].amount), {x})
             ELSE UNCHANGED <<balance, rows>>
    BY DEF Correct
  <1> DEFINE row == [expense[x] EXCEPT !.amount = n]
  <1>2. expense[x] \in ExpenseRow /\ expense[x].amount \in Int /\ n \in Int
        /\ expense[x].status \in {"PENDING", "APPROVED", "PAID"}
    BY OneExpense, AmountsAreNumbers DEF Correct
  <1>3. row \in ExpenseRow /\ row.status = expense[x].status /\ row.amount = n
    BY <1>2 DEF ExpenseRow
  <1>4. expense' = [expense EXCEPT ![x] = row]
    BY <1>1
  <1>5. CASE expense[x].status = "PAID"
    <2>1. /\ balance' \in [Purses -> Int] /\ rows' \in [Expenses -> Int]
          /\ \A y \in Expenses : rows'[y] = IF y \in {x} THEN rows[y] + (-(n - expense[x].amount)) ELSE rows[y]
      <3> DEFINE S == {expense[x].account} \cup Some(f)
                 d == -(n - expense[x].amount)
      <3>1. Move(S, d, {x}) /\ d \in Int
        BY <1>1, <1>2, <1>5
      <3> HIDE DEF S, d
      <3>2. /\ balance' \in [Purses -> Int] /\ rows' \in [Expenses -> Int]
            /\ \A y \in Expenses : rows'[y] = IF y \in {x} THEN rows[y] + d ELSE rows[y]
        BY <3>1, MoveTyped
      <3> QED
        BY <3>2 DEF d
    <2>2. rows[x] = -expense[x].amount
      BY <1>5, OneExpense
    <2>3. rows'[x] = -row.amount /\ \A y \in Expenses : y # x => rows'[y] = rows[y]
      BY <1>2, <1>3, <2>1, <2>2
    <2> HIDE DEF row
    <2> QED
      BY <1>3, <1>4, <1>5, <2>1, <2>3, ExpenseWritten
  <1>6. CASE expense[x].status \in {"PENDING", "APPROVED"}
    <2>1. rows' = rows /\ balance' = balance /\ rows[x] = 0
      BY <1>1, <1>6, OneExpense
    <2> HIDE DEF row
    <2> QED
      BY <1>3, <1>4, <1>6, <2>1, ExpenseWritten DEF OfExpenses
  <1> QED
    BY <1>2, <1>5, <1>6

\* An expense that is deleted, with no money or with some that names none.
LEMMA DeletedSafe ==
    ASSUME OfExpenses, NEW x \in Expenses, expense' = [expense EXCEPT ![x].status = "deleted"],
           balance' \in [Purses -> Int], rows' = rows
    PROVE  OfExpenses'
  <1> DEFINE row == [expense[x] EXCEPT !.status = "deleted"]
  <1>1. expense[x] \in ExpenseRow
    BY OneExpense
  <1>2. row \in ExpenseRow /\ row.status = "deleted"
    BY <1>1 DEF ExpenseRow
  <1>3. expense' = [expense EXCEPT ![x] = row]
    OBVIOUS
  <1> HIDE DEF row
  <1> QED
    BY <1>2, <1>3, ExpenseWritten DEF OfExpenses

LEMMA RemoveSafe == ASSUME OfExpenses, OfRequests, NEW c \in Calls, Remove(c) PROVE OfExpenses'
  <1>1. request[c].id \in Expenses /\ UNCHANGED <<balance, rows>>
    BY DEF OfRequests, RequestsFit, RequestFits, Remove
  <1>2. CASE UNCHANGED expense
    BY <1>1, <1>2 DEF OfExpenses, NoRowsYet, PaidMatchesRows, Exists
  <1>3. CASE expense' = [expense EXCEPT ![request[c].id].status = "deleted"]
    BY <1>1, <1>3, DeletedSafe DEF OfExpenses
  <1> QED
    BY <1>2, <1>3 DEF Remove

LEMMA UnrecordSafe == ASSUME OfExpenses, OfRequests, NEW c \in Calls, UnrecordExpense(c) PROVE OfExpenses'
  <1>1. request[c].id \in Expenses /\ request[c].amount \in Int
    BY AmountsAreNumbers DEF OfRequests, RequestsFit, RequestFits, UnrecordExpense, Request
  <1>2. CASE UNCHANGED <<expense, balance, rows>>
    BY <1>2 DEF OfExpenses, NoRowsYet, PaidMatchesRows, Exists
  <1>3. CASE /\ expense' = [expense EXCEPT ![request[c].id].status = "deleted"]
             /\ Move({request[c].purse}, request[c].amount, {})
    <2>1. balance' \in [Purses -> Int] /\ rows' = rows
      BY <1>1, <1>3, MoveUnnamed
    <2> QED
      BY <1>1, <1>3, <2>1, DeletedSafe
  <1> QED
    BY <1>2, <1>3 DEF UnrecordExpense

LEMMA RecordSafe == ASSUME OfExpenses, OfRequests, NEW c \in Calls, RecordExpense(c) PROVE OfExpenses'
  <1> DEFINE n == request[c].amount
             f == request[c].purse
             row == [NoExpense EXCEPT !.status = "APPROVED", !.amount = n, !.account = Linked[f], !.ofEvent = TRUE]
  <1>1. n \in Amounts \cup {0} /\ -n \in Int /\ f \in Funds
    BY AmountsAreNumbers DEF OfRequests, RequestsFit, RequestFits, RecordExpense, Request
  <1>2. PICK x \in Expenses : expense[x].status = "none" /\ expense' = [expense EXCEPT ![x] = row]
    BY DEF RecordExpense
  <1>3. row \in ExpenseRow /\ row.status = "APPROVED"
    BY <1>1, BooksAssumption DEF ExpenseRow, NoExpense
  <1>4. balance' \in [Purses -> Int] /\ rows' = rows /\ rows[x] = 0
    <2> DEFINE d == -n
    <2>1. Move({f}, d, {}) /\ d \in Int
      BY <1>1 DEF RecordExpense
    <2> HIDE DEF d
    <2>2. balance' \in [Purses -> Int] /\ rows' = rows
      BY <2>1, MoveUnnamed
    <2> QED
      BY <1>2, <2>2, OneExpense
  <1> HIDE DEF row, n, f
  <1> QED
    BY <1>2, <1>3, <1>4, ExpenseWritten DEF OfExpenses

LEMMA MoveByHandSafe == ASSUME OfExpenses, OfMoves, MoveByHand PROVE OfExpenses' /\ OfMoves'
  <1>1. PICK n \in Amounts, S \in {{k} : k \in Purses} \cup {{f, a} : f \in Funds, a \in Accounts} :
          Move(S, n, {}) \/ Move(S, -n, {})
    BY DEF MoveByHand
  <1>2. n \in Int /\ -n \in Int
    BY AmountsAreNumbers
  <1>3. OfExpenses'
    BY <1>1, <1>2, UnnamedMove DEF MoveByHand
  <1> QED
    BY <1>3, AmountsAreNumbers DEF MoveByHand, OfMoves

-----------------------------------------------------------------------------
(* Every action of the salaries keeps the invariant.                       *)

LEMMA ProcessSalarySafe ==
    ASSUME OfSalaries, OfRequests, NEW c \in Calls, ProcessSalary(c)
    PROVE  OfSalaries'
  <1> DEFINE s == request[c].id
             n == request[c].amount
             a == request[c].purse
  <1>1. s \in Salaries /\ n \in Amounts \cup {0} /\ a \in Accounts \cup {"none"}
    BY DEF OfRequests, RequestsFit, RequestFits, ProcessSalary, Request
  <1>2. salary[s] \in SalaryRow
    BY <1>1 DEF OfSalaries
  <1> DEFINE redone == [salary[s] EXCEPT !.net = n, !.account = a]
             made == [salary[s] EXCEPT !.net = n, !.account = a, !.status = "DRAFT"]
  <1>3. redone \in SalaryRow /\ redone.status = salary[s].status /\ redone.paid = salary[s].paid
        /\ made \in SalaryRow /\ made.status = "DRAFT" /\ made.paid = salary[s].paid
    BY <1>1, <1>2 DEF SalaryRow
  <1>4. \/ salary' = [salary EXCEPT ![s] = redone]
        \/ salary[s].status = "none" /\ salary' = [salary EXCEPT ![s] = made]
        \/ salary' = salary
    BY <1>1 DEF ProcessSalary
  <1> HIDE DEF redone, made, s
  <1> QED
    BY <1>1, <1>3, <1>4 DEF OfSalaries, SalaryPaidOnce

\* A salary's row once it is paid.
LEMMA PaidRow ==
    ASSUME NEW row \in SalaryRow, row.paid = 0
    PROVE  LET paid == [row EXCEPT !.status = "PAID", !.paid = @ + 1]
           IN  paid \in SalaryRow /\ paid.status = "PAID" /\ paid.paid = 1
  <1> DEFINE mid == [row EXCEPT !.status = "PAID"]
  <1>1. mid \in SalaryRow /\ mid.status = "PAID" /\ mid.paid = 0
    BY DEF SalaryRow
  <1>2. [row EXCEPT !.status = "PAID", !.paid = @ + 1] = [mid EXCEPT !.paid = 1]
    OBVIOUS
  <1> HIDE DEF mid
  <1>3. [mid EXCEPT !.paid = 1] \in SalaryRow /\ [mid EXCEPT !.paid = 1].status = "PAID"
        /\ [mid EXCEPT !.paid = 1].paid = 1
    BY <1>1 DEF SalaryRow
  <1> QED
    BY <1>2, <1>3

LEMMA PaySalarySafe ==
    ASSUME OfSalaries, OfExpenses, OfRequests, NEW c \in Calls, PaySalary(c)
    PROVE  OfSalaries' /\ OfExpenses'
  <1> DEFINE s == request[c].id
  <1>1. s \in Salaries /\ request[c].amount \in Int /\ UNCHANGED expense
    <2>1. request[c] \in Request /\ RequestFits(request[c]) /\ request[c].op = "pay" /\ UNCHANGED expense
      BY DEF OfRequests, RequestsFit, PaySalary
    <2>2. request[c].amount \in Amounts \cup {0}
      BY <2>1 DEF Request
    <2>3. request[c].amount \in Int
      BY <2>2, AmountIsNumber
    <2>4. s \in Salaries
      BY <2>1 DEF RequestFits
    <2> QED
      BY <2>1, <2>3, <2>4
  <1>2. CASE salary[s].status = "DRAFT"
    <2>1. salary[s] \in SalaryRow /\ salary[s].paid = 0
      BY <1>1, <1>2 DEF OfSalaries, SalaryPaidOnce
    <2> DEFINE row == [salary[s] EXCEPT !.status = "PAID", !.paid = @ + 1]
    <2>2. row \in SalaryRow /\ row.status = "PAID" /\ row.paid = 1
      BY <2>1, PaidRow
    <2>3. salary' = [salary EXCEPT ![s] = row]
      BY <1>2 DEF PaySalary, Pays
    <2>4. OfSalaries'
      <3> HIDE DEF row, s
      <3> QED
        BY <1>1, <2>2, <2>3 DEF OfSalaries, SalaryPaidOnce
    <2>5. OfExpenses'
      <3> DEFINE d == -request[c].amount
      <3>1. Move({request[c].purse}, d, {}) /\ d \in Int
        BY <1>1, <1>2 DEF PaySalary, Pays
      <3> HIDE DEF d
      <3> QED
        BY <1>1, <3>1, UnnamedMove
    <2> QED
      BY <2>4, <2>5
  <1>3. CASE salary[s].status # "DRAFT"
    <2>1. UNCHANGED <<balance, rows, salary>>
      BY <1>3 DEF PaySalary
    <2> QED
      BY <1>1, <2>1 DEF OfSalaries, SalaryPaidOnce, OfExpenses, NoRowsYet, PaidMatchesRows, Exists
  <1> QED
    BY <1>2, <1>3

-----------------------------------------------------------------------------
(* What a call may ask fits its operation.                                 *)

LEMMA AskPaidSafe ==
    ASSUME OfRequests, OfExpenses, NEW c \in Calls, NEW x \in Expenses, AskPaid(c, x) PROVE OfRequests'
  <1>1. PICK f \in Funds \cup {"none"} :
          Ask(c, [op |-> "spend", id |-> x, amount |-> expense[x].amount, purse |-> f])
    BY DEF AskPaid
  <1> DEFINE q == [op |-> "spend", id |-> x, amount |-> expense[x].amount, purse |-> f]
  <1>2. expense[x].amount \in Amounts \cup {0}
    BY DEF OfExpenses, ExpenseRow
  <1>3. q \in Request /\ RequestFits(q)
    BY <1>2 DEF Request, RequestFits, Purses
  <1> HIDE DEF q
  <1>4. Ask(c, q)
    BY <1>1 DEF q
  <1> QED
    BY <1>3, <1>4, AskSafe

LEMMA AskRemoveSafe == ASSUME OfRequests, NEW c \in Calls, NEW x \in Expenses, AskRemove(c, x) PROVE OfRequests'
  <1> DEFINE q == [NoRequest EXCEPT !.op = "remove", !.id = x]
  <1>1. q \in Request /\ RequestFits(q)
    BY DEF NoRequest, Request, RequestFits
  <1> HIDE DEF q
  <1>2. Ask(c, q)
    BY DEF AskRemove, q
  <1> QED
    BY <1>1, <1>2, AskSafe

LEMMA AskSalarySafe == ASSUME OfRequests, NEW c \in Calls, NEW s \in Salaries, AskSalary(c, s) PROVE OfRequests'
  <1>1. PICK n \in Amounts, a \in Accounts \cup {"none"}, op \in {"make", "redo"} :
          Ask(c, [op |-> op, id |-> s, amount |-> n, purse |-> a])
    BY DEF AskSalary
  <1> DEFINE q == [op |-> op, id |-> s, amount |-> n, purse |-> a]
  <1>2. q \in Request /\ RequestFits(q)
    BY DEF Request, RequestFits, Purses
  <1> HIDE DEF q
  <1>3. Ask(c, q)
    BY <1>1 DEF q
  <1> QED
    BY <1>2, <1>3, AskSafe

LEMMA AskPaySafe ==
    ASSUME OfRequests, OfSalaries, NEW c \in Calls, NEW s \in Salaries, AskPay(c, s) PROVE OfRequests'
  <1> DEFINE q == [op |-> "pay", id |-> s, amount |-> salary[s].net, purse |-> salary[s].account]
  <1>1. salary[s].net \in Amounts \cup {0} /\ salary[s].account \in Accounts \cup {"none"}
    BY DEF OfSalaries, SalaryRow
  <1>2. q \in Request /\ RequestFits(q)
    BY <1>1 DEF Request, RequestFits, Purses
  <1> HIDE DEF q
  <1>3. Ask(c, q)
    BY DEF AskPay, q
  <1> QED
    BY <1>2, <1>3, AskSafe

LEMMA AskRecordSafe == ASSUME OfRequests, OfEvents, NEW c \in Calls, AskRecord(c) PROVE OfRequests'
  <1> DEFINE q == [NoRequest EXCEPT !.op = "record", !.amount = event.cost, !.purse = event.fund]
  <1>1. event.cost \in Amounts /\ event.fund \in Funds
    BY DEF OfEvents
  <1>2. q \in Request /\ RequestFits(q)
    BY <1>1 DEF NoRequest, Request, RequestFits, Purses
  <1> HIDE DEF q
  <1>3. Ask(c, q)
    BY DEF AskRecord, q
  <1> QED
    BY <1>2, <1>3, AskSafe

LEMMA AskUnrecordSafe ==
    ASSUME OfRequests, OfEvents, NEW c \in Calls, NEW x \in Expenses, AskUnrecord(c, x) PROVE OfRequests'
  <1> DEFINE q == [op |-> "unrecord", id |-> x, amount |-> lastDebit.amount, purse |-> lastDebit.fund]
  <1>1. lastDebit.amount \in Amounts \cup {0} /\ lastDebit.fund \in Funds \cup {"none"}
    BY DEF OfEvents
  <1>2. q \in Request /\ RequestFits(q)
    BY <1>1 DEF Request, RequestFits, Purses
  <1> HIDE DEF q
  <1>3. Ask(c, q)
    BY DEF AskUnrecord, q
  <1> QED
    BY <1>2, <1>3, AskSafe

-----------------------------------------------------------------------------
LEMMA BooksStart == BooksInit => BooksInv
  <1> SUFFICES ASSUME BooksInit PROVE BooksInv
    OBVIOUS
  <1>1. NoExpense \in ExpenseRow /\ NoRequest \in Request /\ RequestFits(NoRequest)
    BY DEF NoExpense, ExpenseRow, NoRequest, Request, RequestFits
  <1> DEFINE row == [status |-> "none", net |-> 0, account |-> "none", paid |-> 0]
  <1>2. row \in SalaryRow /\ row.status = "none" /\ row.paid = 0
    BY DEF SalaryRow
  <1> HIDE DEF row
  <1>3. OfExpenses
    BY <1>1, BooksAssumption DEF BooksInit, OfExpenses, NoRowsYet, PaidMatchesRows, Exists, NoExpense
  <1>4. salary = [s \in Salaries |-> row]
    BY DEF BooksInit, row
  <1>5. OfSalaries
    BY <1>2, <1>4 DEF OfSalaries, SalaryPaidOnce
  <1>6. OfRequests
    BY <1>1 DEF BooksInit, OfRequests, RequestsFit
  <1>7. OfEvents /\ OfMoves
    BY AmountsAreNumbers DEF BooksInit, OfEvents, OfMoves
  <1> QED
    BY <1>3, <1>5, <1>6, <1>7, BooksParts

\* What an action leaves alone keeps its part of the invariant.
LEMMA BooksUntouched ==
    ASSUME OfExpenses, OfSalaries, OfRequests, OfEvents, OfMoves
    PROVE  /\ UNCHANGED <<balance, rows, expense>> => OfExpenses'
           /\ UNCHANGED salary => OfSalaries'
           /\ UNCHANGED request => OfRequests'
           /\ UNCHANGED <<event, lastDebit>> => OfEvents'
           /\ UNCHANGED moves => OfMoves'
  BY DEF OfExpenses, NoRowsYet, PaidMatchesRows, Exists, OfSalaries, SalaryPaidOnce, OfRequests,
         RequestsFit, OfEvents, OfMoves

LEMMA BooksStepSafe == BooksInv /\ [BooksNext]_booksVars => BooksInv'
  <1> SUFFICES ASSUME BooksInv, [BooksNext]_booksVars PROVE BooksInv'
    OBVIOUS
  <1>1. OfExpenses /\ OfSalaries /\ OfRequests /\ OfEvents /\ OfMoves
    BY BooksParts
  <1>2. ASSUME OfExpenses', OfSalaries', OfRequests', OfEvents', OfMoves' PROVE BooksInv'
    BY <1>2 DEF BooksInv, BooksTypeOK, OfExpenses, OfSalaries, OfRequests, OfEvents, OfMoves
  <1>3. ASSUME NEW x \in Expenses, CreateExpense(x) PROVE BooksInv'
    BY <1>1, <1>2, <1>3, CreateExpenseSafe, BooksUntouched DEF CreateExpense
  <1>4. ASSUME NEW x \in Expenses, NEW v \in {"APPROVED", "REJECTED"}, Judge(x, v) PROVE BooksInv'
    <2>1. OfExpenses'
      BY <1>1, <1>4, JudgeSafe
    <2> QED
      BY <1>1, <1>2, <1>4, <2>1, BooksUntouched DEF Judge
  <1>5. ASSUME NEW c \in Calls, MarkPaid(c) PROVE BooksInv'
    <2>1. OfExpenses'
      BY <1>1, <1>5, MarkPaidSafe
    <2> QED
      BY <1>1, <1>2, <1>5, <2>1, DoneSafe, BooksUntouched DEF MarkPaid, Spends
  <1>6. ASSUME NEW x \in Expenses, Correct(x) PROVE BooksInv'
    BY <1>1, <1>2, <1>6, CorrectSafe, BooksUntouched DEF Correct
  <1>7. ASSUME NEW c \in Calls, NEW x \in Expenses, AskRemove(c, x) PROVE BooksInv'
    BY <1>1, <1>2, <1>7, AskRemoveSafe, BooksUntouched DEF AskRemove
  <1>8. ASSUME NEW c \in Calls, Remove(c) PROVE BooksInv'
    BY <1>1, <1>2, <1>8, RemoveSafe, DoneSafe, BooksUntouched DEF Remove
  <1>9. ASSUME MoveByHand PROVE BooksInv'
    BY <1>1, <1>2, <1>9, MoveByHandSafe, BooksUntouched DEF MoveByHand
  <1>10. ASSUME NEW c \in Calls, NEW s \in Salaries, AskSalary(c, s) PROVE BooksInv'
    BY <1>1, <1>2, <1>10, AskSalarySafe, BooksUntouched DEF AskSalary
  <1>11. ASSUME NEW c \in Calls, ProcessSalary(c) PROVE BooksInv'
    BY <1>1, <1>2, <1>11, ProcessSalarySafe, DoneSafe, BooksUntouched DEF ProcessSalary
  <1>12. ASSUME NEW c \in Calls, NEW s \in Salaries, AskPay(c, s) PROVE BooksInv'
    BY <1>1, <1>2, <1>12, AskPaySafe, BooksUntouched DEF AskPay
  <1>13. ASSUME NEW c \in Calls, PaySalary(c) PROVE BooksInv'
    BY <1>1, <1>2, <1>13, PaySalarySafe, DoneSafe, BooksUntouched DEF PaySalary
  <1>14. ASSUME ChangeEvent PROVE BooksInv'
    <2>1. OfEvents'
      BY <1>1, <1>14 DEF OfEvents, ChangeEvent
    <2> QED
      BY <1>1, <1>2, <1>14, <2>1, BooksUntouched DEF ChangeEvent
  <1>15. ASSUME NEW c \in Calls, AskRecord(c) PROVE BooksInv'
    BY <1>1, <1>2, <1>15, AskRecordSafe, BooksUntouched DEF AskRecord
  <1>16. ASSUME NEW c \in Calls, RecordExpense(c) PROVE BooksInv'
    <2>1. request[c].amount \in Amounts \cup {0} /\ request[c].purse \in Funds
      BY <1>1, <1>16 DEF OfRequests, RequestsFit, RequestFits, RecordExpense, Request
    <2>2. OfEvents'
      BY <1>1, <1>16, <2>1 DEF OfEvents, RecordExpense
    <2> QED
      BY <1>1, <1>2, <1>16, <2>2, RecordSafe, DoneSafe, BooksUntouched DEF RecordExpense
  <1>17. ASSUME NEW c \in Calls, NEW x \in Expenses, AskUnrecord(c, x) PROVE BooksInv'
    BY <1>1, <1>2, <1>17, AskUnrecordSafe, BooksUntouched DEF AskUnrecord
  <1>18. ASSUME NEW c \in Calls, UnrecordExpense(c) PROVE BooksInv'
    BY <1>1, <1>2, <1>18, UnrecordSafe, DoneSafe, BooksUntouched DEF UnrecordExpense
  <1>19. ASSUME NEW c \in Calls, NEW x \in Expenses, AskPaid(c, x) PROVE BooksInv'
    BY <1>1, <1>2, <1>19, AskPaidSafe, BooksUntouched DEF AskPaid
  <1>20. ASSUME UNCHANGED booksVars PROVE BooksInv'
    BY <1>1, <1>2, <1>20, BooksUntouched DEF booksVars
  <1> QED
    BY <1>3, <1>4, <1>5, <1>6, <1>7, <1>8, <1>9, <1>10, <1>11, <1>12, <1>13, <1>14, <1>15, <1>16,
       <1>17, <1>18, <1>19, <1>20 DEF BooksNext, SalaryNext, ExpenseNext

-----------------------------------------------------------------------------
\* The rows and balances of ExpensesService, FundsService, SalariesService and EventsService
\* keep their types.
THEOREM BooksTypeCorrect == BooksSpec => []BooksTypeOK
  BY BooksStart, BooksStepSafe, PTL DEF BooksSpec, BooksInv

\* ExpensesService: whatever is approved, paid, corrected, removed and recorded in whatever
\* order, the rows that name a paid expense add up to its amount.
THEOREM PaidAsRecorded == BooksSpec => []PaidMatchesRows
  BY BooksStart, BooksStepSafe, PTL DEF BooksSpec, BooksInv

\* SalariesService.paySalary: of any number of payments under way, one takes the money.
THEOREM OnePayment == BooksSpec => []SalaryPaidOnce
  BY BooksStart, BooksStepSafe, PTL DEF BooksSpec, BooksInv

-----------------------------------------------------------------------------
(* The bookings.                                                           *)

\* What a request read and still may rely on: rules are rules, and a fee that is due now was
\* due when it was read.
TaskFits(q) ==
    /\ DOMAIN q = DOMAIN NoTask
    /\ q.op \in {"book", "insert"} => q.flat \in Flats /\ q.slots \in Times /\ q.rules \in RuleSets
    /\ q.op \in {"cancel", "reject"} =>
          /\ q.id \in Bookable /\ booking[q.id].status # "none"
          /\ booking[q.id].fee = "DUE" => q.fee = "DUE"
TasksFit == DOMAIN task = Tasks /\ \A t \in Tasks : TaskFits(task[t])

\* Among any bookings that hold a slot, the one accepted last was accepted beside the others:
\* unlike NoDoubleBooking itself this survives any of them being cancelled.
Beside(H) == H # {} => \E b \in H : Cardinality(H) <= booking[b].under
AllBeside == \A s \in Slots : \A H \in SUBSET Held({s}) : Beside(H)

\* A fee is collected after the decision, and owed by bookings that were made.
PendingUnpaid == \A b \in Bookable : /\ booking[b].status = "PENDING" => booking[b].fee # "COLLECTED"
                                     /\ booking[b].status = "none" => booking[b].fee = "NONE"

\* The lock on the amenity: one request at a time is between its count and its booking, and
\* what it counted has only become less.
Counted == \A t \in Tasks : task[t].op = "insert" =>
              Cardinality(Held(task[t].slots)) < task[t].rules.capacity
OneInserts == \A t, u \in Tasks : task[t].op = "insert" /\ task[u].op = "insert" => t = u

BookingsInv == BookingsTypeOK /\ TasksFit /\ AllBeside /\ FeeMatchesMoney /\ PendingUnpaid
               /\ Counted /\ OneInserts

-----------------------------------------------------------------------------
LEMMA HeldFinite == \A S : IsFiniteSet(Held(S))
  BY BookingsAssumption, FS_Subset DEF Held

LEMMA Beside_NoDouble == AllBeside => NoDoubleBooking
  BY DEF AllBeside, Beside, NoDoubleBooking

\* One booking changes to a row that holds no slot it did not hold, and is no less than
\* accepted under what it was: no slot is oversold by it.
LEMMA Shrinking ==
    ASSUME AllBeside, NEW b \in Bookable,
           DOMAIN booking = Bookable, DOMAIN booking' = Bookable,
           \A x \in Bookable : x # b => booking'[x] = booking[x],
           booking'[b].slots = booking[b].slots, booking'[b].under = booking[b].under,
           booking'[b].status \in Live => booking[b].status \in Live
    PROVE  AllBeside'
  <1> SUFFICES ASSUME NEW s \in Slots, NEW H \in SUBSET Held({s})', H # {}
               PROVE  \E x \in H : Cardinality(H) <= booking'[x].under
    BY DEF AllBeside, Beside
  <1>1. H \in SUBSET Held({s})
    BY DEF Held
  <1>2. PICK x \in H : Cardinality(H) <= booking[x].under
    BY <1>1 DEF AllBeside, Beside
  <1>3. x \in Bookable /\ booking'[x].under = booking[x].under
    BY <1>1 DEF Held
  <1> QED
    BY <1>2, <1>3

\* A booking made where fewer hold its slots than the capacity.
LEMMA Accepting ==
    ASSUME AllBeside, NEW b \in Bookable, NEW cap \in Nat, NEW S,
           DOMAIN booking = Bookable, DOMAIN booking' = Bookable,
           \A x \in Bookable : x # b => booking'[x] = booking[x],
           booking[b].status \notin Live,
           booking'[b].slots = S, booking'[b].under = cap,
           Cardinality(Held(S)) < cap
    PROVE  AllBeside'
  <1> SUFFICES ASSUME NEW s \in Slots, NEW H \in SUBSET Held({s})', H # {}
               PROVE  \E x \in H : Cardinality(H) <= booking'[x].under
    BY DEF AllBeside, Beside
  <1>1. H \ {b} \in SUBSET Held({s})
    BY DEF Held
  <1>2. CASE b \in H
    <2>1. s \in S
      BY <1>2 DEF Held
    <2>2. H \ {b} \subseteq Held(S)
      BY <1>1, <2>1 DEF Held
    <2>3. Cardinality(H \ {b}) <= Cardinality(Held(S)) /\ IsFiniteSet(H \ {b}) /\ IsFiniteSet(Held(S))
      BY <2>2, HeldFinite, FS_Subset
    <2>4. H = (H \ {b}) \cup {b} /\ b \notin H \ {b}
      BY <1>2
    <2>5. Cardinality(H) = Cardinality(H \ {b}) + 1
      BY <2>3, <2>4, FS_AddElement
    <2>6. Cardinality(H \ {b}) \in Nat /\ Cardinality(Held(S)) \in Nat
      BY <2>3, FS_CardinalityType
    <2> QED
      BY <1>2, <2>3, <2>5, <2>6
  <1>3. CASE b \notin H
    <2>1. H \in SUBSET Held({s})
      BY <1>1, <1>3
    <2>2. PICK x \in H : Cardinality(H) <= booking[x].under
      BY <2>1 DEF AllBeside, Beside
    <2> QED
      BY <1>3, <2>1, <2>2 DEF Held
  <1> QED
    BY <1>2, <1>3

\* What was counted stands while no booking comes to hold a slot, whoever ends.
LEMMA CountStands ==
    ASSUME TasksFit, Counted, OneInserts, \A S : Held(S)' \subseteq Held(S),
           UNCHANGED task \/ \E t \in Tasks : Finished(t)
    PROVE  Counted' /\ OneInserts'
  <1>1. \A t \in Tasks : task'[t].op = "insert" => task[t].op = "insert" /\ task'[t] = task[t]
    BY DEF TasksFit, Finished, NoTask
  <1>2. OneInserts'
    BY <1>1 DEF OneInserts
  <1>3. ASSUME NEW t \in Tasks, task'[t].op = "insert"
        PROVE  (Cardinality(Held(task[t].slots)) < task[t].rules.capacity)'
    <2>1. PICK S, cap : S = task[t].slots /\ cap = task[t].rules.capacity
      OBVIOUS
    <2>2. S = task'[t].slots /\ cap = task'[t].rules.capacity /\ Cardinality(Held(S)) < cap
      BY <1>1, <1>3, <2>1 DEF Counted
    <2>3. cap \in Nat
      BY <1>1, <1>3, <2>1, BookingsAssumption DEF TasksFit, TaskFits
    <2>4. Held(S)' \subseteq Held(S) /\ IsFiniteSet(Held(S))
      BY HeldFinite
    <2>5. /\ Cardinality(Held(S)') <= Cardinality(Held(S))
          /\ Cardinality(Held(S)') \in Nat /\ Cardinality(Held(S)) \in Nat
      <3>1. IsFiniteSet(Held(S)')
        BY <2>4, FS_Subset
      <3> QED
        BY <2>4, <3>1, FS_Subset, FS_CardinalityType
    <2>6. Held(task[t].slots)' = Held(S)'
      BY <2>2 DEF Held
    <2>7. Cardinality(Held(S)') < cap
      BY <2>2, <2>3, <2>5
    <2> QED
      BY <2>2, <2>6, <2>7
  <1> QED
    BY <1>2, <1>3 DEF Counted

\* What a row of a booking always says of itself.
RowSound(row) ==
    /\ row.income = IF row.fee = "COLLECTED" THEN 1 ELSE 0
    /\ row.status \in {"CANCELLED", "REJECTED"} => row.fee # "DUE"
    /\ row.status = "PENDING" => row.fee # "COLLECTED"
    /\ row.status = "none" => row.fee = "NONE"

LEMMA RowsSound == FeeMatchesMoney /\ PendingUnpaid <=> \A b \in Bookable : RowSound(booking[b])
  BY DEF FeeMatchesMoney, PendingUnpaid, RowSound

\* One booking written with a sound row, whose fee is due only if it was or the booking is new.
LEMMA BookingWritten ==
    ASSUME BookingsInv, NEW b \in Bookable, NEW row \in BookingRow, booking' = [booking EXCEPT ![b] = row],
           RowSound(row), row.status # "none",
           row.fee = "DUE" => booking[b].fee = "DUE" \/ booking[b].status = "none"
    PROVE  /\ booking' \in [Bookable -> BookingRow]
           /\ booking'[b] = row /\ \A x \in Bookable : x # b => booking'[x] = booking[x]
           /\ FeeMatchesMoney' /\ PendingUnpaid'
           /\ \A q : TaskFits(q) => TaskFits(q)'
  <1>1. /\ booking' \in [Bookable -> BookingRow]
        /\ booking'[b] = row /\ \A x \in Bookable : x # b => booking'[x] = booking[x]
    BY DEF BookingsInv, BookingsTypeOK
  <1>2. \A x \in Bookable : RowSound(booking'[x])
    BY <1>1, RowsSound DEF BookingsInv
  <1>3. FeeMatchesMoney' /\ PendingUnpaid'
    BY <1>2 DEF RowSound, FeeMatchesMoney, PendingUnpaid
  <1>4. ASSUME NEW q, TaskFits(q) PROVE TaskFits(q)'
    BY <1>1, <1>4 DEF TaskFits
  <1> QED
    BY <1>1, <1>3, <1>4

\* The tasks after a step: one ended, or as they were.
LEMMA TasksGoOn ==
    ASSUME TasksFit, \A q : TaskFits(q) => TaskFits(q)',
           UNCHANGED task \/ \E t \in Tasks : Finished(t)
    PROVE  TasksFit' /\ (BookingsTypeOK => \A t \in Tasks : task'[t].op \in {"none", "book", "insert", "cancel", "reject"})
  <1>1. TaskFits(NoTask)' /\ NoTask.op = "none"
    BY DEF TaskFits, NoTask
  <1> QED
    BY <1>1 DEF TasksFit, Finished, BookingsTypeOK

LEMMA RowTyped == ASSUME BookingsInv, NEW b \in Bookable PROVE booking[b] \in BookingRow /\ RowSound(booking[b])
  BY RowsSound DEF BookingsInv, BookingsTypeOK

\* A booking that is not new is written, holding no slot it did not hold.
LEMMA Rewritten ==
    ASSUME BookingsInv, NEW b \in Bookable, NEW row \in BookingRow, booking' = [booking EXCEPT ![b] = row],
           UNCHANGED rules, UNCHANGED task \/ \E t \in Tasks : Finished(t),
           RowSound(row), row.status # "none", booking[b].status # "none",
           row.fee = "DUE" => booking[b].fee = "DUE",
           row.slots = booking[b].slots, row.under = booking[b].under,
           row.status \in Live => booking[b].status \in Live
    PROVE  BookingsInv'
  <1>1. /\ booking' \in [Bookable -> BookingRow]
        /\ booking'[b] = row /\ \A x \in Bookable : x # b => booking'[x] = booking[x]
        /\ FeeMatchesMoney' /\ PendingUnpaid'
        /\ \A q : TaskFits(q) => TaskFits(q)'
    BY BookingWritten
  <1>2. DOMAIN booking = Bookable /\ DOMAIN booking' = Bookable
    BY <1>1 DEF BookingsInv, BookingsTypeOK
  <1>3. AllBeside'
    BY <1>1, <1>2, Shrinking DEF BookingsInv
  <1>4. TasksFit' /\ \A t \in Tasks : task'[t].op \in {"none", "book", "insert", "cancel", "reject"}
    BY <1>1, TasksGoOn DEF BookingsInv
  <1>5. \A S : Held(S)' \subseteq Held(S)
    BY <1>1, <1>2 DEF Held
  <1>6. Counted' /\ OneInserts'
    BY <1>5, CountStands DEF BookingsInv
  <1> QED
    BY <1>1, <1>3, <1>4, <1>6 DEF BookingsInv, BookingsTypeOK

-----------------------------------------------------------------------------
LEMMA ApproveSafe == ASSUME BookingsInv, NEW b \in Bookable, Approve(b) PROVE BookingsInv'
  <1> DEFINE row == [booking[b] EXCEPT !.status = "CONFIRMED"]
  <1>1. booking[b] \in BookingRow /\ RowSound(booking[b]) /\ booking[b].status = "PENDING"
    BY RowTyped DEF Approve
  <1>2. row \in BookingRow /\ row.status = "CONFIRMED" /\ row.fee = booking[b].fee
        /\ row.income = booking[b].income /\ row.slots = booking[b].slots /\ row.under = booking[b].under
    BY <1>1 DEF BookingRow
  <1>3. booking' = [booking EXCEPT ![b] = row] /\ UNCHANGED <<rules, task>>
    BY DEF Approve
  <1> HIDE DEF row
  <1>4. RowSound(row)
    BY <1>1, <1>2 DEF RowSound
  <1> QED
    BY <1>1, <1>2, <1>3, <1>4, Rewritten DEF Live

LEMMA CollectFeeSafe == ASSUME BookingsInv, NEW b \in Bookable, CollectFee(b) PROVE BookingsInv'
  <1> DEFINE mid == [booking[b] EXCEPT !.fee = "COLLECTED"]
             row == [mid EXCEPT !.income = 1]
  <1>1. booking[b] \in BookingRow /\ booking[b].income = 0 /\ booking[b].status = "CONFIRMED"
    BY RowTyped DEF CollectFee, RowSound
  <1>2. mid \in BookingRow /\ mid.fee = "COLLECTED" /\ mid.status = "CONFIRMED"
        /\ mid.slots = booking[b].slots /\ mid.under = booking[b].under
    BY <1>1 DEF BookingRow
  <1>3. booking' = [booking EXCEPT ![b] = row] /\ UNCHANGED <<rules, task>>
    <2>1. booking' = [booking EXCEPT ![b] = [booking[b] EXCEPT !.fee = "COLLECTED", !.income = @ + 1]]
      BY DEF CollectFee
    <2>2. [booking[b] EXCEPT !.fee = "COLLECTED", !.income = @ + 1] = row
      BY <1>1
    <2> QED
      BY <2>1, <2>2 DEF CollectFee
  <1> HIDE DEF mid
  <1>4. row \in BookingRow /\ row.fee = "COLLECTED" /\ row.status = "CONFIRMED" /\ row.income = 1
        /\ row.slots = mid.slots /\ row.under = mid.under
    BY <1>2 DEF BookingRow
  <1> HIDE DEF row
  <1>5. RowSound(row)
    BY <1>4 DEF RowSound
  <1> QED
    BY <1>1, <1>2, <1>3, <1>4, <1>5, Rewritten DEF Live

LEMMA WaiveFeeSafe == ASSUME BookingsInv, NEW b \in Bookable, WaiveFee(b) PROVE BookingsInv'
  <1> DEFINE row == [booking[b] EXCEPT !.fee = "WAIVED"]
  <1>1. booking[b] \in BookingRow /\ RowSound(booking[b]) /\ booking[b].fee = "DUE"
    BY RowTyped DEF WaiveFee
  <1>2. row \in BookingRow /\ row.status = booking[b].status /\ row.fee = "WAIVED"
        /\ row.income = booking[b].income /\ row.slots = booking[b].slots /\ row.under = booking[b].under
    BY <1>1 DEF BookingRow
  <1>3. booking' = [booking EXCEPT ![b] = row] /\ UNCHANGED <<rules, task>>
    BY DEF WaiveFee
  <1>4. booking[b].status # "none"
    BY <1>1 DEF RowSound
  <1> HIDE DEF row
  <1>5. RowSound(row)
    BY <1>1, <1>2 DEF RowSound
  <1> QED
    BY <1>1, <1>2, <1>3, <1>4, <1>5, Rewritten

\* A request that finds its booking decided changes nothing but ends.
LEMMA NothingWritten ==
    ASSUME BookingsInv, UNCHANGED <<rules, booking>>, UNCHANGED task \/ \E t \in Tasks : Finished(t)
    PROVE  BookingsInv'
  <1>1. \A q : TaskFits(q) => TaskFits(q)'
    BY DEF TaskFits
  <1>2. TasksFit' /\ \A t \in Tasks : task'[t].op \in {"none", "book", "insert", "cancel", "reject"}
    BY <1>1, TasksGoOn DEF BookingsInv
  <1>3. AllBeside' /\ \A S : Held(S)' \subseteq Held(S)
    BY DEF BookingsInv, AllBeside, Beside, Held
  <1>4. Counted' /\ OneInserts'
    BY <1>3, CountStands DEF BookingsInv
  <1> QED
    BY <1>2, <1>3, <1>4 DEF BookingsInv, BookingsTypeOK, FeeMatchesMoney, PendingUnpaid

\* A booking closed: what is due now was due when it was read, so it is no longer owed.
LEMMA CloseSafe ==
    ASSUME BookingsInv, NEW b \in Bookable, NEW answer \in {"CANCELLED", "REJECTED"},
           UNCHANGED rules, \E t \in Tasks : Finished(t),
           booking[b].status \in Live,
           \/ booking[b].fee # "DUE" /\ booking' = [booking EXCEPT ![b].status = answer]
           \/ booking[b].fee # "COLLECTED"
              /\ booking' = [booking EXCEPT ![b].status = answer, ![b].fee = "NONE"]
    PROVE  BookingsInv'
  <1> DEFINE mid == [booking[b] EXCEPT !.status = answer]
             row == [mid EXCEPT !.fee = "NONE"]
  <1>1. booking[b] \in BookingRow /\ RowSound(booking[b])
    BY RowTyped
  <1>2. mid \in BookingRow /\ mid.status = answer /\ mid.fee = booking[b].fee
        /\ mid.income = booking[b].income /\ mid.slots = booking[b].slots /\ mid.under = booking[b].under
    <2>1. CASE answer = "CANCELLED"
      BY <1>1, <2>1 DEF BookingRow
    <2>2. CASE answer = "REJECTED"
      BY <1>1, <2>2 DEF BookingRow
    <2> QED
      BY <2>1, <2>2
  <1>3. CASE booking[b].fee # "DUE" /\ booking' = [booking EXCEPT ![b] = mid]
    <2> HIDE DEF mid
    <2>1. RowSound(mid)
      BY <1>1, <1>2, <1>3 DEF RowSound
    <2> QED
      BY <1>1, <1>2, <1>3, <2>1, Rewritten DEF Live
  <1>4. CASE booking[b].fee # "COLLECTED" /\ booking' = [booking EXCEPT ![b] = row]
    <2> HIDE DEF mid
    <2>1. row \in BookingRow /\ row.status = mid.status /\ row.fee = "NONE"
          /\ row.income = mid.income /\ row.slots = mid.slots /\ row.under = mid.under
      BY <1>2 DEF BookingRow
    <2> HIDE DEF row
    <2>2. RowSound(row)
      BY <1>1, <1>2, <1>4, <2>1 DEF RowSound
    <2> QED
      BY <1>1, <1>2, <1>4, <2>1, <2>2, Rewritten DEF Live
  <1>5. \/ booking[b].fee # "DUE" /\ booking' = [booking EXCEPT ![b] = mid]
        \/ booking[b].fee # "COLLECTED" /\ booking' = [booking EXCEPT ![b] = row]
    OBVIOUS
  <1> QED
    BY <1>3, <1>4, <1>5

LEMMA CancelSafe == ASSUME BookingsInv, NEW t \in Tasks, Cancel(t) PROVE BookingsInv'
  <1> DEFINE b == task[t].id
  <1>1. b \in Bookable /\ (booking[b].fee = "DUE" => task[t].fee = "DUE")
    BY DEF BookingsInv, TasksFit, TaskFits, Cancel
  <1>2. CASE booking[b].status \notin Live
    BY <1>2, NothingWritten DEF Cancel
  <1>3. CASE booking[b].status \in Live /\ booking[b].fee = "DUE"
    <2>1. booking' = [booking EXCEPT ![b].status = "CANCELLED", ![b].fee = "NONE"]
      BY <1>1, <1>3 DEF Cancel
    <2> HIDE DEF b
    <2> QED
      BY <1>1, <1>3, <2>1, CloseSafe DEF Cancel
  <1>4. CASE booking[b].status \in Live /\ booking[b].fee # "DUE"
    <2>1. booking' = [booking EXCEPT ![b].status = "CANCELLED", ![b].fee = @]
      BY <1>1, <1>4 DEF Cancel
    <2>2. booking' = [booking EXCEPT ![b].status = "CANCELLED"]
      BY <1>1, <2>1, RowTyped DEF BookingRow
    <2> HIDE DEF b
    <2> QED
      BY <1>1, <1>4, <2>2, CloseSafe DEF Cancel
  <1> QED
    BY <1>2, <1>3, <1>4

LEMMA RejectSafe == ASSUME BookingsInv, NEW t \in Tasks, RejectRequest(t) PROVE BookingsInv'
  <1> DEFINE b == task[t].id
  <1>1. b \in Bookable /\ (booking[b].fee = "DUE" => task[t].fee = "DUE") /\ RowSound(booking[b])
    BY RowTyped DEF BookingsInv, TasksFit, TaskFits, RejectRequest
  <1>2. CASE booking[b].status # "PENDING"
    BY <1>2, NothingWritten DEF RejectRequest
  <1>3. CASE booking[b].status = "PENDING" /\ task[t].fee = "DUE"
    <2>1. booking' = [booking EXCEPT ![b].status = "REJECTED", ![b].fee = "NONE"]
      BY <1>1, <1>3 DEF RejectRequest
    <2>2. booking[b].fee # "COLLECTED"
      BY <1>1, <1>3 DEF RowSound
    <2> HIDE DEF b
    <2> QED
      BY <1>1, <1>3, <2>1, <2>2, CloseSafe DEF RejectRequest, Live
  <1>4. CASE booking[b].status = "PENDING" /\ task[t].fee # "DUE"
    <2>1. booking' = [booking EXCEPT ![b].status = "REJECTED", ![b].fee = @]
      BY <1>1, <1>4 DEF RejectRequest
    <2>2. booking' = [booking EXCEPT ![b].status = "REJECTED"]
      BY <1>1, <2>1, RowTyped DEF BookingRow
    <2> HIDE DEF b
    <2> QED
      BY <1>1, <1>4, <2>2, CloseSafe DEF RejectRequest, Live
  <1> QED
    BY <1>2, <1>3, <1>4

\* The request that counted keeps the lock, since nobody else held it.
LEMMA CountSafe == ASSUME BookingsInv, NEW t \in Tasks, CountHeld(t) PROVE BookingsInv'
  <1>1. CASE Finished(t)
    BY <1>1, NothingWritten DEF CountHeld, CountUnlocked
  <1>2. CASE Fits(t) /\ task' = [task EXCEPT ![t].op = "insert"]
    <2> DEFINE q == task[t]
               r == [q EXCEPT !.op = "insert"]
    <2>1. DOMAIN q = {"op", "id", "flat", "slots", "rules", "fee"} /\ q.op = "book" /\ TaskFits(q)
      BY DEF BookingsInv, TasksFit, TaskFits, NoTask, CountHeld, CountUnlocked
    <2>2. UNCHANGED <<rules, booking>> /\ DOMAIN task' = Tasks /\ task'[t] = r
          /\ \A u \in Tasks : u # t => task'[u] = task[u]
      BY <1>2 DEF BookingsInv, TasksFit, CountHeld, CountUnlocked
    <2>3. /\ DOMAIN r = DOMAIN q /\ r.op = "insert" /\ r.flat = q.flat
          /\ r.slots = q.slots /\ r.rules = q.rules
      BY <2>1
    <2>4. Cardinality(Held(q.slots)) < q.rules.capacity
      BY <1>2 DEF Fits
    <2> HIDE DEF q, r
    <2>5. TaskFits(r)
      BY <2>1, <2>3 DEF TaskFits
    <2>6. /\ TasksFit' /\ AllBeside' /\ FeeMatchesMoney' /\ PendingUnpaid'
          /\ \A S : Held(S)' = Held(S)
      BY <2>2, <2>5 DEF BookingsInv, TasksFit, TaskFits, AllBeside, Beside, FeeMatchesMoney, PendingUnpaid, Held
    <2>7. \A u \in Tasks : u # t => task'[u].op # "insert"
      BY <2>2 DEF CountHeld, Locked
    <2>8. Counted' /\ OneInserts'
      BY <2>2, <2>3, <2>4, <2>6, <2>7 DEF Counted, OneInserts
    <2> QED
      BY <2>2, <2>3, <2>6, <2>8 DEF BookingsInv, BookingsTypeOK
  <1> QED
    BY <1>1, <1>2 DEF CountHeld, CountUnlocked

LEMMA BookSafe == ASSUME BookingsInv, NEW t \in Tasks, Book(t) PROVE BookingsInv'
  <1> DEFINE b == CHOOSE b \in Bookable : booking[b].status = "none"
             q == task[t]
             stands == IF q.rules.approval THEN "PENDING" ELSE "CONFIRMED"
             fee == IF q.rules.fee THEN "DUE" ELSE "NONE"
             row == [status |-> stands, flat |-> q.flat, slots |-> q.slots, fee |-> fee,
                     under |-> q.rules.capacity, income |-> 0]
  <1>1. b \in Bookable /\ booking[b].status = "none"
    BY DEF Book
  <1>2. q.flat \in Flats /\ q.slots \in Times /\ q.rules \in RuleSets
        /\ q.rules.capacity \in Nat
    BY BookingsAssumption DEF BookingsInv, TasksFit, TaskFits, Book
  <1>3. booking' = [booking EXCEPT ![b] = row] /\ Finished(t) /\ UNCHANGED rules
    BY DEF Book
  <1>4. Cardinality(Held(q.slots)) < q.rules.capacity
    BY DEF Book, BookingsInv, Counted
  <1>5. stands \in {"PENDING", "CONFIRMED"} /\ fee \in {"DUE", "NONE"}
    OBVIOUS
  <1> HIDE DEF stands, fee
  <1>6. row = [status |-> stands, flat |-> q.flat, slots |-> q.slots, fee |-> fee,
               under |-> q.rules.capacity, income |-> 0]
    OBVIOUS
  <1> HIDE DEF row, b, q
  <1>7. row \in BookingRow /\ RowSound(row) /\ row.status # "none"
    BY <1>2, <1>5, <1>6 DEF BookingRow, RowSound
  <1>8. /\ booking' \in [Bookable -> BookingRow]
        /\ booking'[b] = row /\ \A x \in Bookable : x # b => booking'[x] = booking[x]
        /\ FeeMatchesMoney' /\ PendingUnpaid'
        /\ \A r : TaskFits(r) => TaskFits(r)'
    BY <1>1, <1>3, <1>7, BookingWritten
  <1>9. AllBeside'
    <2>1. DOMAIN booking = Bookable /\ DOMAIN booking' = Bookable
      BY <1>8 DEF BookingsInv, BookingsTypeOK
    <2> QED
      BY <1>1, <1>2, <1>4, <1>6, <1>8, <2>1, Accepting DEF BookingsInv, Live
  <1>10. TasksFit' /\ \A u \in Tasks : task'[u].op \in {"none", "book", "insert", "cancel", "reject"}
    BY <1>3, <1>8, TasksGoOn DEF BookingsInv
  <1>11. Counted' /\ OneInserts'
    <2>1. \A u \in Tasks : task'[u].op # "insert"
      BY <1>3 DEF Book, BookingsInv, OneInserts, TasksFit, Finished, NoTask
    <2> QED
      BY <2>1 DEF Counted, OneInserts
  <1> QED
    BY <1>3, <1>8, <1>9, <1>10, <1>11 DEF BookingsInv, BookingsTypeOK

\* A request that is read begins with what it read.
LEMMA ReadSafe ==
    ASSUME BookingsInv, NEW t \in Tasks, NEW q, Read(t, q), TaskFits(q),
           q.op \in {"book", "cancel", "reject"}
    PROVE  BookingsInv'
  <1>1. \A r : TaskFits(r) => TaskFits(r)'
    BY DEF TaskFits, Read
  <1>2. TasksFit' /\ \A u \in Tasks : task'[u].op \in {"none", "book", "insert", "cancel", "reject"}
    BY <1>1 DEF BookingsInv, BookingsTypeOK, TasksFit, Read
  <1>3. AllBeside' /\ \A S : Held(S)' = Held(S)
    BY DEF BookingsInv, AllBeside, Beside, Held, Read
  <1>4. Counted' /\ OneInserts'
    BY <1>3 DEF BookingsInv, TasksFit, Counted, OneInserts, Read
  <1> QED
    BY <1>2, <1>3, <1>4 DEF BookingsInv, BookingsTypeOK, FeeMatchesMoney, PendingUnpaid, Read

LEMMA AskBookingSafe ==
    ASSUME BookingsInv, NEW t \in Tasks, AskBook(t) \/ \E b \in Bookable : AskCancel(t, b) \/ AskReject(t, b)
    PROVE  BookingsInv'
  <1>1. CASE AskBook(t)
    <2>1. PICK f \in Flats, s \in Times :
            Read(t, [NoTask EXCEPT !.op = "book", !.flat = f, !.slots = s, !.rules = rules])
      BY <1>1 DEF AskBook
    <2> DEFINE q == [NoTask EXCEPT !.op = "book", !.flat = f, !.slots = s, !.rules = rules]
    <2>2. TaskFits(q) /\ q.op = "book"
      BY DEF TaskFits, NoTask, BookingsInv, BookingsTypeOK
    <2> HIDE DEF q
    <2>3. Read(t, q)
      BY <2>1 DEF q
    <2> QED
      BY <2>2, <2>3, ReadSafe
  <1>2. ASSUME NEW b \in Bookable, AskCancel(t, b) PROVE BookingsInv'
    <2> DEFINE q == [NoTask EXCEPT !.op = "cancel", !.id = b, !.fee = booking[b].fee]
    <2>1. TaskFits(q) /\ q.op = "cancel"
      BY <1>2 DEF TaskFits, NoTask, AskCancel, Live
    <2> HIDE DEF q
    <2>2. Read(t, q)
      BY <1>2 DEF q, AskCancel
    <2> QED
      BY <2>1, <2>2, ReadSafe
  <1>3. ASSUME NEW b \in Bookable, AskReject(t, b) PROVE BookingsInv'
    <2> DEFINE q == [NoTask EXCEPT !.op = "reject", !.id = b, !.fee = booking[b].fee]
    <2>1. TaskFits(q) /\ q.op = "reject"
      BY <1>3 DEF TaskFits, NoTask, AskReject
    <2> HIDE DEF q
    <2>2. Read(t, q)
      BY <1>3 DEF q, AskReject
    <2> QED
      BY <2>1, <2>2, ReadSafe
  <1> QED
    BY <1>1, <1>2, <1>3

LEMMA UpdateSafe == ASSUME BookingsInv, UpdateAmenity PROVE BookingsInv'
  <1>1. \A q : TaskFits(q) => TaskFits(q)'
    BY DEF TaskFits, UpdateAmenity
  <1>2. TasksFit' /\ AllBeside'
    BY <1>1 DEF BookingsInv, TasksFit, AllBeside, Beside, Held, UpdateAmenity
  <1>3. Counted' /\ OneInserts'
    BY DEF Counted, OneInserts, UpdateAmenity, Locked
  <1> QED
    BY <1>2, <1>3 DEF BookingsInv, BookingsTypeOK, FeeMatchesMoney, PendingUnpaid, UpdateAmenity

LEMMA BookingsStart == BookingsInit => BookingsInv
  <1> SUFFICES ASSUME BookingsInit PROVE BookingsInv
    OBVIOUS
  <1>1. NoBooking \in BookingRow /\ RowSound(NoBooking)
    BY DEF NoBooking, BookingRow, RowSound
  <1>2. booking \in [Bookable -> BookingRow] /\ \A b \in Bookable : booking[b] = NoBooking
    BY <1>1 DEF BookingsInit
  <1>3. FeeMatchesMoney /\ PendingUnpaid
    BY <1>1, <1>2, RowsSound
  <1>4. \A S : Held(S) = {}
    BY <1>2 DEF Held, NoBooking, Live
  <1>5. AllBeside
    BY <1>4 DEF AllBeside, Beside
  <1>6. TasksFit /\ \A t \in Tasks : task[t].op = "none"
    BY DEF BookingsInit, TasksFit, TaskFits, NoTask
  <1>7. Counted /\ OneInserts
    BY <1>6 DEF Counted, OneInserts
  <1> QED
    BY <1>2, <1>3, <1>5, <1>6, <1>7 DEF BookingsInv, BookingsTypeOK, BookingsInit

LEMMA BookingsStepSafe == BookingsInv /\ [BookingsNext]_bookingVars => BookingsInv'
  <1> SUFFICES ASSUME BookingsInv, [BookingsNext]_bookingVars PROVE BookingsInv'
    OBVIOUS
  <1>1. CASE UNCHANGED bookingVars
    BY <1>1, NothingWritten DEF bookingVars
  <1> QED
    BY <1>1, UpdateSafe, AskBookingSafe, CountSafe, BookSafe, CancelSafe, RejectSafe, ApproveSafe, CollectFeeSafe,
       WaiveFeeSafe DEF BookingsNext

-----------------------------------------------------------------------------
\* The bookings, the rules and what requests read keep their types.
THEOREM BookingsTypeCorrect == BookingsSpec => []BookingsTypeOK
  BY BookingsStart, BookingsStepSafe, PTL DEF BookingsSpec, BookingsInv

\* AmenitiesService.book: however requests race, are decided, cancelled and the rules change,
\* a slot is never held by more bookings than one of them was accepted under.
THEOREM SlotsNotOversold == BookingsSpec => []NoDoubleBooking
  BY BookingsStart, BookingsStepSafe, Beside_NoDouble, PTL DEF BookingsSpec, BookingsInv

\* collectFee, waiveFee, cancel and reject: a fee is collected once, with its money, and a
\* closed booking owes none.
THEOREM FeeAsCollected == BookingsSpec => []FeeMatchesMoney
  BY BookingsStart, BookingsStepSafe, PTL DEF BookingsSpec, BookingsInv
-----------------------------------------------------------------------------
(* What a month charges.                                                   *)

MonthRule == [type : RuleTypes, amount : Int, base : Int]
Discount == [type : {"FIXED", "PERCENT"}, value : Nat, inForce : BOOLEAN]
Slab == [upTo : Int, rate : Int]
Reading == [rows : Nat, charge : Int, excess : Nat]

\* r starts as it is told and takes each step from the one before.
Stepped(r, n, A, first, step) ==
    r \in [0 .. n -> A] /\ r[0] = first /\ \A i \in 1 .. n : r[i] = step[i][r[i - 1]]

\* A value computed step by step from the one before, as a loop over a list does.
LEMMA StepByStep ==
    ASSUME NEW n \in Nat, NEW A, NEW first \in A, NEW step \in [1 .. n -> [A -> A]]
    PROVE  \E r : Stepped(r, n, A, first, step)
  <1> DEFINE Reached(r, k) == r[0] = first /\ \A i \in 1 .. k : r[i] = step[i][r[i - 1]]
             N == {k \in Nat : k <= n => \E r \in [0 .. k -> A] : Reached(r, k)}
  <1>1. 0 \in N
    <2>1. [i \in 0 .. 0 |-> first] \in [0 .. 0 -> A] /\ Reached([i \in 0 .. 0 |-> first], 0)
      OBVIOUS
    <2> QED
      BY <2>1
  <1>2. ASSUME NEW k \in Nat, k \in N PROVE k + 1 \in N
    <2> SUFFICES ASSUME k + 1 <= n PROVE \E r \in [0 .. k + 1 -> A] : Reached(r, k + 1)
      OBVIOUS
    <2>1. PICK r \in [0 .. k -> A] : Reached(r, k)
      BY <1>2
    <2> DEFINE s == [i \in 0 .. k + 1 |-> IF i = k + 1 THEN step[k + 1][r[k]] ELSE r[i]]
    <2>2. step[k + 1] \in [A -> A] /\ r[k] \in A
      OBVIOUS
    <2>3. s \in [0 .. k + 1 -> A]
      BY <2>2
    <2>4. s[k + 1] = step[k + 1][r[k]] /\ \A i \in 0 .. k : s[i] = r[i]
      OBVIOUS
    <2> HIDE DEF s
    <2>5. s[0] = first
      BY <2>1, <2>4
    <2>6. ASSUME NEW i \in 1 .. k + 1 PROVE s[i] = step[i][s[i - 1]]
      <3>1. CASE i = k + 1
        BY <2>4, <3>1
      <3>2. CASE i # k + 1
        <4>1. i \in 1 .. k /\ i \in 0 .. k /\ i - 1 \in 0 .. k
          BY <3>2
        <4> QED
          BY <2>1, <2>4, <4>1
      <3> QED
        BY <3>1, <3>2
    <2> QED
      BY <2>3, <2>5, <2>6
  <1>3. n \in N
    <2> HIDE DEF N
    <2> QED
      BY <1>1, <1>2, NatSetInduction
  <1> QED
    BY <1>3 DEF Stepped

LEMMA RoundNatural == ASSUME NEW n \in Nat, NEW d \in Nat \ {0} PROVE Round(n, d) \in Nat
  BY DEF Round

LEMMA RoundInt == ASSUME NEW n \in Int, NEW d \in Nat \ {0} PROVE Round(n, d) \in Int
  BY DEF Round

\* Rounding errs by half at most.
LEMMA RoundNear ==
    ASSUME NEW n \in Nat, NEW d \in Nat \ {0}
    PROVE  Round(n, d) \in Nat /\ 2 * (d * Round(n, d)) <= 2 * n + d /\ 2 * n - d <= 2 * (d * Round(n, d))
  <1> DEFINE m == 2 * n + d
             e == 2 * d
             q == m \div e
  <1>1. m \in Nat /\ e \in Nat \ {0} /\ Round(n, d) = q
    BY DEF Round
  <1>2. q \in Nat /\ e * q <= m /\ m < e * q + e
    <2> HIDE DEF m, e
    <2> QED
      BY <1>1
  <1>3. e * q = 2 * (d * q)
    BY <1>2
  <1> HIDE DEF q
  <1> QED
    BY <1>1, <1>2, <1>3

-----------------------------------------------------------------------------
(* Discounts.                                                              *)

Taking(taken, given, base) ==
    taken = [i \in 0..Len(given) |->
                IF i = 0 THEN 0
                ELSE LET room == base - taken[i - 1]
                     IN taken[i - 1] + (IF room > 0 THEN Least(InForce(given[i], base), room) ELSE 0)]

LEMMA DiscountUnfolded ==
    ASSUME NEW given, NEW base
    PROVE  DiscountFor(given, base) = (CHOOSE taken : Taking(taken, given, base))[Len(given)]
  BY DEF DiscountFor, Taking

LEMMA OffTyped ==
    ASSUME NEW d \in Discount, NEW base \in Int
    PROVE  InForce(d, base) \in Int /\ (base > 0 => InForce(d, base) \in Nat)
  <1>1. d.value \in Nat /\ d.type \in {"FIXED", "PERCENT"} /\ base * d.value \in Int
    BY DEF Discount
  <1>2. Round(base * d.value, 100) \in Int
    BY <1>1, RoundInt
  <1>3. base > 0 => Round(base * d.value, 100) \in Nat
    <2>1. base > 0 => base * d.value \in Nat
      BY <1>1
    <2> QED
      BY <2>1, RoundNatural
  <1> QED
    BY <1>1, <1>2, <1>3 DEF InForce, Off

\* What has been taken once v more is to be taken.
Taken(k, v, base) == k + (IF base - k > 0 THEN Least(v, base - k) ELSE 0)

LEMMA TakingIs ==
    ASSUME NEW taken, NEW given, NEW base
    PROVE  Taking(taken, given, base) <=>
              taken = [i \in 0 .. Len(given) |->
                          IF i = 0 THEN 0 ELSE Taken(taken[i - 1], InForce(given[i], base), base)]
  BY DEF Taking, Taken

LEMMA TakingExists ==
    ASSUME NEW given \in Seq(Discount), NEW base \in Int
    PROVE  \E taken : Taking(taken, given, base)
  <1> DEFINE n == Len(given)
             step == [i \in 1 .. n |-> [k \in Int |-> Taken(k, InForce(given[i], base), base)]]
  <1>1. \A i \in 1 .. n : InForce(given[i], base) \in Int
    <2>1. \A i \in 1 .. n : given[i] \in Discount
      OBVIOUS
    <2> QED
      BY <2>1, OffTyped
  <1>2. \A k, v \in Int : Taken(k, v, base) \in Int
    BY DEF Taken, Least
  <1>3. n \in Nat /\ 0 \in Int /\ step \in [1 .. n -> [Int -> Int]]
    <2>1. ASSUME NEW i \in 1 .. n
          PROVE  [k \in Int |-> Taken(k, InForce(given[i], base), base)] \in [Int -> Int]
      BY <1>1, <1>2
    <2> QED
      BY <2>1
  <1>4. \A i \in 1 .. n : \A k \in Int : step[i][k] = Taken(k, InForce(given[i], base), base)
    OBVIOUS
  <1> HIDE DEF step, n
  <1>a. PICK r : Stepped(r, n, Int, 0, step)
    BY <1>3, StepByStep
  <1>5. r \in [0 .. n -> Int] /\ r[0] = 0 /\ \A i \in 1 .. n : r[i] = step[i][r[i - 1]]
    BY <1>a DEF Stepped
  <1>6. ASSUME NEW i \in 1 .. n PROVE r[i] = Taken(r[i - 1], InForce(given[i], base), base)
    <2>1. r[i - 1] \in Int
      BY <1>3, <1>5
    <2> QED
      BY <1>4, <1>5, <2>1
  <1>7. \A i \in 0 .. n : i = 0 \/ i \in 1 .. n
    BY <1>3
  <1>8. r = [i \in 0 .. n |-> IF i = 0 THEN 0 ELSE Taken(r[i - 1], InForce(given[i], base), base)]
    BY <1>5, <1>6, <1>7
  <1> QED
    BY <1>8, TakingIs DEF n

\* The sum of g is that of f and c more.
Comes(g, f, c) == SumOver(g) = SumOver(f) + c

LEMMA SumComes ==
    ASSUME NEW S, IsFiniteSet(S), NEW x, x \notin S, NEW f \in [S -> Int], NEW g \in [S \cup {x} -> Int],
           \A y \in S : g[y] = f[y]
    PROVE  Comes(g, f, g[x])
  BY SumInsert DEF Comes

\* The sum of the first amounts of a list, one at a time.
LEMMA OneMoreAdded ==
    ASSUME NEW n \in Nat, NEW v \in [1 .. n -> Int], NEW i \in Nat, i + 1 \in 1 .. n
    PROVE  SumOver([j \in 1 .. (i + 1) |-> v[j]]) = SumOver([j \in 1 .. i |-> v[j]]) + v[i + 1]
  <1>1. PICK x, S, f, g : /\ x = i + 1 /\ S = 1 .. i
                          /\ f = [j \in 1 .. i |-> v[j]] /\ g = [j \in 1 .. (i + 1) |-> v[j]]
    OBVIOUS
  <1>2. IsFiniteSet(S)
    BY <1>1, FS_Interval
  <1>3. x \notin S /\ S \cup {x} = 1 .. (i + 1)
    BY <1>1
  <1>4. f \in [S -> Int] /\ g \in [S \cup {x} -> Int] /\ (\A y \in S : g[y] = f[y]) /\ g[x] = v[i + 1]
    BY <1>1, <1>3
  <1>5. x \notin S
    BY <1>3
  <1>6. Comes(g, f, g[x])
    BY <1>2, <1>4, <1>5, SumComes
  <1> QED
    BY <1>1, <1>4, <1>6 DEF Comes

\* One after another, the discounts take together all of them or all there is.
LEMMA DiscountIs ==
    ASSUME NEW given \in Seq(Discount), NEW base \in Int
    PROVE  /\ DiscountUncapped(given, base) \in Int
           /\ DiscountFor(given, base) = IF base > 0 THEN Least(base, DiscountUncapped(given, base)) ELSE 0
           /\ DiscountFor(given, base) \in Nat /\ (base > 0 => DiscountFor(given, base) <= base)
           /\ (base <= 0 => DiscountFor(given, base) = 0)
  <1>0. PICK n, t, v : /\ n = Len(given) /\ t = (CHOOSE taken : Taking(taken, given, base))
                       /\ v = [i \in 1 .. n |-> InForce(given[i], base)]
    OBVIOUS
  <1> DEFINE Up(i) == SumOver([j \in 1 .. i |-> v[j]])
             Capped(i) == IF base > 0 THEN Least(base, Up(i)) ELSE 0
             N == {i \in Nat : i <= n => t[i] = Capped(i) /\ Up(i) \in Int /\ (base > 0 => Up(i) \in Nat)}
  <1>1. n \in Nat /\ v \in [1 .. n -> Int] /\ \A i \in 1 .. n : base > 0 => v[i] \in Nat
    <2>1. \A i \in 1 .. n : given[i] \in Discount
      BY <1>0
    <2>2. \A i \in 1 .. n : InForce(given[i], base) \in Int /\ (base > 0 => InForce(given[i], base) \in Nat)
      BY <2>1, OffTyped
    <2> QED
      BY <1>0, <2>2
  <1>2. t[0] = 0 /\ \A i \in 1 .. n : t[i] = Taken(t[i - 1], v[i], base)
    <2>1. Taking(t, given, base)
      BY <1>0, TakingExists
    <2>2. t = [i \in 0 .. n |-> IF i = 0 THEN 0 ELSE Taken(t[i - 1], InForce(given[i], base), base)]
      BY <1>0, <2>1, TakingIs
    <2>3. \A i \in 1 .. n : i \in 0 .. n /\ i # 0 /\ v[i] = InForce(given[i], base)
      BY <1>0, <1>1
    <2>4. 0 \in 0 .. n
      BY <1>1
    <2> QED
      BY <2>2, <2>3, <2>4
  <1>3. DiscountFor(given, base) = t[n] /\ DiscountUncapped(given, base) = Up(n)
    <2>1. [i \in DOMAIN given |-> InForce(given[i], base)] = [j \in 1 .. n |-> v[j]]
      BY <1>0
    <2> QED
      BY <1>0, <2>1, DiscountUnfolded DEF DiscountUncapped
  <1>4. 0 \in N
    <2>1. Up(0) = 0
      BY SumEmpty
    <2> QED
      BY <1>2, <2>1 DEF Least
  <1>5. ASSUME NEW i \in Nat, i \in N PROVE i + 1 \in N
    <2> SUFFICES ASSUME i + 1 <= n
                 PROVE  t[i + 1] = Capped(i + 1) /\ Up(i + 1) \in Int /\ (base > 0 => Up(i + 1) \in Nat)
      OBVIOUS
    <2>1. t[i] = Capped(i) /\ Up(i) \in Int /\ (base > 0 => Up(i) \in Nat)
      BY <1>1, <1>5
    <2>2. i + 1 \in 1 .. n /\ v[i + 1] \in Int /\ (base > 0 => v[i + 1] \in Nat)
      BY <1>1
    <2>3. Up(i + 1) = Up(i) + v[i + 1]
      BY <1>1, <2>2, OneMoreAdded
    <2>4. t[i + 1] = Taken(t[i], v[i + 1], base)
      BY <1>2, <2>2
    <2> HIDE DEF Up
    <2> QED
      BY <2>1, <2>2, <2>3, <2>4 DEF Taken, Least
  <1>6. n \in N
    <2> HIDE DEF N
    <2> QED
      BY <1>1, <1>4, <1>5, NatSetInduction
  <1>7. t[n] = Capped(n) /\ Up(n) \in Int /\ (base > 0 => Up(n) \in Nat)
    BY <1>1, <1>6
  <1> HIDE DEF Up
  <1> QED
    BY <1>3, <1>7 DEF Least

-----------------------------------------------------------------------------
(* Prices and bills.                                                       *)

Poured(after, u, slabs) ==
    LET inSlab(a, slab) == LET n == Least(a.left, slab.upTo)
                           IN [left |-> a.left - n, amount |-> a.amount + n * slab.rate, rate |-> slab.rate]
    IN after = [i \in 0..Len(slabs) |-> IF i = 0 THEN [left |-> u, amount |-> 0, rate |-> 0]
                                        ELSE IF after[i - 1].left <= 0 THEN after[i - 1]
                                        ELSE inSlab(after[i - 1], slabs[i])]

\* What is left once one more slab took its units.
Pour(a, slab) == IF a.left <= 0 THEN a
                 ELSE [left |-> a.left - Least(a.left, slab.upTo),
                       amount |-> a.amount + Least(a.left, slab.upTo) * slab.rate, rate |-> slab.rate]
Jug == [left : Nat, amount : Int, rate : Int]

LEMMA PourTyped == ASSUME NEW a \in Jug, NEW slab \in Slab PROVE Pour(a, slab) \in Jug
  <1>1. a.left \in Nat /\ a.amount \in Int /\ slab.upTo \in Int /\ slab.rate \in Int
    BY DEF Jug, Slab
  <1>2. Least(a.left, slab.upTo) \in Int /\ a.left - Least(a.left, slab.upTo) \in Nat
    BY <1>1 DEF Least
  <1>3. Least(a.left, slab.upTo) * slab.rate \in Int
    BY <1>1, <1>2
  <1> QED
    BY <1>1, <1>2, <1>3 DEF Pour, Jug

LEMMA PouredIs ==
    ASSUME NEW after, NEW u, NEW slabs
    PROVE  Poured(after, u, slabs) <=>
              after = [i \in 0 .. Len(slabs) |-> IF i = 0 THEN [left |-> u, amount |-> 0, rate |-> 0]
                                                 ELSE Pour(after[i - 1], slabs[i])]
  BY DEF Poured, Pour

LEMMA PouredTyped ==
    ASSUME NEW u \in Nat, NEW slabs \in Seq(Slab)
    PROVE  (CHOOSE after : Poured(after, u, slabs))[Len(slabs)] \in Jug
  <1> DEFINE full == [left |-> u, amount |-> 0, rate |-> 0]
             n == Len(slabs)
             step == [i \in 1 .. n |-> [a \in Jug |-> Pour(a, slabs[i])]]
  <1>0. full \in Jug /\ n \in Nat
    BY DEF Jug
  <1>1. \A i \in 1 .. n : slabs[i] \in Slab
    OBVIOUS
  <1>2. step \in [1 .. n -> [Jug -> Jug]]
    <2>1. ASSUME NEW i \in 1 .. n PROVE [a \in Jug |-> Pour(a, slabs[i])] \in [Jug -> Jug]
      BY <1>1, PourTyped
    <2> QED
      BY <2>1
  <1>3. \A i \in 1 .. n : \A a \in Jug : step[i][a] = Pour(a, slabs[i])
    OBVIOUS
  <1>4. \E after : Poured(after, u, slabs)
    <2> HIDE DEF step, n, full
    <2>1. PICK r : Stepped(r, n, Jug, full, step)
      BY <1>0, <1>2, StepByStep
    <2>2. r \in [0 .. n -> Jug] /\ r[0] = full /\ \A i \in 1 .. n : r[i] = step[i][r[i - 1]]
      BY <2>1 DEF Stepped
    <2>3. ASSUME NEW i \in 1 .. n PROVE r[i] = Pour(r[i - 1], slabs[i])
      <3>1. r[i - 1] \in Jug
        BY <1>0, <2>2
      <3> QED
        BY <1>3, <2>2, <3>1
    <2>4. \A i \in 0 .. n : i = 0 \/ i \in 1 .. n
      BY <1>0
    <2>5. r = [i \in 0 .. n |-> IF i = 0 THEN full ELSE Pour(r[i - 1], slabs[i])]
      BY <2>2, <2>3, <2>4
    <2> QED
      BY <2>5, PouredIs DEF n, full
  <1>5. PICK t, k : t = (CHOOSE after : Poured(after, u, slabs)) /\ k = n
    OBVIOUS
  <1>6. t = [i \in 0 .. k |-> IF i = 0 THEN full ELSE Pour(t[i - 1], slabs[i])]
    BY <1>4, <1>5, PouredIs
  <1> DEFINE N == {i \in Nat : i <= k => t[i] \in Jug}
  <1> HIDE DEF full, n
  <1>7. k \in Nat /\ \A i \in 1 .. k : slabs[i] \in Slab
    BY <1>0, <1>1, <1>5
  <1>8. t[0] = full /\ \A i \in 1 .. k : t[i] = Pour(t[i - 1], slabs[i])
    <2>1. 0 \in 0 .. k /\ \A i \in 1 .. k : i \in 0 .. k /\ i # 0
      BY <1>7
    <2> QED
      BY <1>6, <2>1
  <1>9. 0 \in N
    BY <1>0, <1>8
  <1>10. ASSUME NEW i \in Nat, i \in N PROVE i + 1 \in N
    <2> SUFFICES ASSUME i + 1 <= k PROVE t[i + 1] \in Jug
      OBVIOUS
    <2>1. t[i] \in Jug /\ i + 1 \in 1 .. k /\ i + 1 - 1 = i
      BY <1>7, <1>10
    <2>2. t[i + 1] = Pour(t[i], slabs[i + 1]) /\ slabs[i + 1] \in Slab
      BY <1>7, <1>8, <2>1
    <2> QED
      BY <2>1, <2>2, PourTyped
  <1>11. k \in N
    <2> HIDE DEF N
    <2> QED
      BY <1>7, <1>9, <1>10, NatSetInduction
  <1> QED
    BY <1>5, <1>7, <1>11 DEF n

LEMMA PriceWhole == ASSUME NEW u \in Uses, NEW t \in Tariffs PROVE ReadingPrice(u, t) \in Int
  <1>0. /\ u \in Nat /\ t.model \in PriceModels /\ t.rate \in Int /\ t.fixed \in Int /\ t.free \in Int
        /\ t.slabs \in Seq(Slab)
    BY ChargesAssumption DEF Slab
  <1> DEFINE s == (CHOOSE after : Poured(after, u, t.slabs))[Len(t.slabs)]
  <1>1. s \in Jug
    BY <1>0, PouredTyped
  <1>2. ReadingPrice(u, t) =
            CASE t.model = "PER_LITRE"        -> 1000 * u * t.rate
              [] t.model = "PER_KL"           -> u * t.rate
              [] t.model = "FIXED_CHARGE"     -> t.fixed
              [] t.model = "FIXED_PLUS_USAGE" -> t.fixed + (IF u > t.free THEN (u - t.free) * t.rate ELSE 0)
              [] t.model = "SLAB_BASED"       -> s.amount + s.left * s.rate
    BY DEF ReadingPrice, Poured
  <1> HIDE DEF s
  <1>3. s.amount \in Int /\ s.left \in Int /\ s.rate \in Int
    BY <1>1 DEF Jug
  <1>4. \A m, n \in Int : m * n \in Int
    OBVIOUS
  <1>5. 1000 * u \in Int /\ u - t.free \in Int
    BY <1>0
  <1>6. (1000 * u) * t.rate \in Int /\ u * t.rate \in Int /\ (u - t.free) * t.rate \in Int
    BY <1>0, <1>4, <1>5
  <1>7. s.amount + s.left * s.rate \in Int
    BY <1>3, <1>4
  <1> HIDE <1>4
  <1> QED
    BY <1>0, <1>2, <1>6, <1>7 DEF PriceModels

\* One line more, if there is an amount for it.
WithLine(f, S, X, c) == [l \in S \cup X |-> IF l \in X THEN c ELSE f[l]]

LEMMA OneLineMore ==
    ASSUME NEW S, IsFiniteSet(S), NEW f \in [S -> Int], NEW x, x \notin S, NEW c \in Int,
           NEW X \in SUBSET {x}, X = {} => c = 0
    PROVE  LET g == WithLine(f, S, X, c)
           IN  IsFiniteSet(S \cup X) /\ g \in [S \cup X -> Int] /\ Comes(g, f, c)
  <1>1. SumOver(f) \in Int /\ IsFiniteSet(S \cup {x})
    BY SumType, FS_AddElement
  <1>2. PICK g : g = WithLine(f, S, X, c)
    OBVIOUS
  <1>3. CASE X = {x}
    <2>1. g \in [S \cup {x} -> Int] /\ g[x] = c /\ \A y \in S : g[y] = f[y]
      BY <1>2, <1>3 DEF WithLine
    <2>2. Comes(g, f, g[x])
      BY <2>1, SumComes
    <2> QED
      BY <1>1, <1>2, <1>3, <2>1, <2>2
  <1>4. CASE X = {}
    <2>1. g = f
      BY <1>2, <1>4 DEF WithLine
    <2>2. S \cup X = S
      BY <1>4
    <2> QED
      BY <1>1, <1>2, <1>4, <2>1, <2>2 DEF Comes
  <1> QED
    BY <1>3, <1>4

\* A bill's lines are its items, its water if that is more than nothing, and its discount.
LEMMA LinesAdd ==
    ASSUME NEW D \in SUBSET (Nat \ {0}), IsFiniteSet(D), NEW items \in [D -> Int],
           NEW drawn \in Int, NEW off \in Nat
    PROVE  SumOver(Lines(items, drawn, off)) = SumOver(items) + (drawn - Least(drawn, 0)) - off
  <1> DEFINE Wet == IF drawn > 0 THEN {WaterLine} ELSE {}
             Cut == IF off > 0 THEN {DiscountLine} ELSE {}
             W == D \cup Wet
             wet == drawn - Least(drawn, 0)
             some == WithLine(items, D, Wet, wet)
             less == -off
             all == WithLine(some, W, Cut, less)
  <1>1. /\ WaterLine \notin D /\ Wet \in SUBSET {WaterLine} /\ (Wet = {} => wet = 0) /\ wet \in Int
        /\ DiscountLine \notin W /\ Cut \in SUBSET {DiscountLine} /\ (Cut = {} => less = 0) /\ less \in Int
    BY DEF WaterLine, DiscountLine, Least
  <1>2. all = Lines(items, drawn, off)
    <2>1. drawn > 0 => wet = drawn
      BY DEF Least
    <2> HIDE DEF wet
    <2> QED
      BY <2>1 DEF Lines, WithLine, WaterLine, DiscountLine
  <1> HIDE DEF Wet, Cut, less, wet
  <1>3. IsFiniteSet(W) /\ some \in [W -> Int] /\ Comes(some, items, wet)
    BY <1>1, OneLineMore
  <1> HIDE DEF some, W
  <1>4. Comes(all, some, less)
    BY <1>1, <1>3, OneLineMore
  <1>5. SumOver(items) \in Int /\ less = -off /\ wet = drawn - Least(drawn, 0) /\ wet \in Int
    BY <1>1, SumType DEF less, wet
  <1> HIDE DEF all
  <1> QED
    BY <1>2, <1>3, <1>4, <1>5 DEF Comes

-----------------------------------------------------------------------------
(* Water.                                                                  *)

SumRows(w) == SumOver([f \in Homes |-> w[f].rows])
SumCharge(w) == SumOver([f \in Homes |-> w[f].charge])
SumExcess(w) == SumOver([f \in Homes |-> w[f].excess])
Apart(w, c) == SumCharge(w) - SumExcess(w) - c

\* The readings w cost c, to k halves of a paisa for each.
PaysFor(w, c, k) == -(k * SumRows(w)) <= 2 * Apart(w, c) /\ 2 * Apart(w, c) <= k * SumRows(w)
Halves(lim) == IF lim.mode = "none" THEN 1 ELSE 2

LEMMA SumsTyped ==
    ASSUME NEW w \in [Homes -> Reading]
    PROVE  /\ SumRows(w) \in Nat /\ SumCharge(w) \in Int /\ SumExcess(w) \in Nat
           /\ [f \in Homes |-> w[f].rows] \in [Homes -> Nat]
           /\ [f \in Homes |-> w[f].charge] \in [Homes -> Int]
           /\ [f \in Homes |-> w[f].excess] \in [Homes -> Nat]
  <1>1. /\ [f \in Homes |-> w[f].rows] \in [Homes -> Nat]
        /\ [f \in Homes |-> w[f].charge] \in [Homes -> Int]
        /\ [f \in Homes |-> w[f].excess] \in [Homes -> Nat]
    BY DEF Reading
  <1>2. IsFiniteSet(Homes)
    BY ChargesAssumption
  <1> QED
    BY <1>1, <1>2, SumNatural, SumType DEF SumRows, SumCharge, SumExcess

LEMMA WaterIs ==
    ASSUME water \in [Homes -> Reading]
    PROVE  WaterPaysForItself <=> PaysFor(water, cost, Halves(limit))
  <1>1. SumRows(water) \in Nat
    BY SumsTyped
  <1>2. WaterPaysForItself <=>
            LET slack == IF limit.mode = "none" THEN SumRows(water) ELSE 2 * SumRows(water)
            IN -slack <= 2 * Apart(water, cost) /\ 2 * Apart(water, cost) <= slack
    BY DEF WaterPaysForItself, SumRows, SumCharge, SumExcess, Apart
  <1> QED
    BY <1>1, <1>2 DEF PaysFor, Halves

ShareFits(w, u, total, p, k) ==
    /\ w \in Reading /\ w.rows = 1
    /\ -(k * total) <= 2 * (total * (w.charge - w.excess)) - 2 * (p * u)
    /\ 2 * (total * (w.charge - w.excess)) - 2 * (p * u) <= k * total

\* What a flat pays for its units is its part of the cost, to the halves that were rounded.
LEMMA ShareNear ==
    ASSUME NEW u \in Nat, NEW total \in Nat \ {0}, NEW p \in Nat, NEW lim \in Limits
    PROVE  ShareFits(WaterCharge(u, total, p, lim), u, total, p, Halves(lim))
  <1>0. lim.mode \in {"none", "PERCENT", "PER_UNIT", "ONE_TIME"} /\ lim.units \in Nat /\ lim.value \in Nat
    BY ChargesAssumption
  <1> DEFINE scale == 100 * total
             over  == Over(u, lim)
             extra == CASE lim.mode = "PERCENT"  -> over * p * lim.value
                        [] lim.mode = "PER_UNIT" -> over * lim.value * scale
                        [] lim.mode = "ONE_TIME" /\ over > 0 -> lim.value * scale
                        [] OTHER -> 0
             n == 100 * p * u + extra
             c == Round(n, scale)
             x == Round(extra, scale)
  <1>1. WaterCharge(u, total, p, lim) = [rows |-> 1, charge |-> c, excess |-> x]
    BY DEF WaterCharge
  <1>2. \A m, k \in Nat : m * k \in Nat
    OBVIOUS
  <1>3. over \in Nat /\ scale \in Nat \ {0}
    BY <1>0 DEF Over
  <1>4. extra \in Nat /\ (lim.mode = "none" => extra = 0)
    <2> HIDE DEF over, scale
    <2>1. over * p \in Nat /\ over * lim.value \in Nat /\ lim.value * scale \in Nat
      BY <1>0, <1>2, <1>3
    <2>2. (over * p) * lim.value \in Nat /\ (over * lim.value) * scale \in Nat
      BY <1>0, <1>2, <1>3, <2>1
    <2> QED
      BY <1>0, <2>1, <2>2
  <1>5. p * u \in Nat /\ 100 * p * u = 100 * (p * u) /\ n \in Nat
    <2>1. p * u \in Nat /\ 100 * p * u = 100 * (p * u)
      BY <1>2
    <2> QED
      BY <1>4, <2>1
  <1> HIDE DEF extra, over
  <1>6. /\ c \in Nat /\ 2 * (scale * c) <= 2 * n + scale /\ 2 * n - scale <= 2 * (scale * c)
        /\ x \in Nat /\ 2 * (scale * x) <= 2 * extra + scale /\ 2 * extra - scale <= 2 * (scale * x)
    <2> HIDE DEF n, scale
    <2> QED
      BY <1>3, <1>4, <1>5, RoundNear
  <1> HIDE DEF c, x
  <1>7. scale * c = 100 * (total * c) /\ scale * x = 100 * (total * x)
        /\ total * (c - x) = total * c - total * x /\ total * c \in Nat /\ total * x \in Nat
    BY <1>6
  <1>8. lim.mode = "none" => total * x = 0
    <2>1. lim.mode = "none" => 2 * (total * x) <= total
      BY <1>4, <1>6, <1>7
    <2>2. x >= 1 => total * x >= total
      BY <1>6
    <2>3. x = 0 => total * x = 0
      BY <1>6
    <2> QED
      BY <1>6, <2>1, <2>2, <2>3
  <1>9. PICK tc, tx, pu : tc = total * c /\ tx = total * x /\ pu = p * u
    OBVIOUS
  <1>10. /\ tc \in Nat /\ tx \in Nat /\ pu \in Nat
         /\ 200 * tc <= 200 * pu + 2 * extra + 100 * total /\ 200 * pu + 2 * extra - 100 * total <= 200 * tc
         /\ 200 * tx <= 2 * extra + 100 * total /\ 2 * extra - 100 * total <= 200 * tx
         /\ (lim.mode = "none" => tx = 0 /\ extra = 0)
    BY <1>4, <1>5, <1>6, <1>7, <1>8, <1>9
  <1>11. -(Halves(lim) * total) <= 2 * (tc - tx) - 2 * pu /\ 2 * (tc - tx) - 2 * pu <= Halves(lim) * total
    BY <1>4, <1>10 DEF Halves
  <1>12. total * (c - x) = tc - tx
    BY <1>7, <1>9
  <1> QED
    BY <1>1, <1>6, <1>9, <1>11, <1>12 DEF Reading, ShareFits

LEMMA Positive == ASSUME NEW a \in Nat \ {0}, NEW z \in Int, a * z >= 0 PROVE z >= 0
  OBVIOUS

\* The shares of all flats that were read are the cost, to the halves that were rounded.
LEMMA ShareSound ==
    ASSUME NEW read \in SUBSET Homes, NEW used \in [read -> Uses], NEW p \in Costs, NEW lim \in Limits,
           Share(used, p, lim, [f \in Homes |-> NoReading])
    PROVE  water' \in [Homes -> Reading] /\ PaysFor(water', p, Halves(lim))
  <1>0. /\ IsFiniteSet(Homes) /\ IsFiniteSet(read) /\ DOMAIN used = read /\ p \in Nat
        /\ used \in [read -> Nat]
    BY ChargesAssumption, FS_Subset
  <1>1. PICK total, w, k : total = SumOver(used) /\ w = water' /\ k = Halves(lim)
    OBVIOUS
  <1>2. total \in Nat \ {0} /\ k \in Nat
    <2>1. SumOver(used) \in Nat
      BY <1>0, SumNatural
    <2> QED
      BY <1>1, <2>1 DEF Share, Halves
  <1>3. w = [f \in Homes |-> IF f \in read THEN WaterCharge(used[f], total, p, lim) ELSE NoReading]
    <2>1. ASSUME NEW f \in read
          PROVE  WaterCharge(used[f], total, p, lim)
                    = [rows |-> NoReading.rows + 1,
                       charge |-> NoReading.charge + WaterCharge(used[f], total, p, lim).charge,
                       excess |-> NoReading.excess + WaterCharge(used[f], total, p, lim).excess]
      <3>1. PICK r : r = WaterCharge(used[f], total, p, lim)
        OBVIOUS
      <3>2. r \in Reading /\ r.rows = 1
        BY <1>0, <1>2, <3>1, ShareNear DEF ShareFits
      <3> QED
        BY <3>1, <3>2 DEF Reading, NoReading
    <2>2. w = [f \in Homes |->
                  IF f \in read
                  THEN [rows |-> NoReading.rows + 1,
                        charge |-> NoReading.charge + WaterCharge(used[f], total, p, lim).charge,
                        excess |-> NoReading.excess + WaterCharge(used[f], total, p, lim).excess]
                  ELSE NoReading]
      BY <1>0, <1>1 DEF Share
    <2> QED
      BY <2>1, <2>2, Zenon
  <1> DEFINE U == [f \in Homes |-> IF f \in read THEN used[f] ELSE 0]
             R == [f \in Homes |-> w[f].rows]
             C == [f \in Homes |-> w[f].charge]
             X == [f \in Homes |-> w[f].excess]
             Y == [f \in Homes |-> C[f] - X[f]]
             V == [f \in Homes |-> (2 * total) * Y[f] + (-2 * p) * U[f]]
             Lo == [f \in Homes |-> (k * total) * R[f] + 1 * V[f]]
             Hi == [f \in Homes |-> (k * total) * R[f] + (-1) * V[f]]
  <1>4. ASSUME NEW f \in Homes
        PROVE  /\ w[f] \in Reading /\ U[f] \in Nat /\ Y[f] \in Int
               /\ -(k * total * R[f]) <= 2 * (total * Y[f]) - 2 * (p * U[f])
               /\ 2 * (total * Y[f]) - 2 * (p * U[f]) <= k * total * R[f]
    <2>1. CASE f \in read
      <3>1. PICK r, u : r = WaterCharge(used[f], total, p, lim) /\ u = used[f]
        OBVIOUS
      <3>2. u \in Nat
        BY <1>0, <2>1, <3>1
      <3>3. /\ r \in Reading /\ r.rows = 1
            /\ -(k * total) <= 2 * (total * (r.charge - r.excess)) - 2 * (p * u)
            /\ 2 * (total * (r.charge - r.excess)) - 2 * (p * u) <= k * total
        <4>1. ShareFits(r, u, total, p, k)
          BY <1>0, <1>1, <1>2, <3>1, <3>2, ShareNear
        <4> QED
          BY <4>1 DEF ShareFits
      <3>4. w[f] = r /\ U[f] = u /\ R[f] = 1 /\ Y[f] = r.charge - r.excess
        BY <1>3, <2>1, <3>1, <3>3
      <3>5. r.charge \in Int /\ r.excess \in Nat
        BY <3>3 DEF Reading
      <3>6. k * total * 1 = k * total
        BY <1>2
      <3> HIDE DEF U, R, Y
      <3> QED
        BY <3>2, <3>3, <3>4, <3>5, <3>6
    <2>2. CASE f \notin read
      <3>1. w[f] = NoReading /\ U[f] = 0
        BY <1>3, <2>2
      <3>2. R[f] = 0 /\ Y[f] = 0
        BY <3>1 DEF NoReading
      <3>3. NoReading \in Reading
        BY DEF NoReading, Reading
      <3>4. k * total * 0 = 0 /\ total * 0 = 0 /\ p * 0 = 0
        BY <1>0, <1>2
      <3> HIDE DEF U, R, Y
      <3> QED
        BY <3>1, <3>2, <3>3, <3>4
    <2> QED
      BY <2>1, <2>2
  <1>5. w \in [Homes -> Reading]
    <2> HIDE DEF U, R, Y
    <2>1. DOMAIN w = Homes /\ w = [f \in DOMAIN w |-> w[f]]
      BY <1>3
    <2> QED
      BY <1>4, <2>1
  <1>6. /\ SumRows(w) = SumOver(R) /\ SumCharge(w) = SumOver(C) /\ SumExcess(w) = SumOver(X)
        /\ SumRows(w) \in Nat /\ SumCharge(w) \in Int /\ SumExcess(w) \in Nat
        /\ R \in [Homes -> Int] /\ C \in [Homes -> Int] /\ X \in [Homes -> Int]
    BY <1>5, SumsTyped DEF SumRows, SumCharge, SumExcess
  <1>7. U \in [Homes -> Int] /\ SumOver(U) = total
    <2>1. U \in [Homes -> Int] /\ (\A f \in Homes \ read : U[f] = 0) /\ [f \in read |-> U[f]] = used
      BY <1>0
    <2> HIDE DEF U
    <2>2. SumOver(U) = Part(U, read)
      BY <1>0, <2>1, SumSupport
    <2> QED
      BY <1>1, <2>1, <2>2 DEF Part
  <1>8. PICK kt, tt, pp : kt = k * total /\ tt = 2 * total /\ pp = -2 * p
    OBVIOUS
  <1>9. kt \in Int /\ tt \in Int /\ pp \in Int
    BY <1>0, <1>2, <1>8
  <1>10. Y \in [Homes -> Int] /\ Mixes(Homes, Y, C, X, 1, -1)
    BY <1>6 DEF Mixes
  <1> HIDE DEF R, C, X, Y, U
  <1>11. V \in [Homes -> Int] /\ Mixes(Homes, V, Y, U, tt, pp)
    BY <1>7, <1>8, <1>9, <1>10 DEF Mixes
  <1> HIDE DEF V
  <1>12. /\ Lo \in [Homes -> Int] /\ Mixes(Homes, Lo, R, V, kt, 1)
         /\ Hi \in [Homes -> Int] /\ Mixes(Homes, Hi, R, V, kt, -1)
    BY <1>6, <1>8, <1>9, <1>11 DEF Mixes
  <1> HIDE DEF Lo, Hi
  <1>13. /\ Combines(Y, C, X, 1, -1) /\ Combines(V, Y, U, tt, pp)
         /\ Combines(Lo, R, V, kt, 1) /\ Combines(Hi, R, V, kt, -1)
    BY <1>0, <1>6, <1>7, <1>9, <1>10, <1>11, <1>12, SumLinear
  <1>14. Lo \in [Homes -> Nat] /\ Hi \in [Homes -> Nat]
    <2>1. ASSUME NEW f \in Homes PROVE Lo[f] >= 0 /\ Hi[f] >= 0
      <3>1. PICK r, y, u : r = R[f] /\ y = Y[f] /\ u = U[f]
        OBVIOUS
      <3>2. /\ r \in Int /\ y \in Int /\ u \in Nat
            /\ -(k * total * r) <= 2 * (total * y) - 2 * (p * u)
            /\ 2 * (total * y) - 2 * (p * u) <= k * total * r
        BY <1>4, <1>6, <3>1
      <3>3. V[f] = tt * y + pp * u /\ Lo[f] = kt * r + V[f] /\ Hi[f] = kt * r - V[f]
        <4>1. V[f] \in Int /\ V[f] = tt * Y[f] + pp * U[f]
          BY <1>11 DEF Mixes
        <4>2. Lo[f] = kt * R[f] + 1 * V[f] /\ Hi[f] = kt * R[f] + (-1) * V[f]
          BY <1>12 DEF Mixes
        <4>3. kt * r \in Int
          BY <1>9, <3>2
        <4> QED
          BY <3>1, <4>1, <4>2, <4>3
      <3>4. tt * y = 2 * (total * y) /\ pp * u = -(2 * (p * u)) /\ kt * r = k * total * r
        BY <1>0, <1>2, <1>8, <3>2
      <3>5. total * y \in Int /\ p * u \in Int /\ k * total * r \in Int
        BY <1>0, <1>2, <3>2
      <3> QED
        BY <3>2, <3>3, <3>4, <3>5
    <2> QED
      BY <1>12, <2>1
  <1>15. SumOver(Lo) \in Nat /\ SumOver(Hi) \in Nat
    BY <1>0, <1>14, SumNatural
  <1>16. PICK r, z : r = SumRows(w) /\ z = SumCharge(w) - SumExcess(w) - p
    OBVIOUS
  <1>17. r \in Nat /\ z \in Int /\ k * r \in Int
    BY <1>0, <1>2, <1>6, <1>16
  <1>18. /\ SumOver(Lo) = kt * r + SumOver(V) /\ SumOver(Hi) = kt * r - SumOver(V)
         /\ SumOver(V) = tt * SumOver(Y) + pp * total /\ SumOver(Y) = z + p
    <2>1. SumOver(V) \in Int /\ SumOver(Y) \in Int
      BY <1>0, <1>10, <1>11, SumType
    <2>2. SumOver(R) = r /\ SumOver(U) = total /\ SumOver(C) - SumOver(X) = z + p
      BY <1>0, <1>6, <1>7, <1>16
    <2>3. kt * r \in Int
      BY <1>9, <1>17
    <2>4. SumOver(Y) = 1 * SumOver(C) + (-1) * SumOver(X)
      BY <1>13 DEF Combines
    <2>5. SumOver(Lo) = kt * r + 1 * SumOver(V) /\ SumOver(Hi) = kt * r + (-1) * SumOver(V)
      BY <1>13, <2>2 DEF Combines
    <2>6. SumOver(V) = tt * SumOver(Y) + pp * total
      BY <1>13, <2>2 DEF Combines
    <2> QED
      BY <1>6, <2>1, <2>2, <2>3, <2>4, <2>5, <2>6
  <1>19. SumOver(V) = total * (2 * z)
    <2>1. tt * (z + p) = 2 * (total * z) + 2 * (total * p) /\ pp * total = -(2 * (total * p))
      BY <1>0, <1>2, <1>8, <1>17
    <2>2. total * z \in Int /\ total * p \in Int /\ total * (2 * z) = 2 * (total * z)
      BY <1>0, <1>2, <1>17
    <2> QED
      BY <1>18, <2>1, <2>2
  <1>20. kt * r = total * (k * r)
    BY <1>2, <1>8, <1>17
  <1>21. total * (k * r + 2 * z) >= 0 /\ total * (k * r - 2 * z) >= 0
    <2>1. PICK q : q = k * r
      OBVIOUS
    <2>2. total * (q + 2 * z) = total * q + total * (2 * z) /\ total * (q - 2 * z) = total * q - total * (2 * z)
      BY <1>2, <1>17, <2>1
    <2> QED
      BY <1>15, <1>18, <1>19, <1>20, <2>1, <2>2
  <1>22. k * r + 2 * z >= 0 /\ k * r - 2 * z >= 0
    <2>1. PICK q1, q2 : q1 = k * r + 2 * z /\ q2 = k * r - 2 * z
      OBVIOUS
    <2>2. q1 \in Int /\ q2 \in Int /\ total * q1 >= 0 /\ total * q2 >= 0
      BY <1>17, <1>21, <2>1
    <2>3. q1 >= 0 /\ q2 >= 0
      BY <1>2, <2>2, Positive
    <2> QED
      BY <2>1, <2>3
  <1>23. PaysFor(w, p, k)
    BY <1>16, <1>17, <1>22 DEF PaysFor, Apart
  <1> QED
    BY <1>1, <1>5, <1>23

-----------------------------------------------------------------------------
(* The month, step by step.                                                *)

AskedIsSaved == allocation = Idle \/ allocation = limit
BillSums(b) == b.total = SumOver(b.lines) + Least(b.water, 0) /\ b.total >= b.water + Least(b.base, 0)
BillsSum == \A f \in Homes : BillSums(bill[f])

\* An allocation under way shares by the limit that is saved, as only allocations save one.
ChInv == ChargesTypeOK /\ AskedIsSaved /\ BillsSum /\ WaterPaysForItself

LEMMA AskedTyped ==
    ASSUME NEW f \in Homes, NEW r \in MonthRule, r.type # "CUSTOM_FORMULA"
    PROVE  Asked(f, r) \in Int
  <1>1. r.type \in RuleTypes /\ r.amount \in Int /\ r.base \in Int /\ Area[f] \in Int /\ People[f] \in Int
    BY ChargesAssumption DEF MonthRule
  <1>2. Area[f] * r.amount \in Int /\ People[f] * r.amount \in Int /\ r.base * r.amount \in Int
    BY <1>1
  <1>3. Round(r.base * r.amount, 100) \in Int
    BY <1>2, RoundInt
  <1> QED
    BY <1>1, <1>2, <1>3 DEF Asked, RuleTypes

LEMMA ItemsTyped ==
    ASSUME activeRules \in RuleBooks, Computable, NEW f \in Homes
    PROVE  \E D \in SUBSET (Nat \ {0}) : IsFiniteSet(D) /\ Items(f) \in [D -> Int]
  <1>1. activeRules \in Seq(MonthRule)
    BY ChargesAssumption DEF MonthRule
  <1> DEFINE D == {j \in DOMAIN activeRules : Applies(f, activeRules[j])}
  <1>2. DOMAIN activeRules = 1 .. Len(activeRules) /\ Len(activeRules) \in Nat
    BY <1>1
  <1>3. IsFiniteSet(DOMAIN activeRules)
    BY <1>2, FS_Interval
  <1>4. IsFiniteSet(D) /\ D \in SUBSET (Nat \ {0})
    <2>1. D \subseteq DOMAIN activeRules
      OBVIOUS
    <2>2. IsFiniteSet(D)
      BY <1>3, <2>1, FS_Subset
    <2> QED
      BY <1>2, <2>1, <2>2
  <1>5. ASSUME NEW i \in D PROVE Asked(f, activeRules[i]) \in Int
    <2>1. activeRules[i] \in MonthRule /\ activeRules[i].type # "CUSTOM_FORMULA"
      BY <1>1 DEF Computable
    <2> QED
      BY <2>1, AskedTyped
  <1>6. Items(f) = [i \in D |-> Asked(f, activeRules[i])]
    BY DEF Items
  <1> HIDE DEF D
  <1>7. Items(f) \in [D -> Int]
    BY <1>5, <1>6
  <1> QED
    BY <1>4, <1>7

LEMMA GivenTyped ==
    ASSUME discounts \in [Homes -> Seq(Offers)], NEW f \in Homes
    PROVE  discounts[f] \in Seq(Discount)
  <1>1. discounts[f] \in Seq(Offers) /\ Offers \subseteq Discount
    BY ChargesAssumption DEF Discount
  <1> QED
    BY <1>1

IsBill(b, items, drawn, given) ==
    LET base == SumOver(items)
        off  == DiscountFor(given, base)
    IN b = [lines |-> Lines(items, drawn, off), base |-> base, water |-> drawn, discount |-> off,
            total |-> base + drawn - off]

\* What a bill of items, water and a discount comes to.
LEMMA BillIs ==
    ASSUME NEW D \in SUBSET (Nat \ {0}), IsFiniteSet(D), NEW items \in [D -> Int],
           NEW drawn \in Int, NEW given \in Seq(Discount), NEW b, IsBill(b, items, drawn, given)
    PROVE  BillSums(b)
  <1>0. PICK base, off : base = SumOver(items) /\ off = DiscountFor(given, base)
    OBVIOUS
  <1>1. base \in Int
    BY <1>0, SumType
  <1>2. off \in Nat /\ (base > 0 => off <= base) /\ (base <= 0 => off = 0)
    BY <1>0, <1>1, DiscountIs
  <1>3. SumOver(Lines(items, drawn, off)) = base + (drawn - Least(drawn, 0)) - off
    BY <1>0, <1>2, LinesAdd
  <1>4. b.total = base + drawn - off /\ b.lines = Lines(items, drawn, off) /\ b.water = drawn /\ b.base = base
    BY <1>0 DEF IsBill
  <1> QED
    BY <1>1, <1>2, <1>3, <1>4 DEF BillSums, Least

\* WaterIs after a step.
LEMMA WaterIsNext ==
    ASSUME water' \in [Homes -> Reading]
    PROVE  WaterPaysForItself' <=> PaysFor(water', cost', Halves(limit'))
  <1>1. SumRows(water') \in Nat
    BY SumsTyped
  <1>2. WaterPaysForItself' <=>
            LET slack == IF limit'.mode = "none" THEN SumRows(water') ELSE 2 * SumRows(water')
            IN -slack <= 2 * Apart(water', cost') /\ 2 * Apart(water', cost') <= slack
    BY DEF WaterPaysForItself, SumRows, SumCharge, SumExcess, Apart
  <1> QED
    BY <1>1, <1>2 DEF PaysFor, Halves

LEMMA ChargesStart == ChargesInit => ChInv
  <1> SUFFICES ASSUME ChargesInit PROVE ChInv
    OBVIOUS
  <1> USE DEF ChargesInit
  <1>1. NoReading \in Reading /\ water = [f \in Homes |-> NoReading]
    BY DEF NoReading, Reading
  <1>2. ChargesTypeOK
    <2>1. \A f \in Homes : discounts[f] = <<>> /\ <<>> \in Seq(Offers) /\ Len(<<>>) = 0
      OBVIOUS
    <2>2. discounts \in [Homes -> Seq(Offers)] /\ \A f \in Homes : Len(discounts[f]) <= MaxOffers
      BY <2>1, ChargesAssumption
    <2>3. water \in [Homes -> [rows : Nat, charge : Int, excess : Nat]]
      BY <1>1 DEF Reading
    <2>4. 0 \in 0..MaxSingles
      BY ChargesAssumption
    <2> QED
      BY <2>2, <2>3, <2>4 DEF ChargesTypeOK
  <1>3. BillsSum
    <2>1. SumOver([l \in {} |-> 0]) = 0
      BY SumEmpty
    <2>2. BillSums(NoBill)
      BY <2>1 DEF BillSums, NoBill, Least
    <2> QED
      BY <2>2 DEF BillsSum
  <1>4. WaterPaysForItself
    <2> DEFINE zero == [f \in Homes |-> 0]
    <2>1. SumOver(zero) = 0
      <3>1. IsFiniteSet(Homes) /\ zero \in [Homes -> Int] /\ \A f \in Homes : zero[f] = 0
        BY ChargesAssumption
      <3> HIDE DEF zero
      <3> QED
        BY <3>1, SumZero
    <2>2. [f \in Homes |-> water[f].rows] = zero /\ [f \in Homes |-> water[f].charge] = zero
          /\ [f \in Homes |-> water[f].excess] = zero
      BY <1>1 DEF NoReading
    <2>3. SumRows(water) = 0 /\ Apart(water, cost) = 0
      BY <2>1, <2>2 DEF SumRows, Apart, SumCharge, SumExcess
    <2>4. PaysFor(water, cost, Halves(limit))
      BY <2>3 DEF PaysFor, Halves
    <2> QED
      BY <1>1, <2>4, WaterIs
  <1> QED
    BY <1>2, <1>3, <1>4 DEF ChInv, AskedIsSaved

-----------------------------------------------------------------------------
LEMMA OffersKeep ==
    ASSUME ChInv, NEW f \in Homes, NEW i \in Nat,
           GiveDiscount(f) \/ ChangeDiscount(f, i) \/ RemoveDiscount(f, i)
    PROVE  ChInv'
  <1> USE DEF ChInv, ChargesTypeOK, AskedIsSaved, BillsSum
  <1>1. UNCHANGED <<status, activeRules, limit, allocation, water, cost, singles, bill>>
    BY DEF GiveDiscount, ChangeDiscount, RemoveDiscount
  <1>2. PICK s : s = discounts[f]
    OBVIOUS
  <1>3. s \in Seq(Offers) /\ Len(s) \in Nat /\ Len(s) <= MaxOffers /\ MaxOffers \in Nat
    BY <1>2, ChargesAssumption
  <1>4. \E t \in Seq(Offers) : Len(t) <= MaxOffers /\ discounts' = [discounts EXCEPT ![f] = t]
    <2>1. CASE GiveDiscount(f)
      <3>1. PICK d \in Offers : discounts' = [discounts EXCEPT ![f] = Append(s, d)] /\ Len(s) < MaxOffers
        BY <1>2, <2>1 DEF GiveDiscount
      <3>2. Append(s, d) \in Seq(Offers) /\ Len(Append(s, d)) = Len(s) + 1
        BY <1>3
      <3>3. Len(Append(s, d)) <= MaxOffers
        BY <1>3, <3>1, <3>2
      <3> QED
        BY <3>1, <3>2, <3>3, Zenon
    <2>2. CASE ChangeDiscount(f, i)
      <3>1. PICK d \in Offers : discounts' = [discounts EXCEPT ![f] = [s EXCEPT ![i] = d]] /\ i \in DOMAIN s
        BY <1>2, <2>2 DEF ChangeDiscount
      <3>2. [s EXCEPT ![i] = d] \in Seq(Offers) /\ Len([s EXCEPT ![i] = d]) = Len(s)
        BY <1>3, <3>1
      <3> QED
        BY <1>3, <3>1, <3>2
    <2>3. CASE RemoveDiscount(f, i)
      <3>1. /\ discounts' = [discounts EXCEPT ![f] = SubSeq(s, 1, i - 1) \o SubSeq(s, i + 1, Len(s))]
            /\ i \in 1 .. Len(s)
        BY <1>2, <1>3, <2>3 DEF RemoveDiscount
      <3>2. PICK a, b : a = SubSeq(s, 1, i - 1) /\ b = SubSeq(s, i + 1, Len(s))
        OBVIOUS
      <3>3. a \in Seq(Offers) /\ b \in Seq(Offers) /\ Len(a) = i - 1 /\ Len(b) = Len(s) - i
        <4>1. \A k \in 1 .. (i - 1) : k \in 1 .. Len(s)
          BY <1>3, <3>1
        <4>2. \A k \in (i + 1) .. Len(s) : k \in 1 .. Len(s)
          BY <1>3, <3>1
        <4> QED
          BY <1>3, <3>1, <3>2, <4>1, <4>2
      <3>4. a \o b \in Seq(Offers) /\ Len(a \o b) = Len(a) + Len(b)
        BY <3>3, ConcatProperties
      <3>5. Len(a \o b) <= MaxOffers
        BY <1>3, <3>1, <3>3, <3>4
      <3>6. discounts' = [discounts EXCEPT ![f] = a \o b]
        BY <3>1, <3>2, Zenon
      <3> QED
        BY <3>4, <3>5, <3>6, Zenon
    <2> QED
      BY <2>1, <2>2, <2>3
  <1>5. discounts' \in [Homes -> Seq(Offers)] /\ \A h \in Homes : Len(discounts'[h]) <= MaxOffers
    BY <1>4
  <1>6. WaterPaysForItself'
    BY <1>1 DEF WaterPaysForItself
  <1> QED
    BY <1>1, <1>5, <1>6

LEMMA RulesKeep == ASSUME ChInv, ChangeRules PROVE ChInv'
  <1>1. WaterPaysForItself'
    BY DEF ChangeRules, ChInv, WaterPaysForItself
  <1> QED
    BY <1>1 DEF ChangeRules, ChInv, ChargesTypeOK, AskedIsSaved, BillsSum

\* A single reading adds to what the flats are charged what it adds to the cost.
LEMMA ReadingKeeps == ASSUME ChInv, NEW f \in Homes, RecordReading(f) PROVE ChInv'
  <1>1. PICK u \in Uses, t \in Tariffs :
            /\ water' = [water EXCEPT ![f].rows = @ + 1, ![f].charge = @ + ReadingPrice(u, t)]
            /\ cost' = cost + ReadingPrice(u, t)
    BY DEF RecordReading
  <1>2. PICK p : p = ReadingPrice(u, t)
    OBVIOUS
  <1>3. p \in Int
    BY <1>2, PriceWhole
  <1>4. UNCHANGED <<status, activeRules, discounts, limit, allocation, bill>> /\ singles' \in 0..MaxSingles
    <2>1. /\ UNCHANGED <<status, activeRules, discounts, limit, allocation, bill>>
          /\ singles < MaxSingles /\ singles' = singles + 1
      BY Zenon DEF RecordReading
    <2>2. singles \in 0..MaxSingles /\ MaxSingles \in Nat
      BY ChargesAssumption DEF ChInv, ChargesTypeOK
    <2> QED
      BY <2>1, <2>2
  <1>5. water \in [Homes -> Reading] /\ cost \in Int /\ IsFiniteSet(Homes)
    BY ChargesAssumption DEF ChInv, ChargesTypeOK, Reading
  <1>6. PICK w, v : w = water[f] /\ v = [w EXCEPT !.rows = @ + 1, !.charge = @ + p]
    OBVIOUS
  <1>7. /\ w \in Reading /\ v \in Reading
        /\ v.rows = w.rows + 1 /\ v.charge = w.charge + p /\ v.excess = w.excess
    <2>1. w \in Reading
      BY <1>5, <1>6
    <2>2. w.rows + 1 \in Nat /\ w.charge + p \in Int
      BY <1>3, <2>1 DEF Reading
    <2>3. v = [rows |-> w.rows + 1, charge |-> w.charge + p, excess |-> w.excess]
      BY <1>6, <2>1 DEF Reading
    <2> QED
      BY <2>1, <2>2, <2>3 DEF Reading
  <1>8. water' = [water EXCEPT ![f] = v]
    BY <1>1, <1>2, <1>5, <1>6, <1>7 DEF Reading
  <1>9. water' \in [Homes -> Reading] /\ water'[f] = v /\ \A h \in Homes \ {f} : water'[h] = water[h]
    BY <1>5, <1>7, <1>8
  <1> DEFINE R(x) == [h \in Homes |-> x[h].rows]
             C(x) == [h \in Homes |-> x[h].charge]
             X(x) == [h \in Homes |-> x[h].excess]
  <1>10. PICK r0, r1, c0, c1, x0, x1 : /\ r0 = R(water) /\ c0 = C(water) /\ x0 = X(water)
                                       /\ r1 = R(water') /\ c1 = C(water') /\ x1 = X(water')
    OBVIOUS
  <1>11. /\ r0 \in [Homes -> Int] /\ c0 \in [Homes -> Int] /\ x0 \in [Homes -> Int]
         /\ r1 \in [Homes -> Int] /\ c1 \in [Homes -> Int] /\ x1 \in [Homes -> Int]
    <2>1. /\ R(water) \in [Homes -> Nat] /\ C(water) \in [Homes -> Int] /\ X(water) \in [Homes -> Nat]
          /\ R(water') \in [Homes -> Nat] /\ C(water') \in [Homes -> Int] /\ X(water') \in [Homes -> Nat]
      BY <1>5, <1>9, SumsTyped
    <2> HIDE DEF R, C, X
    <2> QED
      BY <1>10, <2>1
  <1>12. /\ r1[f] = r0[f] + 1 /\ c1[f] = c0[f] + p /\ x1 = x0
         /\ \A h \in Homes \ {f} : r1[h] = r0[h] /\ c1[h] = c0[h]
    BY <1>6, <1>7, <1>9, <1>10
  <1>13. SumOver(r1) = SumOver(r0) - r0[f] + r1[f]
    BY <1>5, <1>11, <1>12, SumUpdate
  <1>14. SumOver(c1) = SumOver(c0) - c0[f] + c1[f]
    BY <1>5, <1>11, <1>12, SumUpdate
  <1>15. SumRows(water') = SumRows(water) + 1 /\ Apart(water', cost') = Apart(water, cost)
    <2>1. /\ SumRows(water') = SumOver(r1) /\ SumRows(water) = SumOver(r0)
          /\ SumCharge(water') = SumOver(c1) /\ SumCharge(water) = SumOver(c0)
          /\ SumExcess(water') = SumExcess(water)
      BY <1>10, <1>12 DEF SumRows, SumCharge, SumExcess
    <2>2. SumCharge(water) \in Int /\ SumExcess(water) \in Int /\ SumRows(water) \in Int
      BY <1>5, SumsTyped
    <2>3. r0[f] \in Int /\ c0[f] \in Int
      BY <1>11
    <2>4. SumRows(water') = SumRows(water) + 1 /\ SumCharge(water') = SumCharge(water) + p
      BY <1>3, <1>12, <1>13, <1>14, <2>1, <2>2, <2>3
    <2> QED
      BY <1>1, <1>2, <1>3, <1>5, <2>1, <2>2, <2>4 DEF Apart
  <1>16. PaysFor(water, cost, Halves(limit))
    BY <1>5, WaterIs DEF ChInv
  <1>17. PaysFor(water', cost', Halves(limit'))
    <2>1. SumRows(water) \in Nat /\ Halves(limit) \in {1, 2} /\ limit' = limit
      BY <1>4, <1>5, SumsTyped DEF Halves
    <2>2. Apart(water, cost) \in Int
      BY <1>5, SumsTyped DEF Apart
    <2>3. PICK k, r, a : k = Halves(limit) /\ r = SumRows(water) /\ a = Apart(water, cost)
      OBVIOUS
    <2>4. k \in {1, 2} /\ r \in Nat /\ a \in Int /\ -(k * r) <= 2 * a /\ 2 * a <= k * r
      BY <1>16, <2>1, <2>2, <2>3 DEF PaysFor
    <2>5. -(k * (r + 1)) <= 2 * a /\ 2 * a <= k * (r + 1)
      BY <2>4
    <2> QED
      BY <1>15, <2>1, <2>3, <2>5 DEF PaysFor
  <1>18. WaterPaysForItself'
    BY <1>9, <1>17, WaterIsNext
  <1>19. cost' \in Int
    BY <1>1, <1>2, <1>3, <1>5
  <1> QED
    BY <1>4, <1>9, <1>18, <1>19 DEF ChInv, ChargesTypeOK, AskedIsSaved, BillsSum, Reading

LEMMA AskKeeps == ASSUME ChInv, AskAllocate PROVE ChInv'
  <1>1. WaterPaysForItself'
    BY DEF AskAllocate, ChInv, WaterPaysForItself
  <1> QED
    BY <1>1 DEF AskAllocate, ChInv, ChargesTypeOK, AskedIsSaved, BillsSum

\* The readings made anew pay for the cost they share, by the limit that is then saved.
LEMMA AllocateKeeps == ASSUME ChInv, Allocate PROVE ChInv'
  <1>1. PICK read \in SUBSET Homes : \E used \in [read -> Uses], price \in Costs :
            /\ \/ Share(used, price, allocation, [f \in Homes |-> NoReading]) /\ UNCHANGED limit
               \/ \E lim \in Limits : /\ Share(used, price, lim, [f \in Homes |-> NoReading])
                                      /\ limit' = lim
            /\ cost' = price
    BY DEF Allocate
  <1>2. PICK used \in [read -> Uses], price \in Costs :
            /\ \/ Share(used, price, allocation, [f \in Homes |-> NoReading]) /\ UNCHANGED limit
               \/ \E lim \in Limits : /\ Share(used, price, lim, [f \in Homes |-> NoReading])
                                      /\ limit' = lim
            /\ cost' = price
    BY <1>1
  <1>3. limit \in Limits /\ allocation = limit
    BY DEF Allocate, ChInv, ChargesTypeOK, AskedIsSaved
  <1>4. PICK lim \in Limits : limit' = lim /\ Share(used, price, lim, [f \in Homes |-> NoReading])
    BY <1>2, <1>3
  <1>5. water' \in [Homes -> Reading] /\ PaysFor(water', price, Halves(lim))
    BY <1>4, ShareSound
  <1>6. WaterPaysForItself'
    BY <1>2, <1>4, <1>5, WaterIsNext
  <1>7. cost' \in Int /\ 0 \in 0..MaxSingles
    BY <1>2, ChargesAssumption
  <1> QED
    BY <1>4, <1>5, <1>6, <1>7 DEF Allocate, ChInv, ChargesTypeOK, AskedIsSaved, BillsSum, Reading

LEMMA GenerateKeeps == ASSUME ChInv, Generate PROVE ChInv'
  <1>1. BillsSum'
    <2>1. ASSUME NEW f \in Homes PROVE BillSums(bill'[f])
      <3>1. PICK items, given, drawn, b :
                items = Items(f) /\ given = discounts[f] /\ drawn = water[f].charge /\ b = bill'[f]
        OBVIOUS
      <3>2. IsBill(b, items, drawn, given)
        BY <3>1 DEF Generate, IsBill
      <3>3. PICK D \in SUBSET (Nat \ {0}) : IsFiniteSet(D) /\ items \in [D -> Int]
        BY <3>1, ItemsTyped DEF Generate, ChInv, ChargesTypeOK
      <3>4. given \in Seq(Discount)
        BY <3>1, GivenTyped DEF ChInv, ChargesTypeOK
      <3>5. drawn \in Int
        BY <3>1 DEF ChInv, ChargesTypeOK
      <3> QED
        BY <3>1, <3>2, <3>3, <3>4, <3>5, BillIs
    <2> QED
      BY <2>1 DEF BillsSum
  <1>2. WaterPaysForItself'
    BY DEF Generate, ChInv, WaterPaysForItself
  <1> QED
    BY <1>1, <1>2 DEF Generate, ChInv, ChargesTypeOK, AskedIsSaved

LEMMA ChargesKeep == ASSUME ChInv, [ChargesNext]_chargeVars PROVE ChInv'
  <1>1. ASSUME NEW f \in Favoured, GiveDiscount(f) \/ \E i \in 1..MaxOffers : ChangeDiscount(f, i) \/ RemoveDiscount(f, i)
        PROVE  ChInv'
    <2>1. f \in Homes /\ 0 \in Nat /\ \A i \in 1..MaxOffers : i \in Nat
      BY ChargesAssumption
    <2> QED
      BY <1>1, <2>1, OffersKeep
  <1>2. ASSUME Publish PROVE ChInv'
    <2>1. WaterPaysForItself'
      BY <1>2 DEF Publish, ChInv, WaterPaysForItself
    <2> QED
      BY <1>2, <2>1 DEF Publish, ChInv, ChargesTypeOK, AskedIsSaved, BillsSum
  <1>3. ASSUME UNCHANGED chargeVars PROVE ChInv'
    <2>1. WaterPaysForItself'
      BY <1>3 DEF chargeVars, ChInv, WaterPaysForItself
    <2> QED
      BY <1>3, <2>1 DEF chargeVars, ChInv, ChargesTypeOK, AskedIsSaved, BillsSum
  <1> QED
    BY <1>1, <1>2, <1>3, RulesKeep, ReadingKeeps, AskKeeps, AllocateKeeps, GenerateKeeps
    DEF ChargesNext, OfferNext, ReadNext, WaterNext, BillNext

LEMMA ChargesInvariant == ChargesSpec => []ChInv
  BY ChargesStart, ChargesKeep, PTL DEF ChargesSpec

\* The month's rules and readings have their types, whatever limits, prices and slabs there are:
\* every charge is a whole amount, and the extra for units above a limit is never negative.
THEOREM ChargesTypeCorrect == ChargesSpec => []ChargesTypeOK
  <1>1. ChInv => ChargesTypeOK
    BY DEF ChInv
  <1> QED
    BY <1>1, ChargesInvariant, PTL

\* What the flats pay for water, without the extra for those above the limit, is what the water
\* cost, to half a paisa for each reading, or a paisa where there is a limit.
THEOREM WaterIsPaidFor == ChargesSpec => []WaterPaysForItself
  <1>1. ChInv => WaterPaysForItself
    BY DEF ChInv
  <1> QED
    BY <1>1, ChargesInvariant, PTL

\* A bill is the sum of its lines, less what its water is below nothing, and is not pushed below
\* its water by discounts; these are all that was given, as far as the items reach.
THEOREM BillIsItsLines == ChargesSpec => []BillAddsUp
  <1>1. ChInv => BillAddsUp
    <2> SUFFICES ASSUME ChInv PROVE BillAddsUp
      OBVIOUS
    <2>1. \A f \in Homes : /\ bill[f].total = SumOver(bill[f].lines) + Least(bill[f].water, 0)
                           /\ bill[f].total >= bill[f].water + Least(bill[f].base, 0)
      BY DEF ChInv, BillsSum, BillSums
    <2>2. ASSUME NEW f \in Favoured, Computable, NEW base, base = SumOver(Items(f))
          PROVE  DiscountFor(discounts[f], base)
                    = IF base > 0 THEN Least(base, DiscountUncapped(discounts[f], base)) ELSE 0
      <3>1. f \in Homes
        BY ChargesAssumption
      <3>2. PICK D \in SUBSET (Nat \ {0}) : IsFiniteSet(D) /\ Items(f) \in [D -> Int]
        BY <2>2, <3>1, ItemsTyped DEF ChInv, ChargesTypeOK
      <3>3. base \in Int
        BY <2>2, <3>2, SumType
      <3>4. discounts[f] \in Seq(Discount)
        BY <3>1, GivenTyped DEF ChInv, ChargesTypeOK
      <3> QED
        BY <3>3, <3>4, DiscountIs
    <2> QED
      BY <2>1, <2>2, Zenon DEF BillAddsUp
  <1> QED
    BY <1>1, ChargesInvariant, PTL

-----------------------------------------------------------------------------
(* The services side by side.                                              *)

LEMMA ServicesStep ==
    ASSUME [Step]_vars
    PROVE  [GateNext]_gateVars /\ [BooksNext]_booksVars /\ [BookingsNext]_bookingVars /\ [ChargesNext]_chargeVars
  <1>1. CASE UNCHANGED vars
    BY <1>1, Zenon DEF vars
  <1>2. CASE Step
    BY <1>2, Zenon DEF Step, BooksNext, ChargesNext
  <1> QED
    BY <1>1, <1>2

\* What the services do side by side each of them does alone: nothing is proved of one of them
\* that the instance, which explores them together, could break.
THEOREM EachAlone == ServicesSpec => GateSpec /\ BooksSpec /\ BookingsSpec /\ ChargesSpec
  <1>1. Init => GateInit /\ BooksInit /\ BookingsInit /\ ChargesInit
    BY Zenon DEF Init
  <1>2. [Step]_vars => /\ [GateNext]_gateVars /\ [BooksNext]_booksVars
                       /\ [BookingsNext]_bookingVars /\ [ChargesNext]_chargeVars
    BY ServicesStep
  <1> QED
    BY <1>1, <1>2, PTL DEF ServicesSpec, GateSpec, BooksSpec, BookingsSpec, ChargesSpec

\* Hence they keep their types side by side.
THEOREM ServicesTypeCorrect == ServicesSpec => []TypeOK
  <1>1. GateTypeOK /\ BooksTypeOK /\ BookingsTypeOK /\ ChargesTypeOK => TypeOK
    BY Zenon DEF TypeOK
  <1> QED
    BY <1>1, EachAlone, GateTypeCorrect, BooksTypeCorrect, BookingsTypeCorrect, ChargesTypeCorrect, PTL
=============================================================================
