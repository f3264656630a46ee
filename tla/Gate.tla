-------------------------------- MODULE Gate --------------------------------
(* The gate of a society: walk-ins that wait for a flat's answer, the       *)
(* invitations and "let the delivery up" instructions that admit without    *)
(* one, guards who repeat a request, residents and the committee who answer *)
(* at the same moment, and requests that grow stale.                        *)
EXTENDS Integers, FiniteSets

CONSTANTS Passes,      \* invitations and delivery instructions of one flat
          Invitations, \* which of them are invitations, shown as a code
          Attempts,    \* client request ids: one for each press of a guard's button
          GuardCalls,  \* requests of guards under way at once
          Answers,     \* requests of residents under way at once
          MaxUses      \* bound: uses a pass is given

ASSUME GateAssumption ==
    /\ Invitations \subseteq Passes /\ MaxUses \in Nat
    /\ IsFiniteSet(Attempts) /\ "nothing" \notin Passes

VARIABLES pass,    \* status, uses, limit and window of each pass
          entry,   \* the visitor's entry made for each attempt
          guard,   \* each guard's request: what it found and is about to write
          late     \* the entry a resident's request found unanswered too late

gateVars == <<pass, entry, guard, late>>

Made(status, by, via) == [status |-> status, by |-> by, via |-> via, fresh |-> TRUE]
NoEntry == Made("none", "nobody", "nothing")
AtPost == [pc |-> "idle", attempt |-> "none", what |-> "none"]
Open == {"PENDING_APPROVAL", "EXPIRED"}
Kinds == {"asks", "free"} \cup Invitations

GateInit ==
    /\ pass = [p \in Passes |-> [status |-> "none", used |-> 0, max |-> 0, valid |-> TRUE]]
    /\ entry = [a \in Attempts |-> NoEntry]
    /\ guard = [g \in GuardCalls |-> AtPost]
    /\ late = [r \in Answers |-> "none"]

\* A resident invites, or says that a delivery may come up: seen from the moment it is valid.
Create(p) ==
    /\ pass[p].status = "none"
    /\ \E max \in 1..MaxUses : pass' = [pass EXCEPT ![p].status = "ACTIVE", ![p].max = max]
    /\ UNCHANGED <<entry, guard, late>>

\* Any member of the flat withdraws it.
Withdraw(p) ==
    /\ pass[p].status = "ACTIVE"
    /\ pass' = [pass EXCEPT ![p].status = "WITHDRAWN"]
    /\ UNCHANGED <<entry, guard, late>>

Admits(p) == pass[p].status = "ACTIVE" /\ pass[p].valid /\ pass[p].used < pass[p].max
Spend(p) == [pass EXCEPT ![p].used = @ + 1]

\* A guard's request looks for the entry of its own attempt; one that is there is the answer.
\* "asks" and "free" are walk-ins whose flat is asked, or not, by the policy read here too.
LookUp(g, a, what) ==
    /\ guard[g].pc = "idle"
    /\ entry[a].status = "none"
    /\ \A h \in GuardCalls : guard[h].attempt = a => guard[h].what = what   \* repeated as it was
    /\ guard' = [guard EXCEPT ![g] = [pc |-> "write", attempt |-> a, what |-> what]]
    /\ UNCHANGED <<pass, entry, late>>

Write(g, how) ==
    /\ entry' = [entry EXCEPT ![guard[g].attempt] = how]
    /\ guard' = [guard EXCEPT ![g] = AtPost]
    /\ UNCHANGED late

\* The code was counted before the entry and on its own: a repeated request counts it again.
GiveUpWriteSpent(g) ==
    /\ guard[g].pc = "write"
    /\ entry[guard[g].attempt].status # "none"
    /\ LET w == guard[g].what
       IN pass' = IF w \in Invitations /\ Admits(w) THEN Spend(w) ELSE pass
    /\ guard' = [guard EXCEPT ![g] = AtPost]
    /\ UNCHANGED <<entry, late>>

\* The entry of the attempt is there by now (the unique key): nothing of the request stays.
GiveUpWrite(g) ==
    /\ guard[g].pc = "write"
    /\ entry[guard[g].attempt].status # "none"
    /\ guard' = [guard EXCEPT ![g] = AtPost]
    /\ UNCHANGED <<pass, entry, late>>

RegisterWalkIn(g) ==
    /\ guard[g].pc = "write" /\ guard[g].what \in {"asks", "free"}
    /\ entry[guard[g].attempt].status = "none"
    /\ LET expected == {p \in Passes \ Invitations : Admits(p)}
       IN \/ /\ guard[g].what = "free"
             /\ Write(g, Made("APPROVED", "policy", "nothing"))
             /\ UNCHANGED pass
          \/ \* a delivery the flat said may come up
             /\ guard[g].what = "asks"
             /\ \E p \in expected :
                   /\ pass' = Spend(p)
                   /\ Write(g, Made("APPROVED", "expectation", p))
          \/ \* another visitor, or a delivery nobody expects
             /\ guard[g].what = "asks"
             /\ Write(g, Made("PENDING_APPROVAL", "nobody", "nothing"))
             /\ UNCHANGED pass

\* The use and the entry are one transaction; a code that does not admit leaves neither.
ScanCode(g) ==
    /\ guard[g].pc = "write" /\ guard[g].what \in Invitations
    /\ entry[guard[g].attempt].status = "none"
    /\ LET p == guard[g].what
       IN IF Admits(p)
          THEN /\ pass' = Spend(p)
               /\ Write(g, Made("CHECKED_IN", "invitation", p))
          ELSE /\ guard' = [guard EXCEPT ![g] = AtPost]
               /\ UNCHANGED <<pass, entry, late>>

\* A resident answers: one conditional update.
Decide(a, answer) ==
    /\ entry[a].status = "PENDING_APPROVAL" /\ entry[a].fresh
    /\ entry' = [entry EXCEPT ![a].status = answer, ![a].by = "resident"]
    /\ UNCHANGED <<pass, guard, late>>

\* Too late: the request is found still unanswered, and then marked as expired.
DecideLate(r, a) ==
    /\ late[r] = "none"
    /\ entry[a].status = "PENDING_APPROVAL" /\ ~entry[a].fresh
    /\ late' = [late EXCEPT ![r] = a]
    /\ UNCHANGED <<pass, entry, guard>>

ExpireLateAnyway(r) ==
    /\ late[r] # "none"
    /\ entry' = [entry EXCEPT ![late[r]].status = "EXPIRED"]
    /\ late' = [late EXCEPT ![r] = "none"]
    /\ UNCHANGED <<pass, guard>>

ExpireLate(r) ==
    /\ late[r] # "none"
    /\ entry' = [entry EXCEPT ![late[r]].status = IF @ = "PENDING_APPROVAL" THEN "EXPIRED" ELSE @]
    /\ late' = [late EXCEPT ![r] = "none"]
    /\ UNCHANGED <<pass, guard>>

\* Before any list.
Stale == {a \in Attempts : entry[a].status = "PENDING_APPROVAL" /\ ~entry[a].fresh}
ExpireStale ==
    /\ Stale # {}
    /\ entry' = [a \in Attempts |-> IF a \in Stale THEN [entry[a] EXCEPT !.status = "EXPIRED"]
                                                   ELSE entry[a]]
    /\ UNCHANGED <<pass, guard, late>>

\* The committee decides what nobody answered.
Override(a, answer) ==
    /\ entry[a].status \in Open
    /\ entry' = [entry EXCEPT ![a].status = answer, ![a].by = "committee"]
    /\ UNCHANGED <<pass, guard, late>>

CheckIn(a) ==
    /\ entry[a].status = "APPROVED"
    /\ entry' = [entry EXCEPT ![a].status = "CHECKED_IN"]
    /\ UNCHANGED <<pass, guard, late>>

CheckOut(a) ==
    /\ entry[a].status = "CHECKED_IN"
    /\ entry' = [entry EXCEPT ![a].status = "CHECKED_OUT"]
    /\ UNCHANGED <<pass, guard, late>>

\* Time: an approval window closes, a pass ends.
GateTime ==
    /\ \/ \E a \in Attempts :
             /\ entry[a].status = "PENDING_APPROVAL" /\ entry[a].fresh
             /\ entry' = [entry EXCEPT ![a].fresh = FALSE]
             /\ UNCHANGED pass
       \/ \E p \in Passes :
             /\ pass[p].status = "ACTIVE" /\ pass[p].valid
             /\ pass' = [pass EXCEPT ![p].valid = FALSE]
             /\ UNCHANGED entry
    /\ UNCHANGED <<guard, late>>

GateNext ==
    \/ \E p \in Passes : Create(p) \/ Withdraw(p)
    \/ \E g \in GuardCalls : \/ \E a \in Attempts, w \in Kinds : LookUp(g, a, w)
                             \/ GiveUpWrite(g) \/ RegisterWalkIn(g) \/ ScanCode(g)
    \/ \E a \in Attempts, answer \in {"APPROVED", "REJECTED"} : Decide(a, answer) \/ Override(a, answer)
    \/ \E r \in Answers : ExpireLate(r) \/ \E a \in Attempts : DecideLate(r, a)
    \/ \E a \in Attempts : CheckIn(a) \/ CheckOut(a)
    \/ ExpireStale \/ GateTime

GateSpec == GateInit /\ [][GateNext]_gateVars

Statuses == {"none", "PENDING_APPROVAL", "EXPIRED", "APPROVED", "REJECTED", "CHECKED_IN", "CHECKED_OUT"}
PassRow == [status : {"none", "ACTIVE", "WITHDRAWN"}, used : Nat, max : Nat, valid : BOOLEAN]
EntryRow == [status : Statuses, fresh : BOOLEAN, via : Passes \cup {"nothing"},
             by : {"nobody", "policy", "expectation", "invitation", "resident", "committee"}]
GateTypeOK ==
    /\ pass \in [Passes -> PassRow]
    /\ entry \in [Attempts -> EntryRow]
    /\ guard \in [GuardCalls -> [pc : {"idle", "write"}, attempt : Attempts \cup {"none"},
                                 what : Kinds \cup {"none"}]]
    /\ late \in [Answers -> Attempts \cup {"none"}]

\* A pass admits as many entries as it has counted uses, and never more than it was given,
\* whatever requests race, repeat or are refused.
EntriesBy(p) == {a \in Attempts : entry[a].via = p}
UsesMatchEntries == \A p \in Passes : /\ pass[p].used = Cardinality(EntriesBy(p))
                                      /\ pass[p].used <= pass[p].max

\* An answer stands: what has been decided does not expire, is not decided again, and only
\* moves on to the visitor coming in and leaving.
DecisionStands ==
    [][\A a \in Attempts : entry[a].status \notin Open \cup {"none"} =>
          /\ entry'[a].by = entry[a].by
          /\ <<entry[a].status, entry'[a].status>> \in
                {<<s, s>> : s \in Statuses} \cup {<<"APPROVED", "CHECKED_IN">>, <<"CHECKED_IN", "CHECKED_OUT">>}
      ]_entry
=============================================================================
