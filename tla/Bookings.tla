------------------------------ MODULE Bookings ------------------------------
(* Bookings of one amenity: residents who ask for overlapping times, a      *)
(* committee that decides, cancels and changes the rules, and fees that are *)
(* collected or waived while that happens.  Rules and bookings read before  *)
(* a transaction are kept in the caller's task.                             *)
EXTENDS Integers, FiniteSets

CONSTANTS Bookable,     \* booking ids
          Times,        \* sets of slots a booking may take
          Flats,        \* flats that book
          RuleSets,     \* the rules it may be given
          Tasks         \* requests under way at once

Slots == UNION Times

ASSUME BookingsAssumption ==
    /\ IsFiniteSet(Bookable)
    /\ RuleSets \subseteq [capacity : Nat, cap : Nat, fee : BOOLEAN, approval : BOOLEAN]

VARIABLES rules,      \* capacity, monthly cap, whether a fee is asked and approval needed
          booking, task

bookingVars == <<rules, booking, task>>

\* under and income are history: the capacity it was accepted under, and the fees credited.
NoBooking == [status |-> "none", flat |-> "none", slots |-> {}, fee |-> "NONE", under |-> 0, income |-> 0]
NoTask == [op |-> "none", id |-> "none", flat |-> "none", slots |-> {}, rules |-> "none", fee |-> "none"]
Live == {"PENDING", "CONFIRMED"}

BookingsInit ==
    /\ rules \in RuleSets
    /\ booking = [b \in Bookable |-> NoBooking]
    /\ task = [t \in Tasks |-> NoTask]

\* A request that has counted holds the amenity's row until its booking is written.
Locked == \E t \in Tasks : task[t].op = "insert"

UpdateAmenity ==
    /\ ~Locked
    /\ rules' \in RuleSets
    /\ UNCHANGED <<booking, task>>

\* What a request reads before its transaction.
Read(t, what) == task[t].op = "none" /\ task' = [task EXCEPT ![t] = what] /\ UNCHANGED <<rules, booking>>
AskBook(t) == \E f \in Flats, s \in Times :
    Read(t, [NoTask EXCEPT !.op = "book", !.flat = f, !.slots = s, !.rules = rules])
AskCancel(t, b) == booking[b].status \in Live
                   /\ Read(t, [NoTask EXCEPT !.op = "cancel", !.id = b, !.fee = booking[b].fee])
AskReject(t, b) == booking[b].status # "none"
                   /\ Read(t, [NoTask EXCEPT !.op = "reject", !.id = b, !.fee = booking[b].fee])

Held(S) == {b \in Bookable : booking[b].status \in Live /\ booking[b].slots \cap S # {}}
HeldBy(f) == {b \in Bookable : booking[b].status \in Live /\ booking[b].flat = f}
Finished(t) == task' = [task EXCEPT ![t] = NoTask]

Fits(t) == /\ Cardinality(HeldBy(task[t].flat)) < task[t].rules.cap
           /\ Cardinality(Held(task[t].slots)) < task[t].rules.capacity

\* What the flat holds of its month and what overlaps are counted, and the lock is kept for the
\* booking, or let go with a refusal.
CountUnlocked(t) ==
    /\ task[t].op = "book"
    /\ \E b \in Bookable : booking[b].status = "none"   \* bound
    /\ IF Fits(t) THEN task' = [task EXCEPT ![t].op = "insert"] ELSE Finished(t)
    /\ UNCHANGED <<rules, booking>>
CountHeld(t) == ~Locked /\ CountUnlocked(t)

Book(t) ==
    /\ task[t].op = "insert"
    /\ \E b \in Bookable : booking[b].status = "none"
    /\ LET b == CHOOSE b \in Bookable : booking[b].status = "none"
       IN booking' = [booking EXCEPT ![b] =
                [status |-> IF task[t].rules.approval THEN "PENDING" ELSE "CONFIRMED",
                 flat |-> task[t].flat, slots |-> task[t].slots,
                 fee |-> IF task[t].rules.fee THEN "DUE" ELSE "NONE",
                 under |-> task[t].rules.capacity, income |-> 0]]
    /\ Finished(t)
    /\ UNCHANGED rules

\* The fee as it was read decides whether it is looked at again.
CancelByRead(t) ==
    /\ task[t].op = "cancel"
    /\ LET b == task[t].id
       IN booking' = IF booking[b].status \notin Live THEN booking
                     ELSE [booking EXCEPT ![b].status = "CANCELLED",
                             ![b].fee = IF task[t].fee = "DUE" THEN "NONE" ELSE @]
    /\ Finished(t)
    /\ UNCHANGED rules

Cancel(t) ==
    /\ task[t].op = "cancel"
    /\ LET b == task[t].id
       IN booking' = IF booking[b].status \notin Live THEN booking
                     ELSE [booking EXCEPT ![b].status = "CANCELLED",
                             ![b].fee = IF task[t].fee = "DUE" /\ @ = "DUE" THEN "NONE" ELSE @]
    /\ Finished(t)
    /\ UNCHANGED rules

Approve(b) ==
    /\ booking[b].status = "PENDING"
    /\ booking' = [booking EXCEPT ![b].status = "CONFIRMED"]
    /\ UNCHANGED <<rules, task>>

RejectRequest(t) ==
    /\ task[t].op = "reject"
    /\ LET b == task[t].id
       IN booking' = IF booking[b].status # "PENDING" THEN booking
                     ELSE [booking EXCEPT ![b].status = "REJECTED",
                             ![b].fee = IF task[t].fee = "DUE" THEN "NONE" ELSE @]
    /\ Finished(t)
    /\ UNCHANGED rules

CollectFee(b) ==
    /\ booking[b].status = "CONFIRMED" /\ booking[b].fee = "DUE"
    /\ booking' = [booking EXCEPT ![b].fee = "COLLECTED", ![b].income = @ + 1]
    /\ UNCHANGED <<rules, task>>

WaiveFee(b) ==
    /\ booking[b].fee = "DUE"
    /\ booking' = [booking EXCEPT ![b].fee = "WAIVED"]
    /\ UNCHANGED <<rules, task>>

BookingsNext ==
    \/ UpdateAmenity
    \/ \E t \in Tasks : \/ AskBook(t) \/ CountHeld(t) \/ Book(t) \/ Cancel(t) \/ RejectRequest(t)
                        \/ \E b \in Bookable : AskCancel(t, b) \/ AskReject(t, b)
    \/ \E b \in Bookable : Approve(b) \/ CollectFee(b) \/ WaiveFee(b)

BookingsSpec == BookingsInit /\ [][BookingsNext]_bookingVars

BookingRow == [status : {"none", "PENDING", "CONFIRMED", "CANCELLED", "REJECTED"},
               flat : Flats \cup {"none"}, slots : Times \cup {{}},
               fee : {"NONE", "DUE", "COLLECTED", "WAIVED"}, under : Nat, income : Nat]
BookingsTypeOK ==
    /\ rules \in RuleSets
    /\ booking \in [Bookable -> BookingRow]
    /\ \A t \in Tasks : task[t].op \in {"none", "book", "insert", "cancel", "reject"}

\* "Two residents tapping the same slot at the same instant are serialised": at no time are
\* more bookings live than the capacity one of them was accepted under.
NoDoubleBooking ==
    \A s \in Slots : LET held == Held({s})
                     IN held # {} => \E b \in held : Cardinality(held) <= booking[b].under

\* "A fee can never be marked collected without the money landing, or twice", and a booking
\* that is closed owes none.
FeeMatchesMoney ==
    \A b \in Bookable : /\ booking[b].income = IF booking[b].fee = "COLLECTED" THEN 1 ELSE 0
                        /\ booking[b].status \in {"CANCELLED", "REJECTED"} => booking[b].fee # "DUE"
=============================================================================
