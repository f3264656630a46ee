---------------------------- MODULE PaymentBook ----------------------------
(***************************************************************************)
(* What the payment flow promises the books, whatever requests, retries    *)
(* and restarts it takes: a payment is decided once, an approved payment   *)
(* has exactly one entry and no other payment has any.                     *)
(***************************************************************************)
CONSTANT Payments
VARIABLES status,   \* what became of each payment
          entries   \* the ledger entries written for each payment

Init == /\ status = [p \in Payments |-> "NONE"]
        /\ entries = [p \in Payments |-> {}]

Become(p, from, to) == /\ status[p] \in from
                       /\ status' = [status EXCEPT ![p] = to]

Submit(p) == Become(p, {"NONE"}, "PENDING") /\ UNCHANGED entries
Reject(p) == Become(p, {"PENDING"}, "REJECTED") /\ UNCHANGED entries
TakeBack(p) == Become(p, {"PENDING"}, "DELETED") /\ UNCHANGED entries

\* A payment that needs no review is approved as it is submitted.
Approve(p) ==
    /\ Become(p, {"NONE", "PENDING"}, "APPROVED")
    /\ \E n \in entries'[p] :
          /\ \A q \in Payments : n \notin entries[q]
          /\ entries' = [entries EXCEPT ![p] = {n}]

Next == \E p \in Payments : Submit(p) \/ Reject(p) \/ TakeBack(p) \/ Approve(p)

Spec == Init /\ [][Next]_<<status, entries>>
=============================================================================
