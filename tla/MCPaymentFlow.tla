--------------------------- MODULE MCPaymentFlow ---------------------------
(* Small instances of PaymentFlow for TLC.                                 *)
EXTENDS PaymentFlow, TLC

\* One transfer of 3 for the bill, submitted with and without its proof.
OneTransfer ==
    {[utr |-> u, bill |-> TRUE, amt |-> 3, proof |-> f] : u \in Utrs, f \in BOOLEAN}

\* A transfer of a part of the bill with its proof, or of more than the bill, under
\* the same reference: what a first attempt sent and what a second one typed.
PartOrMore ==
    {[utr |-> u, bill |-> TRUE, amt |-> x, proof |-> x = 1] : u \in Utrs, x \in {1, 3}}

\* And cash that is for no bill in particular.
TransferOrCash ==
    OneTransfer \cup {[utr |-> NoUtr, bill |-> FALSE, amt |-> 1, proof |-> FALSE]}

\* Payment ids and file names are interchangeable; no liveness is checked.
Interchangeable == Permutations(Payments) \cup Permutations(Files)
=============================================================================
