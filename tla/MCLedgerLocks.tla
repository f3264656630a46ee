--------------------------- MODULE MCLedgerLocks ---------------------------
(* Small instances of LedgerLocks for TLC.                                 *)
EXTENDS LedgerLocks

CONSTANTS t1, t2, t3

\* The requests are alike, so one of them is the payment or publish that the others
\* meet, one may be anything, and two that publish need no third.
ThreeRequests ==
    [t \in Txns |-> CASE t = t1 -> {"settle", "publish"}
                     [] t = t2 -> AllKinds
                     [] t = t3 -> AllKinds \ {"publish"}]

PaymentsAndFines == [t \in Txns |-> {"settle", "fine"}]
=============================================================================
