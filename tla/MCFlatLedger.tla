---------------------------- MODULE MCFlatLedger ----------------------------
(* Small instances of FlatLedger for TLC.                                  *)
EXTENDS FlatLedger

\* A fixed fine, and a capped percentage that rounds to nothing on a bill of 2.
FixedAndPercent == {[type |-> "FIXED", value |-> 1, max |-> 0],
                    [type |-> "PERCENTAGE", value |-> 20, max |-> 1]}
FixedFine == {[type |-> "FIXED", value |-> 1, max |-> 0]}

UpAndDown == {-1, 1}
=============================================================================
