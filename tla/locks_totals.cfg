\* Every transaction runs once; then nothing is left to do.
CHECK_DEADLOCK FALSE
SPECIFICATION Spec
CONSTANTS
  Txns = {t1, t2}
  t1 = t1
  t2 = t2
  t3 = t3
  Kinds <- PaymentsAndFines
  LastFlat = 2
  LastMonth = 1
  Drafts = {}
  Accounts = {c1}
  Amounts = {1}
  Due = 2
  Credits = {0}
INVARIANTS
  TotalsInStep
