\* Every transaction runs once; then nothing is left to do.
CHECK_DEADLOCK FALSE
SPECIFICATION FairSpec
CONSTANTS
  Txns = {t1, t2, t3}
  t1 = t1
  t2 = t2
  t3 = t3
  Kinds <- ThreeRequests
  LastFlat = 2
  LastMonth = 2
  Drafts = {2}
  Accounts = {c1, c2}
  Amounts = {3}
  Due = 2
  Credits = {0, 3}
INVARIANTS
  TypeOK
  MoneyMoved
  NeverOverpaid
  PaymentNeverDeadlocks
PROPERTIES
  EveryOneEnds
