\* The months, bills and payments of an instance run out.
CHECK_DEADLOCK FALSE
SPECIFICATION Spec
CONSTANTS
  LastMonth = 2
  BillAmounts = {2}
  Amounts = {1, 3}
  Adjustments <- UpAndDown
  FeeSettings <- FixedAndPercent
  Admins = {a1}
  Ops = {"fine", "waive", "adjust", "opening", "correct", "refund"}
  MaxPayments = 2
  MaxBills = 2
  MaxTotal = 2
INVARIANTS
  TypeOK
  MoneyKept
  OverpaidOnlyByWaiver
  CollectedMatches
PROPERTIES
  CreditPutToWork
  OldestFirst
  FinedOnce
