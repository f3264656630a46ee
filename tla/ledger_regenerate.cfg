\* The months, bills and payments of an instance run out.
CHECK_DEADLOCK FALSE
SPECIFICATION Spec
CONSTANTS
  LastMonth = 1
  BillAmounts = {2}
  Amounts = {1, 3}
  Adjustments <- UpAndDown
  FeeSettings <- FixedFine
  Admins = {a1, a2}
  Ops = {"opening"}
  MaxPayments = 1
  MaxBills = 4
  MaxTotal = 3
PROPERTIES
  PublishedStays
