SPECIFICATION Spec
CONSTANTS
  Residents = {r1}
  Admins = {a1, a2}
  Payments = {p1, p2}
  Utrs = {u1}
  NoUtr = NoUtr
  Accounts = {c1}
  NoAcct = NoAcct
  Files = {f1}
  NoFile = NoFile
  NoPay = NoPay
  Amounts = {1, 3}
  Forms <- OneTransfer
  RecordForms <- OneTransfer
  Dues = 2
  AdminOps = {"approve", "record"}
  VerifySettings = {TRUE}
  Faults = FALSE
SYMMETRY Interchangeable
CHECK_DEADLOCK TRUE
INVARIANTS
  TakenBackUnsettled
