SPECIFICATION Spec
CONSTANTS
  Residents = {r1, r2}
  Admins = {a1}
  Payments = {p1, p2}
  Utrs = {u1}
  NoUtr = NoUtr
  Accounts = {c1}
  NoAcct = NoAcct
  Files = {f1, f2}
  NoFile = NoFile
  NoPay = NoPay
  Amounts = {1, 3}
  Forms <- PartOrMore
  RecordForms <- OneTransfer
  Dues = 2
  AdminOps = {"approve", "reject"}
  VerifySettings = {TRUE, FALSE}
  Faults = TRUE
SYMMETRY Interchangeable
CHECK_DEADLOCK TRUE
INVARIANTS
  CreditedOnce
  MoneyAccountedFor
  ProofCanBeOpened
  ToldOfDecision
PROPERTIES
  BookSpec
