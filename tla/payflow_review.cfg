SPECIFICATION Spec
CONSTANTS
  Residents = {r1}
  Admins = {a1}
  Payments = {p1, p2, p3}
  Utrs = {u1}
  NoUtr = NoUtr
  Accounts = {c1, c2}
  NoAcct = NoAcct
  Files = {f1, f2}
  NoFile = NoFile
  NoPay = NoPay
  Amounts = {1, 3}
  Forms <- TransferOrCash
  RecordForms <- OneTransfer
  Dues = 2
  AdminOps = {"approve", "reject", "record", "accounts"}
  VerifySettings = {TRUE}
  Faults = FALSE
SYMMETRY Interchangeable
CHECK_DEADLOCK TRUE
INVARIANTS
  TypeOK
  OneCreditPerUtr
  BalanceMatchesLedger
  TakenBackUnsettled
  NoHalfMadeRow
  NoOrphanFile
