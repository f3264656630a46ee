SPECIFICATION ServicesSpec
CONSTANTS
  Passes = {inv, del}
  Invitations = {inv}
  Attempts = {a1, a2}
  GuardCalls = {g1, g2}
  Answers = {d1}
  MaxUses = 2
  bank = bank
  corpus = corpus
  Accounts = {bank}
  Funds = {corpus}
  Expenses = {e1, e2}
  Salaries = {s1}
  Linked <- MCLinked
  Opening <- MCOpening
  Amounts = {1, 2}
  Calls = {c1, c2}
  MaxMoves = 1
  Bookable = {b1, b2}
  Flats = {f1, f2}
  Times <- MCTimes
  RuleSets <- MCRules
  Tasks = {t1, t2}
  h1 = h1
  h2 = h2
  Homes = {h1, h2}
  Favoured = {h1}
  Area <- MCArea
  People <- MCPeople
  RuleBooks <- MCRuleBooks
  Offers <- MCOffers
  MaxOffers = 2
  Costs = {101}
  Uses = {1, 2}
  Tariffs <- MCTariffs
  Limits <- MCLimits
  MaxSingles = 1
CHECK_DEADLOCK FALSE
INVARIANTS
  TypeOK
  UsesMatchEntries
  PaidMatchesRows
  SalaryPaidOnce
  NoDoubleBooking
  FeeMatchesMoney
  WaterPaysForItself
  BillAddsUp
PROPERTIES
  DecisionStands
