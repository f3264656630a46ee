SPECIFICATION ServicesSpec
CONSTANTS
  Passes = {inv}
  Invitations = {inv}
  Attempts = {a1}
  GuardCalls = {g1}
  Answers = {d1}
  MaxUses = 1
  bank = bank
  corpus = corpus
  Accounts = {bank}
  Funds = {corpus}
  Expenses = {e1, e2}
  Salaries = {s1}
  Linked <- MCLinked
  Opening <- MCOpening
  Amounts = {1}
  Calls = {c1, c2}
  MaxMoves = 0
  Bookable = {b1}
  Flats = {f1}
  Times <- MCTimes
  RuleSets <- MCRules
  Tasks = {t1}
  h1 = h1
  h2 = h2
  Homes = {h1, h2}
  Favoured = {h1}
  Area <- MCArea
  People <- MCPeople
  RuleBooks <- MCRuleBooks
  Offers <- MCOffers
  MaxOffers = 2
  Costs = {101}
  Uses = {1, 2}
  Tariffs <- MCTariffs
  Limits <- MCLimits
  MaxSingles = 0
CHECK_DEADLOCK FALSE
INVARIANT EventRecordedOnce
