SPECIFICATION BackgroundSpec
CONSTANTS
  Requests = {r1, r2}
  Logouts = {l1}
  Pages = {w1, w2}
  Callers = {r1, r2, l1, w1, w2}
  Outages = TRUE
  MaxTokens = 3
  Ends = 1
  Unreliable = TRUE
  number = number
  meta = meta
  Servers = {p1, p2}
  Societies = {number, meta}
  Through <- MCThrough
  MaxMessages = 2
  DailyCap = 1
  MaxAttempts = 2
  PerRun = 2
  Disturbances = 1
CHECK_DEADLOCK FALSE
INVARIANTS
  TypeOK
  OneSuccessor
  SessionSurvives
  NeverSentTwice
  DailyLimit
PROPERTIES
  CookieNeverStepsBack
  RequestsSettle
  EveryMessageEnds
