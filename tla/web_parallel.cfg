SPECIFICATION WebSpec
CONSTANTS
  Pages = {w1, w2}
  Callers = {w1, w2}
  Outages = FALSE
  MaxTokens = 2
  Ends = 0
CHECK_DEADLOCK FALSE
PROPERTIES
  OnlyDeadTokensDeleted
