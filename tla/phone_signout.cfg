SPECIFICATION PhoneSpec
CONSTANTS
  Requests = {r1}
  Logouts = {l1, l2}
  Callers = {r1, l1, l2}
  MaxTokens = 2
  Ends = 1
  Unreliable = FALSE
CHECK_DEADLOCK FALSE
PROPERTIES
  SignOutsEnd
