\* one session, requests are split
SPECIFICATION Spec
CONSTANTS
  s1 = s1
  Sessions = {s1}
  Methods = {"OPTIONS"}
  Modes = {}
  HeaderLines <- PlainLines
  Spacings = {TRUE}
  MaxRequests = 2
  BufSize = 6
  Sequential = TRUE
  Segmented = TRUE
INVARIANTS SplitAnswered
CHECK_DEADLOCK FALSE
