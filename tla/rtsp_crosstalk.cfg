\* two sessions share the static buffer, requests are split and pipelined
SPECIFICATION Spec
CONSTANTS
  s1 = s1
  s2 = s2
  Sessions = {s1, s2}
  Methods = {"PLAY", "PAUSE", "TEARDOWN"}
  Modes = {}
  HeaderLines <- PlainLines
  Spacings = {TRUE}
  MaxRequests = 2
  BufSize = 6
  Sequential = FALSE
  Segmented = TRUE
INVARIANTS OwnCommand
CHECK_DEADLOCK FALSE
SYMMETRY Symmetry
