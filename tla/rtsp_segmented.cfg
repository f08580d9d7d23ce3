\* one session whose requests TCP may split anywhere
SPECIFICATION Spec
CONSTANTS
  s1 = s1
  Sessions = {s1}
  Methods = {"OPTIONS", "SETUP", "PLAY", "PAUSE", "TEARDOWN"}
  Modes = {"tcp", "udp"}
  HeaderLines <- MixedLines
  Spacings = {TRUE, FALSE}
  MaxRequests = 3
  BufSize = 6
  Sequential = TRUE
  Segmented = TRUE
INVARIANTS TypeOK OkMatches TransportAgreed
CHECK_DEADLOCK FALSE
