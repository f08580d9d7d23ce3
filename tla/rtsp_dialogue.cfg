\* two sessions, each read returns a whole request
SPECIFICATION Spec
CONSTANTS
  s1 = s1
  s2 = s2
  Sessions = {s1, s2}
  Methods = {"OPTIONS", "SETUP", "PLAY", "PAUSE", "TEARDOWN"}
  Modes = {"tcp", "udp"}
  HeaderLines <- PlainLines
  Spacings = {FALSE}
  MaxRequests = 2
  BufSize = 6
  Sequential = TRUE
  Segmented = FALSE
PROPERTIES KeepsDialogue
CHECK_DEADLOCK FALSE
