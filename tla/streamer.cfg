\* a streamer with up to two sessions, whose clients may not read
SPECIFICATION Spec
CONSTANTS
  s1 = s1
  s2 = s2
  Clients = Clients
  Freed = Freed
  Sessions = {s1, s2}
  Requests = {"setupTcp", "setupUdp", "play", "teardown", "bad"}
  Room = 1
  MaxPackets = 2
INVARIANTS TypeOK Ring NoDangling StoppedGone AllGiven
PROPERTIES RoundsInOrder Polled ClosedLeaves StreamGoesOn
CHECK_DEADLOCK FALSE
