\* two forked workers, one session each, as testserver runs them
SPECIFICATION Spec
CONSTANTS
  w1 = w1
  w2 = w2
  s1 = s1
  Workers = {w1, w2}
  Sessions = {s1}
  FirstPort = 4
  PortMod = 10
  MaxFd = 2
  MaxSetups = 2
  ForeignPorts = {5, 6}
INVARIANTS TypeOK AdvertisedPair DistinctPairs
PROPERTIES SocketKept
SYMMETRY Symmetry
CHECK_DEADLOCK TRUE
