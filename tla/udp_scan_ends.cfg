\* a streamer with two sessions, and other programs that take and free ports
SPECIFICATION Spec
CONSTANTS
  w1 = w1
  s1 = s1
  s2 = s2
  Workers = {w1}
  Sessions = {s1, s2}
  FirstPort = 4
  PortMod = 10
  MaxFd = 2
  MaxSetups = 2
  ForeignPorts = {4, 7}
INVARIANTS ScanLeaksOnlyStdin
PROPERTIES ScanEnds
