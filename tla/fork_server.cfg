\* four clients, two descriptors for connections, four processes
SPECIFICATION Spec
CONSTANTS
  c1 = c1
  c2 = c2
  c3 = c3
  c4 = c4
  Failed = Failed
  Connections = {c1, c2, c3, c4}
  MaxProcs = 4
  MaxOpen = 2
  Backlog = 2
INVARIANTS OneWorker OneAcceptor
PROPERTIES ClientsServed ComesBack
