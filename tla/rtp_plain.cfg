\* as testserver runs it: no aggregation, two sessions
SPECIFICATION Spec
CONSTANTS
  s1 = s1
  s2 = s2
  Sessions = {s1, s2}
  MaxPayload = 8
  Aggregation = FALSE
  LastFlags = {0}
  NalSizes = {1, 8, 9, 14}
  SeqWrap = 4
  TsWrap = 8
  TsStep = 3
  MaxNals = 3
INVARIANTS TypeOK Unbroken FitsBuffer FragmentFlags
PROPERTIES DeliversAll
CHECK_DEADLOCK FALSE
