\* aggregation, no size between MaxPayload - 4 and MaxPayload
SPECIFICATION Spec
CONSTANTS
  s1 = s1
  s2 = s2
  Sessions = {s1, s2}
  MaxPayload = 8
  Aggregation = TRUE
  LastFlags = {0, 1}
  NalSizes = {1, 2, 4, 14}
  SeqWrap = 4
  TsWrap = 8
  TsStep = 3
  MaxNals = 3
INVARIANTS Unbroken FitsBuffer
PROPERTIES DeliversInOrder
CHECK_DEADLOCK FALSE
