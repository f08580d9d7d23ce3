CONSTANTS
  MaxLen = 0
  Streams <- Files
SPECIFICATION Spec
INVARIANT
  AllUnits
CHECK_DEADLOCK FALSE
