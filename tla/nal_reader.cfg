CONSTANTS
  MaxLen = 8
  Streams <- StringsAndFiles
SPECIFICATION Spec
INVARIANTS
  TypeOK
  FoundFirst
  EveryUnit
  UnitsInOrder
PROPERTIES
  WordsInside
  FileRestarts
CHECK_DEADLOCK FALSE
