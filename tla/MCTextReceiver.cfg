SPECIFICATION Spec
CONSTANTS
  Size = 3
  MaxInput = 4
  MaxSent = 3
INVARIANTS
  TypeOK
  LineIsLatestTexts
  RawPrintsTheText
CHECK_DEADLOCK FALSE
