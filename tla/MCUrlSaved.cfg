SPECIFICATION Spec
CONSTANT MaxFrames = 3
INVARIANTS
  AllUrlsSaved
CHECK_DEADLOCK FALSE
