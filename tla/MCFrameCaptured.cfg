SPECIFICATION Spec
CONSTANTS
  Traffic <- MCTraffic
  Headers <- MCHeaders
  TextCap = 10
  MaxFrames = 2
  StoreCap = 2
  MaxFailures = 0
INVARIANTS
  AllFramesCaptured
CHECK_DEADLOCK FALSE
