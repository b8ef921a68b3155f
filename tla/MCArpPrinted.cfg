SPECIFICATION Spec
CONSTANTS
  Traffic <- MCTraffic
  MaxFrames = 1
  QueueCap = 2
INVARIANT ArpIsPrinted
CHECK_DEADLOCK FALSE
