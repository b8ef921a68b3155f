SPECIFICATION FairSpec
CONSTANTS
  Traffic <- MCTraffic
  Headers <- MCHeaders
  TextCap = 10
  MaxFrames = 3
  StoreCap = 2
  MaxFailures = 1
INVARIANTS
  TypeOK
  RequestGivesItsUrl
  NothingGivesNoUrl
  
  FramesInOrder
  
PROPERTIES
  FirstIsInspected
CHECK_DEADLOCK FALSE
