SPECIFICATION FairSpec
CONSTANTS
  Traffic <- MCTraffic
  MaxFrames = 3
  QueueCap = 2
INVARIANTS
  TypeOK
  WireInNetworkOrder
  AnswersDiffer
  LoopSendsToAnswers
PROPERTIES
  AnswerEndsWait
CHECK_DEADLOCK FALSE
