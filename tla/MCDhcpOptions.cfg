SPECIFICATION FairSpec
CONSTANTS
  Sent <- MCSent
  Received <- MCReceived
  MaxOptions = 3
INVARIANTS
  TypeOK
  Aligned
  AgreesWithSender
  ReadsBack
PROPERTIES
  Terminates
CHECK_DEADLOCK FALSE
