SPECIFICATION LabFairSpec
CONSTANTS
  Xids <- MCXids
  my_ip <- MCmy_ip
  sub_addr <- MCsub_addr
  MsgTypes <- MCMsgTypes
  InboxCap = 1
  MaxDatagrams = 1
  Traffic <- MCTraffic
  Headers <- MCHeaders
  TextCap = 6
  StoreCap = 2
  MaxFailures = 1
  MaxFrames = 2
INVARIANTS
  OnlyRequestsInFile
  LatestRequestSaved
PROPERTIES
  ImplementsHandoff
  RequestReachesFile
CHECK_DEADLOCK FALSE
