SPECIFICATION Spec
CONSTANTS
  Xids <- MCXids
  my_ip <- MCmy_ip
  sub_addr <- MCsub_addr
  MsgTypes <- MCMsgTypes
  InboxCap = 2
  MaxDatagrams = 4
INVARIANTS
  UnknownHasNoAddress
CHECK_DEADLOCK FALSE
