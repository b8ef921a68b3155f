SPECIFICATION Spec
CONSTANTS
  Xids <- MCXids
  my_ip <- MCmy_ip
  sub_addr <- MCsub_addr
  MsgTypes <- MCMsgTypes
  InboxCap = 2
  MaxDatagrams = 4
INVARIANTS
  AckIsBound
CHECK_DEADLOCK FALSE
