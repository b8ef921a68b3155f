SPECIFICATION FairSpec
CONSTANTS
  Xids <- MCXids
  my_ip <- MCmy_ip
  sub_addr <- MCsub_addr
  MsgTypes <- MCMsgTypes
  InboxCap = 2
  MaxDatagrams = 5
INVARIANTS
  TypeOK
  AddressProvenance
  OneAckPerNumber
  SharedAddressMeansOverlap
PROPERTIES
  OfferNeverTaken
  AckHonoursOffer
  ReplyNamesItsRequest
  ImplementsLeaseBook
  RequestIsAcknowledged
CHECK_DEADLOCK FALSE
