------------------------------- MODULE MCArpTool -----------------------------
(* Frames in play: requests, replies, a frame of another protocol, and one *)
(* whose Ethernet type has the bytes of that of ARP swapped.               *)
EXTENDS ArpTool

MCTraffic ==
  { [ethertype |-> "arp", operation |-> "request"],
    [ethertype |-> "arp", operation |-> "reply"],
    [ethertype |-> "swapped", operation |-> "none"],
    [ethertype |-> "other", operation |-> "none"] }
==============================================================================
