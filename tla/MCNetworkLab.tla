----------------------------- MODULE MCNetworkLab ----------------------------
(* The whole program, small: one DHCP client, and frames that are a whole  *)
(* request, one cut before its host name, the start of one that the bytes  *)
(* left in the buffer could complete, a query, or nothing of interest.     *)
EXTENDS NetworkLab

MCXids == { << 1, 0, 0, 0 >> }
MCmy_ip == << 192, 168, 0, 10 >>
MCsub_addr == << 255, 255, 255, 0 >>
MCMsgTypes == { "REQUEST", "endless" }
MCTraffic ==
  { [kind |-> "http", text |-> << "/", "sp", "Host:", "sp", "nl" >>],
    [kind |-> "http", text |-> << "/", "sp", "Host:", "sp" >>],
    [kind |-> "http", text |-> << "/", "sp" >>],
    [kind |-> "dns_query", text |-> << "len1", "char", "NUL" >>],
    [kind |-> "ip", text |-> << >>],
    [kind |-> "other", text |-> << >>] }
MCHeaders == { << "char", "NUL", "nl" >>, << "/", "sp", "NUL" >> }
==============================================================================
