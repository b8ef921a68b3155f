----------------------------- MODULE MCDhcpServer ----------------------------
(* A /24 network and three transactions: 1 and 256 hash to the same slot,  *)
(* 131072 has its own.  RELEASE stands for the types the server ignores,   *)
(* endless for options that it never comes to the end of.                  *)
EXTENDS DhcpServer

MCXids == { << 1, 0, 0, 0 >>, << 0, 1, 0, 0 >>, << 0, 0, 2, 0 >> }
MCmy_ip == << 192, 168, 0, 10 >>
MCsub_addr == << 255, 255, 255, 0 >>
MCMsgTypes == { "DISCOVER", "REQUEST", "RELEASE", "endless" }
==============================================================================
