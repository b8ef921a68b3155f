---------------------------- MODULE MCFrameSniffer ---------------------------
(* Frames in play: a whole request (of maximal size), the first piece of   *)
(* one that was cut in its host name, a short one that was cut there, the  *)
(* rest of one that was cut in its path, an acknowledgement without text,  *)
(* one with a NUL in its path, an upload of maximal size, the query for a  *)
(* name of two labels, one for the root and one that ends before its name, *)
(* frames that only move lst_ip or nothing, and a Host line without a      *)
(* path.  A header has nothing the parser looks for before its first NUL,  *)
(* or a path, or the end of a line.                                        *)
EXTENDS FrameSniffer

MCRequest == << "char", "/", "char", "sp", "/", "nl", "Host:", "sp", "char", "nl" >>
MCTraffic ==
  { [kind |-> "http", text |-> t] :
      t \in { MCRequest, SubSeq(MCRequest, 1, 9), SubSeq(MCRequest, 3, 10),
              << "Host:", "sp", "char", "nl" >>, << >>,
              << "/", "sp", "Host:", "sp", "char" >>,
              << "/", "NUL", "sp", "Host:", "sp", "char", "nl" >>,
              [i \in 1 .. 10 |-> "char"] } }
  \union
  { [kind |-> "dns_query", text |-> << "len2", "char", "char", "len1", "char", "NUL" >>],
    [kind |-> "dns_query", text |-> << "NUL" >>],
    [kind |-> "dns_query", text |-> << >>],
    [kind |-> "ip", text |-> << "char", "sp" >>],
    [kind |-> "other", text |-> << >>] }

MCHeaders == { << "char", "NUL", "nl" >>, << "/", "sp", "NUL" >>, << "nl", "NUL", "/" >> }
==============================================================================
