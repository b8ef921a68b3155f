----------------------------- MODULE DhcpOptions -----------------------------
(***************************************************************************)
(* The options of a DHCP message: set_dhcp_hdr_from_dhcp_opt, which writes *)
(* them into the options field, and set_dhcp_opt_from_dhcp_hdr, which      *)
(* reads them back, one option per turn of its loop.                       *)
(*                                                                         *)
(* A field holds a list of options, each a code and its value.  The list   *)
(* is what the sender meant; the reader sees only the bytes.  The bytes    *)
(* after the sender's are zero, because the header was cleared before the  *)
(* datagram was copied into it; what lies beyond OPT_MAX_L bytes is not    *)
(* part of the field, and a reader that gets there is "lost".              *)
(***************************************************************************)
EXTENDS Integers, Sequences, SequencesExt

CONSTANTS
  Sent,       \* the option structs that this program may write
  Received    \* the option lists that other senders may write

OPT_MAX_L == 312
ETHER_ADDR_L == 6
IP_ADDR_L == 4
MAGIC_COOKIE == << 99, 130, 83, 99 >>

DHCP_MSG_OP == 53
DHCP_HST_NAME_OP == 12
DHCP_CLT_ID_OP == 61
DHCP_SUB_MSK_OP == 1
DHCP_RNW_TIME_OP == 58
DHCP_RBN_TIME_OP == 59
DHCP_IP_LEASE_TIME_OP == 51
DHCP_SRV_ID_OP == 54
DHCP_RTR_ID_OP == 3
DHCP_RQT_ID_OP == 50
DHCP_DNS_OP == 6
DHCP_END_OP == 255

(* dhcp_msg_t, in the order of the values on the wire.                     *)
dhcp_msg_t == << "DISCOVER", "OFFER", "REQUEST", "DECLINE",
                 "ACK", "NAK", "RELEASE", "INFORM" >>

Zeros(n) == [i \in 1 .. n |-> 0]
IsZero(v) == \A i \in DOMAIN v : v[i] = 0

(* dhcp_opt, its numbers as the bytes they lie in memory as.               *)
no_opt == [dhcp_msg |-> "INVALID", hst_name |-> << >>, clt_id |-> Zeros(ETHER_ADDR_L),
           sub_msk |-> Zeros(IP_ADDR_L), rnw_time |-> Zeros(4), rbn_time |-> Zeros(4),
           ip_lease_time |-> Zeros(4), srv_id |-> Zeros(IP_ADDR_L),
           rtr_id |-> Zeros(IP_ADDR_L), rqt_id |-> Zeros(IP_ADDR_L), dns_id |-> Zeros(IP_ADDR_L)]

VARIABLES
  options,    \* history: the list of options the sender wrote
  written,    \* history: the struct it was written from, no_opt for other senders
  field,      \* the options field, up to its DHCP_END_OP
  ptr,        \* offset of the reader in the field
  opt,        \* the struct the reader fills in
  cookie_status,
  status      \* "start", "walking", "done" or "lost"

vars == << options, written, field, ptr, opt, cookie_status, status >>
sender_vars == << options, written, field >>

-----------------------------------------------------------------------------
(* Writing.                                                                *)

(* Slip: an option's length counts its code and length bytes as well.      *)
Bytes_LongLength(o) == << o.code, (Len(o.value) + 2) % 256 >> \o o.value

(* An option: its code, the length of its value in one byte, the value.    *)
Bytes(o) == << o.code, Len(o.value) % 256 >> \o o.value

Field(os) == MAGIC_COOKIE \o FlattenSeq([i \in DOMAIN os |-> Bytes(os[i])]) \o << DHCP_END_OP >>

(* The type option, and one for a value that counts as valid if not zero.  *)
MsgOption(msg) ==
  IF \E v \in 1 .. 8 : dhcp_msg_t[v] = msg
  THEN << [code |-> DHCP_MSG_OP, value |-> << CHOOSE v \in 1 .. 8 : dhcp_msg_t[v] = msg >>] >>
  ELSE << >>
Option(code, v, prefix) ==
  IF IsZero(v) THEN << >> ELSE << [code |-> code, value |-> prefix \o v] >>

(* set_dhcp_hdr_from_dhcp_opt: the options of a struct, in the order they  *)
(* are appended.  (For rqt_id the flag of srv_id is set, so it is never    *)
(* appended; a client id is preceded by its hardware type.)                *)
set_dhcp_hdr_from_dhcp_opt(o) ==
  MsgOption(o.dhcp_msg)
  \o Option(DHCP_HST_NAME_OP, o.hst_name, << >>)
  \o Option(DHCP_CLT_ID_OP, o.clt_id, << 1 >>)
  \o Option(DHCP_SUB_MSK_OP, o.sub_msk, << >>)
  \o Option(DHCP_RTR_ID_OP, o.rtr_id, << >>)
  \o Option(DHCP_RNW_TIME_OP, o.rnw_time, << >>)
  \o Option(DHCP_RBN_TIME_OP, o.rbn_time, << >>)
  \o Option(DHCP_IP_LEASE_TIME_OP, o.ip_lease_time, << >>)
  \o Option(DHCP_SRV_ID_OP, o.srv_id, << >>)
  \o Option(DHCP_DNS_OP, o.dns_id, << >>)

(* Structs as the code declares them, any number of options; but each list *)
(* fits the field, which neither the program nor the model checks.         *)
ASSUME OptionsAssumption ==
  LET Address == [1 .. IP_ADDR_L -> 0 .. 255]
      Time == [1 .. 4 -> 0 .. 255]
  IN  /\ Sent \subseteq
           [dhcp_msg : {"INVALID"} \union { dhcp_msg_t[v] : v \in 1 .. 8 },
            hst_name : Seq(1 .. 255), clt_id : [1 .. ETHER_ADDR_L -> 0 .. 255],
            sub_msk : Address, rnw_time : Time, rbn_time : Time, ip_lease_time : Time,
            srv_id : Address, rtr_id : Address, rqt_id : Address, dns_id : Address]
      /\ Received \subseteq Seq([code : 0 .. 255, value : Seq(0 .. 255)])
      /\ \A o \in Sent : Len(Field(set_dhcp_hdr_from_dhcp_opt(o))) <= OPT_MAX_L
      /\ \A os \in Received : Len(Field(os)) <= OPT_MAX_L

-----------------------------------------------------------------------------
(* Reading.                                                                *)

(* The byte at an offset, and n bytes from an offset.                      *)
At(i) == IF i < Len(field) THEN field[i + 1] ELSE 0
From(i, n) == [k \in 1 .. n |-> At(i + k - 1)]

(* Where the value of an option is stored.  (A renewal time goes to        *)
(* rtr_id.)  Other options are not stored.                                 *)
IpTarget ==
  [c \in {DHCP_SUB_MSK_OP, DHCP_RNW_TIME_OP, DHCP_SRV_ID_OP, DHCP_RTR_ID_OP,
          DHCP_RQT_ID_OP, DHCP_DNS_OP} |->
     CASE c = DHCP_SUB_MSK_OP -> "sub_msk"
       [] c = DHCP_SRV_ID_OP -> "srv_id"
       [] c = DHCP_RQT_ID_OP -> "rqt_id"
       [] c = DHCP_DNS_OP -> "dns_id"
       [] OTHER -> "rtr_id"]

(* Slip: the message type is taken from the option's length byte.          *)
Stored_TypeFromLength(code) ==
  IF code = DHCP_MSG_OP
  THEN [opt EXCEPT !.dhcp_msg = IF At(ptr + 1) \in 1 .. 8 THEN dhcp_msg_t[At(ptr + 1)] ELSE "INVALID"]
  ELSE opt

(* Slip: as many bytes are taken as the client id has.                     *)
Stored_WholeClientId(code) ==
  IF code = DHCP_CLT_ID_OP THEN [opt EXCEPT !.clt_id = From(ptr + 2, At(ptr + 1))] ELSE opt

(* What the struct holds once an option has been read.                     *)
Stored(code) ==
  CASE code = DHCP_MSG_OP ->
         [opt EXCEPT !.dhcp_msg = IF At(ptr + 2) \in 1 .. 8 THEN dhcp_msg_t[At(ptr + 2)] ELSE "INVALID"]
    [] code = DHCP_HST_NAME_OP -> [opt EXCEPT !.hst_name = From(ptr + 2, At(ptr + 1))]
    [] code = DHCP_CLT_ID_OP -> [opt EXCEPT !.clt_id = From(ptr + 2, ETHER_ADDR_L)]
    [] code \in DOMAIN IpTarget -> [opt EXCEPT ![IpTarget[code]] = From(ptr + 2, IP_ADDR_L)]
    [] OTHER -> opt

(* Slip: routers and DNS servers are taken to be one address each.         *)
dhcp_opt_len_OneAddress(code) ==
  IF code = DHCP_MSG_OP THEN 3
  ELSE IF code \in {DHCP_HST_NAME_OP, DHCP_CLT_ID_OP} THEN (2 + At(ptr + 1)) % 256 ELSE 6

(* Slip: an option without a case does not move the reader.                *)
dhcp_opt_len_NoDefault(code) ==
  CASE code = DHCP_MSG_OP -> 3
    [] code \in {DHCP_SUB_MSK_OP, DHCP_RBN_TIME_OP, DHCP_IP_LEASE_TIME_OP,
                 DHCP_SRV_ID_OP, DHCP_RQT_ID_OP} -> 6
    [] code \in {DHCP_HST_NAME_OP, DHCP_CLT_ID_OP, DHCP_RNW_TIME_OP,
                 DHCP_RTR_ID_OP, DHCP_DNS_OP} -> (2 + At(ptr + 1)) % 256
    [] OTHER -> 0

(* dhcp_opt_len, a uint8_t: how far the reader moves on.                   *)
dhcp_opt_len(code) ==
  CASE code = DHCP_MSG_OP -> 3
    [] code \in {DHCP_SUB_MSK_OP, DHCP_RBN_TIME_OP, DHCP_IP_LEASE_TIME_OP,
                 DHCP_SRV_ID_OP, DHCP_RQT_ID_OP} -> 6
    [] code \in {DHCP_HST_NAME_OP, DHCP_CLT_ID_OP, DHCP_RNW_TIME_OP,
                 DHCP_RTR_ID_OP, DHCP_DNS_OP} -> (2 + At(ptr + 1)) % 256
    [] OTHER -> 1

(* How many bytes a turn looks at.                                         *)
Reads(code) ==
  CASE code = DHCP_MSG_OP -> 3
    [] code = DHCP_HST_NAME_OP -> 2 + At(ptr + 1)
    [] code = DHCP_CLT_ID_OP -> 2 + ETHER_ADDR_L
    [] code \in DOMAIN IpTarget -> 2 + IP_ADDR_L
    [] OTHER -> 1

InField == ptr < OPT_MAX_L /\ ptr + Reads(At(ptr)) <= OPT_MAX_L

Init ==
  /\ \/ written \in Sent /\ options = set_dhcp_hdr_from_dhcp_opt(written)
     \/ written = no_opt /\ options \in Received
  /\ field = Field(options)
  /\ ptr = 0
  /\ opt = no_opt
  /\ cookie_status = "OK"
  /\ status = "start"

(* set_dhcp_opt_from_dhcp_hdr: check the cookie and step over it.          *)
Cookie ==
  /\ status = "start"
  /\ cookie_status' = IF From(0, 4) = MAGIC_COOKIE THEN "OK" ELSE "NOK"
  /\ ptr' = 4
  /\ status' = "walking"
  /\ UNCHANGED << opt, sender_vars >>

(* One turn of the loop.                                                   *)
ReadOption ==
  /\ status = "walking"
  /\ InField
  /\ At(ptr) # DHCP_END_OP
  /\ opt' = Stored(At(ptr))
  /\ ptr' = ptr + dhcp_opt_len(At(ptr))
  /\ UNCHANGED << cookie_status, status, sender_vars >>

End ==
  /\ status = "walking"
  /\ InField
  /\ At(ptr) = DHCP_END_OP
  /\ status' = "done"
  /\ UNCHANGED << ptr, opt, cookie_status, sender_vars >>

(* The loop has no other end than DHCP_END_OP: without one the reader      *)
(* leaves the field, and what it finds there is not modelled.              *)
Overrun ==
  /\ status = "walking"
  /\ ~InField
  /\ status' = "lost"
  /\ UNCHANGED << ptr, opt, cookie_status, sender_vars >>

Next == Cookie \/ ReadOption \/ End \/ Overrun
Spec == Init /\ [][Next]_vars

(* The reader runs without waiting for anything.                           *)
FairSpec == Spec /\ WF_vars(Next)

-----------------------------------------------------------------------------

(* The codes the reader has a case for.                                    *)
Known == { DHCP_MSG_OP, DHCP_HST_NAME_OP, DHCP_CLT_ID_OP, DHCP_SUB_MSK_OP,
           DHCP_RNW_TIME_OP, DHCP_RBN_TIME_OP, DHCP_IP_LEASE_TIME_OP,
           DHCP_SRV_ID_OP, DHCP_RTR_ID_OP, DHCP_RQT_ID_OP, DHCP_DNS_OP }

(* How long the reader takes a value of a code to be: fixed; or as its     *)
(* length byte says, if that does not wrap with the two bytes before the   *)
(* value, but never shorter than what is stored of it.                     *)
ValueLengths(code) ==
  CASE code = DHCP_MSG_OP -> {1}
    [] code = DHCP_HST_NAME_OP -> 0 .. 253
    [] code = DHCP_CLT_ID_OP -> ETHER_ADDR_L .. 253
    [] code \in {DHCP_RNW_TIME_OP, DHCP_RTR_ID_OP, DHCP_DNS_OP} -> IP_ADDR_L .. 253
    [] OTHER -> {IP_ADDR_L}

(* What the reader can make sense of: values of the length it takes them   *)
(* to have; and because it steps over an option without a case byte by     *)
(* byte, no such option with a byte that looks like one that has a case.   *)
Readable ==
  \A i \in DOMAIN options :
    \/ options[i].code \in Known /\ Len(options[i].value) \in ValueLengths(options[i].code)
    \/ \A k \in DOMAIN Bytes(options[i]) : Bytes(options[i])[k] \notin Known \union {DHCP_END_OP}

(* Where the i-th option ends, and the options the reader has passed.      *)
EndOf(i) == Len(Field(SubSeq(options, 1, i))) - 1
Passed(i) == SubSeq(options, 1, i)

(* The value of the last option of some codes, if there is one.            *)
LastValue(os, codes, default) ==
  LET at == { i \in DOMAIN os : os[i].code \in codes }
  IN  IF at = {} THEN default ELSE os[Max(at)].value

(* Every variable has its type.                                            *)
TypeOK ==
  /\ Len(field) <= OPT_MAX_L
  /\ \A i \in DOMAIN field : field[i] \in 0 .. 255
  /\ ptr \in 0 .. OPT_MAX_L + 255
  /\ DOMAIN opt = DOMAIN no_opt
  /\ opt.dhcp_msg \in {"INVALID"} \union {dhcp_msg_t[i] : i \in 1 .. 8}
  /\ Len(opt.hst_name) <= 255
  /\ Len(opt.clt_id) = ETHER_ADDR_L
  /\ \A f \in {"sub_msk", "srv_id", "rtr_id", "rqt_id", "dns_id"} : Len(opt[f]) = IP_ADDR_L
  /\ cookie_status \in {"OK", "NOK"}
  /\ status \in {"start", "walking", "done", "lost"}

(* The reader and the sender agree where options begin: it is always at    *)
(* the end of some option of the list, or inside one it has no case for,   *)
(* whatever the bytes of the values are, and it ends at the list's end.    *)
Aligned ==
  Readable /\ status # "start" =>
    /\ status # "lost"
    /\ \/ \E i \in 0 .. Len(options) : ptr = EndOf(i)
       \/ \E i \in DOMAIN options : options[i].code \notin Known /\ ptr \in EndOf(i - 1) .. EndOf(i)
    /\ status = "done" => ptr = EndOf(Len(options))

(* A struct holds what the first i options say.  (Not a client id, of      *)
(* which the hardware type is taken for the first byte; and no router once *)
(* there was a renewal time, which is stored in its place.)                *)
Agrees(s, i) ==
  LET Ip(code) == SubSeq(LastValue(Passed(i), {code}, Zeros(IP_ADDR_L)), 1, IP_ADDR_L)
      msg == LastValue(Passed(i), {DHCP_MSG_OP}, << 0 >>)[1]
  IN  /\ s.dhcp_msg = IF msg \in 1 .. 8 THEN dhcp_msg_t[msg] ELSE "INVALID"
      /\ s.hst_name = LastValue(Passed(i), {DHCP_HST_NAME_OP}, << >>)
      /\ s.sub_msk = Ip(DHCP_SUB_MSK_OP)
      /\ s.srv_id = Ip(DHCP_SRV_ID_OP)
      /\ s.rqt_id = Ip(DHCP_RQT_ID_OP)
      /\ s.dns_id = Ip(DHCP_DNS_OP)
      /\ (\A k \in DOMAIN Passed(i) : Passed(i)[k].code # DHCP_RNW_TIME_OP)
         => s.rtr_id = Ip(DHCP_RTR_ID_OP)

(* What the reader has stored is what the options it has passed say, the   *)
(* last one of a code winning; of several routers or DNS servers it keeps  *)
(* the first.  (What it makes of a client id and of a renewal time is none *)
(* of this: see Agrees.)                                                   *)
AgreesWithSender ==
  \A i \in 0 .. Len(options) :
    Readable /\ status # "start" /\ ptr = EndOf(i) => Agrees(opt, i)

(* What this program writes it reads back: the message type, the host      *)
(* name, the mask, the server and the DNS server survive the round trip,   *)
(* if the name is not so long that its length wraps in the reader.         *)
ReadsBack ==
  status = "done" /\ written # no_opt /\ Len(written.hst_name) < 254 =>
    \A f \in {"dhcp_msg", "hst_name", "sub_msk", "srv_id", "dns_id"} : opt[f] = written[f]

(* The reader comes to the end of every list that it can read.             *)
Terminates == <>(Readable => status = "done")
==============================================================================
