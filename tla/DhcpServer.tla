------------------------------ MODULE DhcpServer -----------------------------
(***************************************************************************)
(* The DHCP thread: init_DHCP_server (Application.c), the sockets it opens *)
(* for each datagram (wait_dhcp_hdr, send_dhcp_hdr in dhcp.c) and the      *)
(* address table (ippool.c).                                               *)
(*                                                                         *)
(* The clients and the network are the environment: at any moment a        *)
(* datagram of any type, of any transaction, may reach UDP port 67.  That  *)
(* covers retransmitted, duplicated, reordered and late datagrams, and     *)
(* clients that send a REQUEST without a DISCOVER to this server.          *)
(*                                                                         *)
(* What the thread does with a datagram is two actions, reading its        *)
(* options and the switch on its type: it is the only thread that touches  *)
(* this state, and no datagram can reach it meanwhile because its socket   *)
(* is closed.  Options need not let it come to the switch (see Endless).   *)
(***************************************************************************)
EXTENDS IpPool, Sequences

CONSTANTS
  my_ip,         \* address of the interface init() picked
  sub_addr,      \* its netmask
  MsgTypes,      \* the message types the environment sends
  InboxCap,      \* bound: datagrams the kernel buffers on the socket
  MaxDatagrams   \* bound: datagrams sent to the server

DhcpMsg == { "DISCOVER", "OFFER", "REQUEST", "DECLINE", "ACK", "NAK",
             "RELEASE", "INFORM", "INVALID" }

(* What a datagram's options are to set_dhcp_opt_from_dhcp_hdr: the type   *)
(* it reads, or "endless" if its loop does not end.  Its length of an      *)
(* option is a uint8_t, 0 after a length byte of 254, so that it stays     *)
(* where it is for ever; or it finds no end code anywhere.  (A reader that *)
(* leaves the field and finds one there has read some type.)               *)
Endless == "endless"
Reading == DhcpMsg \union {Endless}

DHCP_PRT_NUM_S == 67
DHCP_PRT_NUM_C == 68
FIRST_IP == 40   \* initial value of cur_ip

(* The network part of a configured interface does not start with octet 0, *)
(* and the counter stays within its low 24 bits.                           *)
ASSUME DhcpAssumption ==
  /\ my_ip \in Word
  /\ \A i \in 1 .. 4 : sub_addr[i] \in MaskBytes
  /\ sub_addr \in Word
  /\ MaskWord(my_ip, sub_addr)[1] \in 1 .. 255
  /\ MsgTypes \subseteq Reading
  /\ InboxCap \in Nat \ {0}
  /\ MaxDatagrams \in Nat
  /\ Bits24(FIRST_IP + MaxDatagrams)

VARIABLES
  pc,         \* where the thread is in its loop
  inbox,      \* datagrams buffered on the bound socket
  i_hdr,      \* the datagram being handled, in host order
  cur_ip,     \* number of the next address
  datagrams,  \* how many datagrams were sent so far
  replies,    \* history: every reply sent
  last        \* history: the latest reply to each transaction

vars == << pc, inbox, i_hdr, cur_ip, ippool, is_valid, datagrams, replies, last >>
server_vars == << cur_ip, ippool, is_valid, replies, last >>

(* A datagram holds its transaction id in network order.                   *)
Datagram == [dhcp_msg : Reading, trs_id : Word]

(* A reply: its type, the id on the wire, the address it gives, the UDP    *)
(* port it goes to, and (history) the value of cur_ip when it was sent.    *)
Reply == [dhcp_msg : {"OFFER", "ACK"}, trs_id : Word, own_ip : Word,
          port : {DHCP_PRT_NUM_S, DHCP_PRT_NUM_C},
          at : FIRST_IP .. FIRST_IP + MaxDatagrams]
NoReply == [dhcp_msg |-> "none"]

-----------------------------------------------------------------------------

(* Application.c: the network part of my_ip plus htonl(cur_ip).            *)
get_cur_ip(n) == AddWords(MaskWord(my_ip, sub_addr), htonl(Memory(n)))

Init ==
  /\ pc = "unbound"
  /\ inbox = << >>
  /\ i_hdr = [dhcp_msg |-> "INVALID", trs_id |-> ZeroWord]
  /\ cur_ip = FIRST_IP
  /\ PoolInit
  /\ datagrams = 0
  /\ replies = {}
  /\ last = [x \in Xids |-> NoReply]

(* wait_dhcp_hdr: open a socket and bind it to port 67.                    *)
Listen ==
  /\ pc = "unbound"
  /\ pc' = "listening"
  /\ UNCHANGED << inbox, i_hdr, datagrams, server_vars >>

(* A datagram reaches the host.  The kernel keeps it only while the socket *)
(* is bound and has room.                                                  *)
Arrive(t, x) ==
  /\ datagrams < MaxDatagrams
  /\ datagrams' = datagrams + 1
  /\ inbox' = IF pc = "listening" /\ Len(inbox) < InboxCap
              THEN Append(inbox, [dhcp_msg |-> t, trs_id |-> htonl(x)])
              ELSE inbox
  /\ UNCHANGED << pc, i_hdr, server_vars >>

(* Slip: the receive loop never breaks out, so the datagram is not handled. *)
Receive_NoBreak ==
  /\ pc = "listening"
  /\ inbox # << >>
  /\ i_hdr' = [Head(inbox) EXCEPT !.trs_id = htonl(@)]
  /\ inbox' = << >>
  /\ UNCHANGED << pc, datagrams, server_vars >>

(* wait_dhcp_hdr: take one datagram, convert it to host order and close    *)
(* the socket, which discards whatever else was buffered on it.            *)
Receive ==
  /\ pc = "listening"
  /\ inbox # << >>
  /\ i_hdr' = [Head(inbox) EXCEPT !.trs_id = htonl(@)]
  /\ inbox' = << >>
  /\ pc' = "reading"
  /\ UNCHANGED << datagrams, server_vars >>

(* set_dhcp_opt_from_dhcp_hdr comes to the end of the options.             *)
ReadOptions ==
  /\ pc = "reading"
  /\ i_hdr.dhcp_msg # Endless
  /\ pc' = "serving"
  /\ UNCHANGED << inbox, i_hdr, datagrams, server_vars >>

(* Slip: the id goes out in host order.                                    *)
send_dhcp_hdr_HostOrder(msg, ip) ==
  LET r == [dhcp_msg |-> msg, trs_id |-> i_hdr.trs_id, own_ip |-> ip,
            port |-> DHCP_PRT_NUM_S, at |-> cur_ip]
  IN  /\ replies' = replies \union {r}
      /\ last' = [last EXCEPT ![i_hdr.trs_id] = r]

(* send_dhcp_hdr: the reply to the transaction of i_hdr, converted to      *)
(* network order and broadcast to port DHCP_PRT_NUM_S.                     *)
send_dhcp_hdr(msg, ip) ==
  LET r == [dhcp_msg |-> msg, trs_id |-> htonl(i_hdr.trs_id), own_ip |-> ip,
            port |-> DHCP_PRT_NUM_S, at |-> cur_ip]
  IN  /\ replies' = replies \union {r}
      /\ last' = [last EXCEPT ![i_hdr.trs_id] = r]

(* The switch on the type of the datagram in hand, after whose case the    *)
(* thread listens anew.                                                    *)
Serves(msg) ==
  /\ pc = "serving"
  /\ i_hdr.dhcp_msg = msg
  /\ pc' = "unbound"
  /\ UNCHANGED << inbox, i_hdr, datagrams >>

(* Slip: the offer uses the number up.                                     *)
Discover_Consumes ==
  /\ Serves("DISCOVER")
  /\ send_dhcp_hdr("OFFER", get_cur_ip(cur_ip))
  /\ set_ip_for_trs_id(get_cur_ip(cur_ip), i_hdr.trs_id)
  /\ cur_ip' = cur_ip + 1

(* case DISCOVER: offer the next address and remember it, without using    *)
(* its number up.                                                          *)
Discover ==
  /\ Serves("DISCOVER")
  /\ send_dhcp_hdr("OFFER", get_cur_ip(cur_ip))
  /\ set_ip_for_trs_id(get_cur_ip(cur_ip), i_hdr.trs_id)
  /\ UNCHANGED cur_ip

(* Slip: a fresh acknowledgement takes the number before the next one.     *)
AckAddress_OffByOne(x) ==
  LET o_addr == get_ip_for_trs_id(x)
  IN  IF o_addr = ZeroWord THEN get_cur_ip(cur_ip - 1) ELSE o_addr

(* Slip: the table is not consulted.                                       *)
AckAddress_NoLookup(x) == get_cur_ip(cur_ip)

(* The address of an ACK: the remembered one, or the next one.             *)
AckAddress(x) ==
  LET o_addr == get_ip_for_trs_id(x)
  IN  IF o_addr = ZeroWord THEN get_cur_ip(cur_ip) ELSE o_addr

(* Slip: cur_ip moves on before the address is remembered.                 *)
Request_CountsFirst ==
  /\ Serves("REQUEST")
  /\ send_dhcp_hdr("ACK", AckAddress(i_hdr.trs_id))
  /\ cur_ip' = cur_ip + 1
  /\ set_ip_for_trs_id(get_cur_ip(cur_ip'), i_hdr.trs_id)

(* Slip: a number is used up only when the table had no address.           *)
Request_KeepsNumber ==
  /\ Serves("REQUEST")
  /\ send_dhcp_hdr("ACK", AckAddress(i_hdr.trs_id))
  /\ set_ip_for_trs_id(get_cur_ip(cur_ip), i_hdr.trs_id)
  /\ cur_ip' = IF get_ip_for_trs_id(i_hdr.trs_id) = ZeroWord THEN cur_ip + 1 ELSE cur_ip

(* Slip: the counter moves on with the reply and again with the table.     *)
Request_CountsTwice ==
  /\ Serves("REQUEST")
  /\ send_dhcp_hdr("ACK", AckAddress(i_hdr.trs_id))
  /\ set_ip_for_trs_id(get_cur_ip(cur_ip), i_hdr.trs_id)
  /\ cur_ip' = cur_ip + 2

(* case REQUEST: acknowledge, then remember the next address (not the one  *)
(* acknowledged) and use its number up.                                    *)
Request ==
  /\ Serves("REQUEST")
  /\ send_dhcp_hdr("ACK", AckAddress(i_hdr.trs_id))
  /\ set_ip_for_trs_id(get_cur_ip(cur_ip), i_hdr.trs_id)
  /\ cur_ip' = cur_ip + 1

(* Every other type only prints its name.                                  *)
Ignore ==
  /\ \E msg \in DhcpMsg \ {"DISCOVER", "REQUEST"} : Serves(msg)
  /\ UNCHANGED server_vars

(* Any socket call that fails ends the process: socket and bind before the *)
(* thread listens, recvfrom while it does, socket, setsockopt and sendto   *)
(* while it answers, before anything is remembered.  So does a reader that *)
(* finds no end code and runs out of its memory.                           *)
Exit ==
  /\ \/ pc \in {"unbound", "listening"}
     \/ pc = "reading" /\ i_hdr.dhcp_msg = Endless
     \/ pc = "serving" /\ i_hdr.dhcp_msg \in {"DISCOVER", "REQUEST"}
  /\ pc' = "exited"
  /\ inbox' = << >>
  /\ UNCHANGED << i_hdr, datagrams, server_vars >>

Environment == \E t \in MsgTypes, x \in Xids : Arrive(t, x)
Server == Listen \/ Receive \/ ReadOptions \/ Discover \/ Request \/ Ignore
Next == Environment \/ Server \/ Exit

Spec == Init /\ [][Next]_vars

(* The thread is never blocked but in recvfrom, so it keeps taking steps.  *)
(* (In the endless loop its steps change nothing, and no action has them.) *)
FairSpec == Spec /\ WF_vars(Server)

-----------------------------------------------------------------------------

Acks == { r \in replies : r.dhcp_msg = "ACK" }

(* No other transaction in play has the slot of x.                         *)
KeyUnique(x) ==
  \A y \in Xids \ {x} : get_key_for_trs_id(y) # get_key_for_trs_id(x)

(* Every variable has its type.                                            *)
TypeOK ==
  /\ pc \in {"unbound", "listening", "reading", "serving", "exited"}
  /\ inbox \in Seq(Datagram)
  /\ Len(inbox) <= InboxCap
  /\ i_hdr \in Datagram
  /\ cur_ip \in FIRST_IP .. FIRST_IP + MaxDatagrams
  /\ PoolTypeOK
  /\ datagrams \in 0 .. MaxDatagrams
  /\ replies \subseteq Reply
  /\ last \in [Xids -> Reply \union {NoReply}]

(* Nothing given out comes from nowhere: the address of every reply was    *)
(* the next address at some earlier moment when a transaction of the same  *)
(* slot was answered, although ippool is overwritten by every handshake    *)
(* that hashes to the slot.                                                *)
AddressProvenance ==
  \A r \in replies : \E q \in replies :
    /\ get_key_for_trs_id(q.trs_id) = get_key_for_trs_id(r.trs_id)
    /\ q.at <= r.at
    /\ r.own_ip = get_cur_ip(q.at)

(* Every number below cur_ip was used up by exactly one ACK: neither a     *)
(* DISCOVER, a lost datagram nor a repeated handshake skips or reuses one. *)
OneAckPerNumber ==
  /\ { r.at : r \in Acks } = FIRST_IP .. cur_ip - 1
  /\ \A r, s \in Acks : r.at = s.at => r = s

(* An OFFER never names an address that an earlier ACK gave away, also     *)
(* when that ACK came from a stale entry of ippool.                        *)
OfferNeverTaken ==
  [][i_hdr.dhcp_msg = "DISCOVER" /\ pc = "serving" /\ pc' = "unbound"
     => \A a \in Acks : a.own_ip # last'[i_hdr.trs_id].own_ip]_vars

(* Two transactions of different slots are acknowledged the same address   *)
(* only if both were answered while that address was the next one, that is *)
(* only if their handshakes overlapped.                                    *)
SharedAddressMeansOverlap ==
  \A r, s \in Acks :
    /\ r.own_ip = s.own_ip
    /\ get_key_for_trs_id(r.trs_id) # get_key_for_trs_id(s.trs_id)
    => \E p, q \in replies :
         /\ get_key_for_trs_id(p.trs_id) = get_key_for_trs_id(r.trs_id)
         /\ get_key_for_trs_id(q.trs_id) = get_key_for_trs_id(s.trs_id)
         /\ p.at = q.at
         /\ r.own_ip = get_cur_ip(p.at)

(* A client that was offered an address and then sends its REQUEST is      *)
(* acknowledged that address, however many other handshakes moved cur_ip   *)
(* on meanwhile, provided no other transaction in play hashes to its slot. *)
AckHonoursOffer ==
  [][\A x \in Xids :
       /\ KeyUnique(x)
       /\ last[x].dhcp_msg = "OFFER"
       /\ last'[x].dhcp_msg = "ACK"
       => last'[x].own_ip = last[x].own_ip]_vars

(* The reply to a transaction reaches the wire under the id the client     *)
(* sent: the conversions of set_dhcp_hdr_from_bytes and                    *)
(* set_bytes_from_dhcp_hdr cancel out.                                     *)
ReplyNamesItsRequest ==
  [][\A x \in Xids : last'[x] # last[x] => last'[x].trs_id = htonl(x)]_vars

(* A REQUEST at the head of the socket's buffer whose options can be read  *)
(* is acknowledged, by an ACK of its own: the one that uses up the number  *)
(* which was the next when it lay there, unless the process exits.  (Those *)
(* behind it are dropped with the socket, and one with endless options is  *)
(* the last that the thread takes.)                                        *)
RequestIsAcknowledged ==
  \A x \in Xids, n \in FIRST_IP .. FIRST_IP + MaxDatagrams :
    (/\ inbox # << >>
     /\ Head(inbox) = [dhcp_msg |-> "REQUEST", trs_id |-> htonl(x)]
     /\ cur_ip = n)
    ~> (pc = "exited" \/ \E r \in Acks : r.trs_id = htonl(x) /\ r.at = n)

(* The thread with its table implements the book of leases.                *)
Book == INSTANCE LeaseBook WITH
  Client <- Xids,
  First <- FIRST_IP,
  Net <- MaskWord(my_ip, sub_addr),
  counter <- cur_ip,
  promises <- { << get_key_for_trs_id(r.trs_id), r.at >> : r \in replies },
  grants <- { [client |-> htonl(r.trs_id), addr |-> r.own_ip, at |-> r.at] : r \in Acks }
ImplementsLeaseBook == Book!Spec

-----------------------------------------------------------------------------
(* What the repository's comments say and the code does not do.            *)

(* ippool.h: "Returns 0 if no ip was found" -- a transaction that was      *)
(* never answered has no address in the table.                             *)
UnknownHasNoAddress ==
  \A x \in Xids : last[x] = NoReply => get_ip_for_trs_id(x) = ZeroWord

(* ippool.h: "Bounds this transaction id to the corresponding ip" -- after *)
(* an ACK the table holds, for that transaction, the address acknowledged. *)
AckIsBound ==
  \A x \in Xids : KeyUnique(x) /\ last[x].dhcp_msg = "ACK"
                  => get_ip_for_trs_id(x) = last[x].own_ip
==============================================================================
