-------------------------- MODULE DhcpServer_proofs --------------------------
(***************************************************************************)
(* The inductive invariant of the DHCP thread, and what follows from it:   *)
(* the safety properties of DhcpServer for any network, any transaction    *)
(* ids and any number of datagrams the 24-bit counter allows, and the      *)
(* refinement of LeaseBook.                                                *)
(***************************************************************************)
EXTENDS DhcpServer, Lemmas

Key(w) == get_key_for_trs_id(w)

(* Every datagram on its way to the handler names a transaction in play,   *)
(* only a bound socket buffers, and there are enough numbers for all the   *)
(* datagrams that are not handled yet.                                     *)
FlowInv ==
  /\ \A i \in 1 .. Len(inbox) : htonl(inbox[i].trs_id) \in Xids
  /\ pc # "listening" => inbox = << >>
  /\ pc \in {"reading", "serving"} => i_hdr.trs_id \in Xids
  /\ cur_ip + Len(inbox) + (IF pc \in {"reading", "serving"} THEN 1 ELSE 0) <= FIRST_IP + datagrams

(* r gives an address that was the next one when a transaction of the same *)
(* slot was answered, at r or before.                                      *)
HasSource(r) ==
  \E q \in replies : Key(q.trs_id) = Key(r.trs_id) /\ q.at <= r.at /\ r.own_ip = get_cur_ip(q.at)

(* A slot is empty or holds an address that was the next one when some     *)
(* transaction of this slot was answered.                                  *)
SlotInv ==
  \A k \in Slots :
    \/ Initialised[k] = ZeroWord
    \/ \E q \in replies : /\ Key(q.trs_id) = k
                          /\ q.at <= cur_ip
                          /\ Initialised[k] = get_cur_ip(q.at)

RepliesInv == \A r \in replies : r.at <= cur_ip /\ HasSource(r)

(* A pending offer is in the table.                                        *)
OfferInv ==
  \A x \in Xids :
    KeyUnique(x) /\ last[x].dhcp_msg = "OFFER"
    => Initialised[Key(x)] = last[x].own_ip /\ last[x].own_ip # ZeroWord

IInv == TypeOK /\ FlowInv /\ SlotInv /\ RepliesInv /\ OneAckPerNumber /\ OfferInv

-----------------------------------------------------------------------------

(* The network's address is a word that does not begin with 0.             *)
LEMMA NetFacts ==
  /\ MaskWord(my_ip, sub_addr) \in Word
  /\ MaskWord(my_ip, sub_addr)[1] # 0
  BY DhcpAssumption, MaskWordType DEF DhcpAssumption

(* Every number the counter can reach has an address of its own, and none  *)
(* of them is the mark of an empty slot.                                   *)
LEMMA AddressFacts ==
  ASSUME NEW n \in FIRST_IP .. FIRST_IP + MaxDatagrams,
         NEW m \in FIRST_IP .. FIRST_IP + MaxDatagrams
  PROVE  /\ get_cur_ip(n) \in Word
         /\ get_cur_ip(n) # ZeroWord
         /\ get_cur_ip(n) = get_cur_ip(m) => n = m
  <1>1. Bits24(n) /\ Bits24(m)
    BY DhcpAssumption, SMT DEF DhcpAssumption, Bits24, FIRST_IP
  <1>. QED  BY <1>1, NetFacts, AddressInjective DEF get_cur_ip

(* A transaction id is a word, in either byte order, with the same slot of *)
(* the table.                                                              *)
LEMMA SlotFacts ==
  ASSUME NEW x \in Xids
  PROVE  /\ x \in Word
         /\ Key(x) \in Slots
         /\ htonl(x) \in Word
         /\ htonl(htonl(x)) = x
         /\ Key(htonl(x)) = Key(x)
  BY XidsAssumption, HtonlInverse, KeyOfHtonl DEF XidsAssumption, Slots, Key

(* The mark of an empty slot is a word.                                    *)
LEMMA ZeroIsWord == ZeroWord \in Word
  BY DEF ZeroWord, Word, Byte

(* While the server runs, the next address is within the range.            *)
LEMMA CounterType ==
  ASSUME TypeOK, FlowInv
  PROVE  /\ cur_ip \in FIRST_IP .. FIRST_IP + MaxDatagrams
         /\ cur_ip \in Nat /\ FIRST_IP \in Nat /\ MaxDatagrams \in Nat
         /\ pc \in {"reading", "serving"} => cur_ip + 1 \in FIRST_IP .. FIRST_IP + MaxDatagrams
  <1>1. MaxDatagrams \in Nat /\ FIRST_IP \in Nat
    BY DhcpAssumption DEF DhcpAssumption, FIRST_IP
  <1>2. cur_ip \in FIRST_IP .. FIRST_IP + MaxDatagrams
    BY DEF TypeOK
  <1>3. datagrams \in 0 .. MaxDatagrams /\ Len(inbox) \in Nat
    BY DEF TypeOK
  <1>. QED  BY <1>1, <1>2, <1>3 DEF FlowInv

(* The table as the handler sees it.                                       *)
LEMMA TableType ==
  ASSUME TypeOK
  PROVE  /\ Initialised \in [Slots -> Word]
         /\ DOMAIN Initialised = Slots
  BY ZeroIsWord DEF TypeOK, PoolTypeOK, Initialised, EmptyPool

-----------------------------------------------------------------------------

(* The server starts in the invariant.                                     *)
LEMMA InitInv == Init => IInv
  <1> SUFFICES ASSUME Init PROVE IInv
    OBVIOUS
  <1> USE DEF Init, PoolInit
  <1>1. MaxDatagrams \in Nat /\ InboxCap \in Nat /\ FIRST_IP = 40
    BY DhcpAssumption DEF DhcpAssumption, FIRST_IP
  <1>2. TypeOK
    <2>1. inbox \in Seq(Datagram) /\ Len(inbox) = 0 /\ Len(inbox) <= InboxCap
      BY <1>1, DhcpAssumption DEF DhcpAssumption
    <2>2. i_hdr \in Datagram
      BY ZeroIsWord DEF Datagram, Reading, DhcpMsg
    <2>3. cur_ip \in FIRST_IP .. FIRST_IP + MaxDatagrams /\ datagrams \in 0 .. MaxDatagrams
      BY <1>1
    <2>4. last \in [Xids -> Reply \union {NoReply}]
      OBVIOUS
    <2>5. PoolTypeOK
      BY ZeroIsWord DEF PoolTypeOK, EmptyPool
    <2>. QED  BY <2>1, <2>2, <2>3, <2>4, <2>5 DEF TypeOK
  <1>3. FlowInv
    BY <1>1 DEF FlowInv
  <1>4. SlotInv
    BY DEF SlotInv, Initialised, EmptyPool
  <1>5. RepliesInv
    BY DEF RepliesInv
  <1>6. OneAckPerNumber
    <2>1. Acks = {}
      BY DEF Acks
    <2>2. FIRST_IP .. cur_ip - 1 = {}
      BY <1>1
    <2>. QED  BY <2>1, <2>2 DEF OneAckPerNumber
  <1>7. OfferInv
    BY DEF OfferInv, NoReply
  <1>. QED  BY <1>2, <1>3, <1>4, <1>5, <1>6, <1>7 DEF IInv

(* The steps that answer nobody.                                           *)
LEMMA QuietInv ==
  ASSUME IInv, Listen \/ Environment \/ Receive \/ ReadOptions \/ Ignore \/ Exit
  PROVE  IInv'
  <1>1. UNCHANGED server_vars
    BY DEF Listen, Environment, Arrive, Receive, ReadOptions, Ignore, Serves, Exit
  <1>2. TypeOK' /\ FlowInv'
    <2> USE DEF IInv, server_vars
    <2>1. MaxDatagrams \in Nat /\ InboxCap \in Nat \ {0}
      BY DhcpAssumption DEF DhcpAssumption
    <2>2. Len(inbox) \in Nat /\ cur_ip \in Int /\ FIRST_IP \in Int /\ datagrams \in Nat
      BY <2>1, CounterType DEF TypeOK
    <2>3. CASE Listen
      BY <2>3, <1>1 DEF Listen, TypeOK, PoolTypeOK, FlowInv
    <2>4. ASSUME NEW t \in MsgTypes, NEW x \in Xids, Arrive(t, x)
          PROVE  TypeOK' /\ FlowInv'
      <3> DEFINE d == [dhcp_msg |-> t, trs_id |-> htonl(x)]
      <3>1. d \in Datagram /\ htonl(d.trs_id) \in Xids
        BY SlotFacts, DhcpAssumption DEF DhcpAssumption, Datagram
      <3>2. datagrams' = datagrams + 1 /\ datagrams' \in 0 .. MaxDatagrams
        BY <2>4, <2>1, <2>2 DEF Arrive
      <3>3. CASE inbox' = inbox
        <4>1. pc' = pc /\ i_hdr' = i_hdr
          BY <2>4 DEF Arrive
        <4>2. TypeOK'
          BY <4>1, <3>2, <3>3, <1>1 DEF TypeOK, PoolTypeOK
        <4>3. FlowInv'
          BY <4>1, <3>2, <3>3, <2>2, <1>1 DEF FlowInv
        <4>. QED  BY <4>2, <4>3
      <3>4. CASE pc = "listening" /\ Len(inbox) < InboxCap /\ inbox' = Append(inbox, d)
        <4>1. /\ inbox' \in Seq(Datagram) /\ Len(inbox') = Len(inbox) + 1
              /\ \A i \in 1 .. Len(inbox') : inbox'[i] = IF i = Len(inbox) + 1 THEN d ELSE inbox[i]
          BY <3>1, <3>4 DEF TypeOK
        <4>2. TypeOK'
          BY <4>1, <3>2, <3>4, <2>1, <2>2, <2>4, <1>1 DEF Arrive, TypeOK, PoolTypeOK
        <4>3. \A i \in 1 .. Len(inbox') : htonl(inbox'[i].trs_id) \in Xids
          BY <4>1, <3>1, <2>2 DEF FlowInv
        <4>4. FlowInv'
          BY <4>1, <4>3, <3>2, <3>4, <2>2, <2>4, <1>1 DEF Arrive, FlowInv
        <4>. QED  BY <4>2, <4>4
      <3>. QED  BY <3>3, <3>4, <2>4 DEF Arrive
    <2>5. CASE Receive
      <3> DEFINE h == Head(inbox)
      <3>1. h \in Datagram /\ h = inbox[1] /\ 1 \in 1 .. Len(inbox) /\ Len(inbox) > 0
        BY <2>5, <2>2 DEF Receive, TypeOK
      <3>2. htonl(h.trs_id) \in Xids
        BY <3>1 DEF FlowInv
      <3>3. i_hdr' = [h EXCEPT !.trs_id = htonl(h.trs_id)]
        BY <2>5 DEF Receive
      <3>4. i_hdr' \in Datagram /\ i_hdr'.trs_id = htonl(h.trs_id)
        BY <3>1, <3>2, <3>3, SlotFacts DEF Datagram
      <3>5. inbox' = << >> /\ Len(inbox') = 0 /\ inbox' \in Seq(Datagram) /\ pc' = "reading"
            /\ datagrams' = datagrams
        BY <2>5 DEF Receive
      <3>6. TypeOK'
        BY <3>4, <3>5, <2>1, <1>1 DEF TypeOK, PoolTypeOK
      <3>7. FlowInv'
        BY <3>1, <3>2, <3>4, <3>5, <2>2, <2>5, <1>1 DEF FlowInv, Receive
      <3>. QED  BY <3>6, <3>7
    <2>6. CASE Ignore
      BY <2>6, <2>2, <1>1 DEF Ignore, Serves, TypeOK, PoolTypeOK, FlowInv
    <2>7. CASE Exit
      <3>1. inbox' = << >> /\ Len(inbox') = 0 /\ inbox' \in Seq(Datagram) /\ pc' = "exited"
            /\ datagrams' = datagrams /\ i_hdr' = i_hdr
        BY <2>7 DEF Exit
      <3>. QED  BY <3>1, <2>1, <2>2, <1>1 DEF TypeOK, PoolTypeOK, FlowInv
    <2>8. CASE ReadOptions
      BY <2>8, <2>2, <1>1 DEF ReadOptions, TypeOK, PoolTypeOK, FlowInv
    <2>. QED  BY <2>3, <2>4, <2>5, <2>6, <2>7, <2>8 DEF Environment
  <1>3. SlotInv' /\ RepliesInv' /\ OneAckPerNumber' /\ OfferInv'
    BY <1>1 DEF IInv, server_vars, SlotInv, RepliesInv, HasSource, OneAckPerNumber, OfferInv,
       Acks, KeyUnique, Initialised, EmptyPool
  <1>. QED  BY <1>2, <1>3 DEF IInv

-----------------------------------------------------------------------------

(* The reply that the handler sends, and what it does to the table.        *)
Answer == last'[i_hdr.trs_id]

(* What an answer is, and what it adds to the replies.                     *)
LEMMA AnswerFacts ==
  ASSUME IInv, Discover \/ Request
  PROVE  /\ i_hdr.trs_id \in Xids
         /\ replies' = replies \union {Answer}
         /\ last' = [last EXCEPT ![i_hdr.trs_id] = Answer]
         /\ Answer \in Reply
         /\ Answer.at = cur_ip
         /\ Answer.trs_id = htonl(i_hdr.trs_id)
         /\ Discover => Answer.dhcp_msg = "OFFER" /\ Answer.own_ip = get_cur_ip(cur_ip)
         /\ Request => Answer.dhcp_msg = "ACK" /\ Answer.own_ip = AckAddress(i_hdr.trs_id)
         /\ Initialised' = [Initialised EXCEPT ![Key(i_hdr.trs_id)] = get_cur_ip(cur_ip)]
         /\ ippool' \in [Slots -> Word] /\ is_valid' = TRUE
         /\ \/ Answer.own_ip = get_cur_ip(cur_ip)
            \/ \E q \in replies : /\ Key(q.trs_id) = Key(i_hdr.trs_id)
                                  /\ q.at <= cur_ip
                                  /\ Answer.own_ip = get_cur_ip(q.at)
  <1> DEFINE x == i_hdr.trs_id
             addr == IF Discover THEN get_cur_ip(cur_ip) ELSE AckAddress(x)
             r == [dhcp_msg |-> IF Discover THEN "OFFER" ELSE "ACK", trs_id |-> htonl(x),
                   own_ip |-> addr, port |-> DHCP_PRT_NUM_S, at |-> cur_ip]
  <1>1. x \in Xids /\ pc = "serving" /\ (Discover => ~Request)
    BY DEF IInv, FlowInv, Discover, Serves, Request
  <1>2. cur_ip \in FIRST_IP .. FIRST_IP + MaxDatagrams
    BY CounterType DEF IInv
  <1>3. get_cur_ip(cur_ip) \in Word
    BY <1>2, AddressFacts
  <1>4. Initialised \in [Slots -> Word] /\ Key(x) \in Slots /\ htonl(x) \in Word
    BY <1>1, TableType, SlotFacts DEF IInv
  <1>5. addr \in Word
    BY <1>3, <1>4 DEF AckAddress, get_ip_for_trs_id, Key
  <1>6. r \in Reply
    BY <1>2, <1>4, <1>5 DEF Reply
  <1>7. replies' = replies \union {r} /\ last' = [last EXCEPT ![x] = r]
    BY <1>1 DEF Discover, Serves, Request, send_dhcp_hdr
  <1>8. Answer = r
    BY <1>1, <1>7 DEF Answer, IInv, TypeOK
  <1>9. /\ ippool' = [Initialised EXCEPT ![Key(x)] = get_cur_ip(cur_ip)]
        /\ is_valid' = TRUE
    BY DEF Discover, Serves, Request, set_ip_for_trs_id, Key
  <1>10. Initialised' = [Initialised EXCEPT ![Key(x)] = get_cur_ip(cur_ip)]
    BY <1>9 DEF Initialised
  <1>11. ippool' \in [Slots -> Word]
    BY <1>3, <1>4, <1>9
  <1>12. \/ addr = get_cur_ip(cur_ip)
         \/ \E q \in replies : Key(q.trs_id) = Key(x) /\ q.at <= cur_ip /\ addr = get_cur_ip(q.at)
    BY <1>4 DEF IInv, SlotInv, AckAddress, get_ip_for_trs_id, Key
  <1>13. (Discover => addr = get_cur_ip(cur_ip)) /\ (Request => addr = AckAddress(x))
    BY <1>1
  <1> HIDE DEF addr
  <1>. QED  BY <1>1, <1>6, <1>7, <1>8, <1>9, <1>10, <1>11, <1>12, <1>13

(* The two answers.                                                        *)
LEMMA AnswerInv ==
  ASSUME IInv, Discover \/ Request
  PROVE  IInv'
  <1> DEFINE x == i_hdr.trs_id
  <1>1. /\ x \in Xids /\ x \in Word /\ Key(x) \in Slots
        /\ Key(Answer.trs_id) = Key(x)
        /\ Answer \in replies' /\ replies \subseteq replies'
    BY AnswerFacts, SlotFacts
  <1>2. /\ cur_ip \in Nat /\ cur_ip' \in Nat
        /\ Discover => cur_ip' = cur_ip
        /\ Request => cur_ip' = cur_ip + 1
        /\ cur_ip' \in FIRST_IP .. FIRST_IP + MaxDatagrams
        /\ cur_ip \in FIRST_IP .. FIRST_IP + MaxDatagrams
        /\ cur_ip <= cur_ip' /\ cur_ip' <= cur_ip + 1
        /\ pc = "serving" /\ pc' = "unbound" /\ UNCHANGED << inbox, i_hdr, datagrams >>
    BY CounterType DEF IInv, Discover, Serves, Request
  <1>3. TypeOK'
    BY <1>1, <1>2, AnswerFacts DEF IInv, TypeOK, PoolTypeOK
  <1>4. FlowInv'
    <2>1. inbox = << >> /\ Len(inbox) = 0 /\ datagrams \in Nat /\ FIRST_IP \in Nat
      BY <1>2, DhcpAssumption DEF IInv, FlowInv, TypeOK, FIRST_IP, DhcpAssumption
    <2>2. cur_ip + 1 <= FIRST_IP + datagrams
      BY <1>2, <2>1 DEF IInv, FlowInv
    <2>3. cur_ip' \in Nat /\ cur_ip' <= cur_ip + 1
      BY <1>2
    <2>4. inbox' = << >> /\ Len(inbox') = 0 /\ pc' = "unbound" /\ datagrams' = datagrams
      BY <1>2, <2>1
    <2>5. cur_ip' <= FIRST_IP + datagrams
      BY <1>2, <2>1, <2>2, <2>3
    <2> DEFINE c == cur_ip'
               l == Len(inbox')
               s == IF pc' \in {"reading", "serving"} THEN 1 ELSE 0
    <2>6. c \in Nat /\ l = 0 /\ s = 0 /\ c <= FIRST_IP + datagrams
      BY <2>3, <2>4, <2>5
    <2> HIDE DEF c, l, s
    <2>7. c + l + s <= FIRST_IP + datagrams
      BY <2>6
    <2> USE DEF c, l, s
    <2>. QED  BY <2>4, <2>7 DEF FlowInv
  <1>5. \A q \in replies : q.at \in Nat
    BY CounterType DEF IInv, TypeOK, Reply
  <1>6. SlotInv'
    <2> SUFFICES ASSUME NEW k \in Slots
                 PROVE  \/ Initialised'[k] = ZeroWord
                        \/ \E q \in replies' : /\ Key(q.trs_id) = k
                                               /\ q.at <= cur_ip'
                                               /\ Initialised'[k] = get_cur_ip(q.at)
      BY DEF SlotInv
    <2>1. Initialised'[k] = IF k = Key(x) THEN get_cur_ip(cur_ip) ELSE Initialised[k]
      BY AnswerFacts, TableType DEF IInv
    <2>2. CASE k = Key(x)
      BY <1>1, <1>2, <2>1, <2>2, AnswerFacts
    <2>3. CASE k # Key(x)
      <3>1. CASE Initialised[k] = ZeroWord
        BY <2>1, <2>3, <3>1
      <3>2. CASE Initialised[k] # ZeroWord
        <4>1. PICK q \in replies : /\ Key(q.trs_id) = k
                                   /\ q.at <= cur_ip
                                   /\ Initialised[k] = get_cur_ip(q.at)
          BY <3>2 DEF IInv, SlotInv
        <4>. QED  BY <1>1, <1>2, <1>5, <2>1, <2>3, <4>1
      <3>. QED  BY <3>1, <3>2
    <2>. QED  BY <2>2, <2>3
  <1>7. RepliesInv'
    <2> SUFFICES ASSUME NEW r \in replies'
                 PROVE  r.at <= cur_ip' /\ HasSource(r)'
      BY DEF RepliesInv, HasSource
    <2>1. CASE r \in replies
      <3>1. r.at <= cur_ip /\ HasSource(r)
        BY <2>1 DEF IInv, RepliesInv
      <3>. QED  BY <1>1, <1>2, <1>5, <2>1, <3>1 DEF HasSource
    <2>2. CASE r = Answer
      <3>1. r.at <= cur_ip' /\ r.at = cur_ip /\ Key(r.trs_id) = Key(x) /\ r \in replies'
        BY <1>1, <1>2, <2>2, AnswerFacts
      <3>2. CASE r.own_ip = get_cur_ip(cur_ip)
        BY <1>2, <3>1, <3>2 DEF HasSource
      <3>3. ASSUME NEW q \in replies,
                   Key(q.trs_id) = Key(x), q.at <= cur_ip, r.own_ip = get_cur_ip(q.at)
            PROVE  HasSource(r)'
        BY <1>1, <3>1, <3>3 DEF HasSource
      <3>. QED  BY <2>2, <3>1, <3>2, <3>3, AnswerFacts
    <2>. QED  BY <2>1, <2>2, AnswerFacts
  <1>8. OneAckPerNumber'
    <2>1. CASE Discover
      BY <1>2, <2>1, AnswerFacts DEF IInv, OneAckPerNumber, Acks
    <2>2. CASE Request
      <3>1. Acks' = Acks \union {Answer}
        BY <2>2, AnswerFacts DEF Acks
      <3>2. \A a \in Acks : a.at < cur_ip /\ a.at \in Nat
        <4>1. \A a \in Acks : a.at \in FIRST_IP .. cur_ip - 1
          BY DEF IInv, OneAckPerNumber
        <4>. QED  BY <1>2, <1>5, <4>1 DEF Acks
      <3>3. {a.at : a \in Acks'} = FIRST_IP .. cur_ip' - 1
        <4>1. {a.at : a \in Acks'} = {a.at : a \in Acks} \union {cur_ip}
          <5>1. {a.at : a \in Acks'} = {a.at : a \in Acks} \union {Answer.at}
            BY <3>1, Zenon
          <5>. QED  BY <5>1, AnswerFacts, Zenon
        <4>2. (FIRST_IP .. cur_ip - 1) \union {cur_ip} = FIRST_IP .. cur_ip
          BY <1>2, CounterType DEF IInv
        <4>3. cur_ip' - 1 = cur_ip
          BY <1>2, <2>2
        <4>4. {a.at : a \in Acks} = FIRST_IP .. cur_ip - 1
          BY DEF IInv, OneAckPerNumber
        <4>. QED  BY <4>1, <4>2, <4>3, <4>4
      <3>4. \A a, b \in Acks' : a.at = b.at => a = b
        <4>1. \A a, b \in Acks : a.at = b.at => a = b
          BY DEF IInv, OneAckPerNumber
        <4>2. \A a \in Acks : a.at # Answer.at
          <5>1. Answer.at = cur_ip
            BY AnswerFacts
          <5>. QED  BY <1>2, <3>2, <5>1
        <4>. QED  BY <3>1, <4>1, <4>2
      <3>. QED  BY <3>3, <3>4 DEF OneAckPerNumber
    <2>. QED  BY <2>1, <2>2
  <1>9. OfferInv'
    <2> SUFFICES ASSUME NEW y \in Xids, KeyUnique(y), last'[y].dhcp_msg = "OFFER"
                 PROVE  Initialised'[Key(y)] = last'[y].own_ip /\ last'[y].own_ip # ZeroWord
      BY DEF OfferInv, KeyUnique
    <2>1. /\ last'[y] = IF y = x THEN Answer ELSE last[y]
          /\ Key(y) \in Slots
          /\ Initialised'[Key(y)] = IF Key(y) = Key(x) THEN get_cur_ip(cur_ip) ELSE Initialised[Key(y)]
      BY <1>1, AnswerFacts, SlotFacts, TableType DEF IInv, TypeOK
    <2>2. CASE y = x
      <3>1. Discover
        BY <2>1, <2>2, AnswerFacts
      <3>. QED  BY <1>2, <2>1, <2>2, <3>1, AnswerFacts, AddressFacts
    <2>3. CASE y # x
      <3>1. Key(y) # Key(x)
        BY <1>1, <2>3 DEF KeyUnique, Key
      <3>. QED  BY <2>1, <2>3, <3>1 DEF IInv, OfferInv
    <2>. QED  BY <2>2, <2>3
  <1>. QED  BY <1>3, <1>4, <1>6, <1>7, <1>8, <1>9 DEF IInv

(* Stuttering keeps the invariant.                                         *)
LEMMA StutterInv == IInv /\ UNCHANGED vars => IInv'
  BY DEF vars, IInv, TypeOK, PoolTypeOK, FlowInv, SlotInv, RepliesInv, HasSource,
     OneAckPerNumber, OfferInv, Acks, KeyUnique, Initialised, EmptyPool

(* The invariant holds of every behaviour.                                 *)
THEOREM Invariance == Spec => []IInv
  <1>1. IInv /\ [Next]_vars => IInv'
    BY QuietInv, AnswerInv, StutterInv DEF Next, Server
  <1>. QED  BY InitInv, <1>1, PTL DEF Spec

-----------------------------------------------------------------------------

(* Every variable of the DHCP thread has its type: in particular cur_ip    *)
(* never runs past the numbers it has addresses for.                       *)
THEOREM DhcpTypeCorrect == Spec => []TypeOK
  <1>1. IInv => TypeOK
    BY DEF IInv
  <1>. QED  BY Invariance, <1>1, PTL

(* The invariant holds the provenance of every reply.                      *)
LEMMA InvProvenance == IInv => AddressProvenance
  BY DEF IInv, RepliesInv, HasSource, AddressProvenance, Key

(* The address of every reply was the next address when a transaction of   *)
(* the same slot was answered, however often ippool was overwritten.       *)
THEOREM DhcpAddressProvenance == Spec => []AddressProvenance
  BY Invariance, InvProvenance, PTL

(* Every number below cur_ip was used up by exactly one ACK.               *)
THEOREM DhcpOneAckPerNumber == Spec => []OneAckPerNumber
  <1>1. IInv => OneAckPerNumber
    BY DEF IInv
  <1>. QED  BY Invariance, <1>1, PTL

(* Transactions of different slots share an acknowledged address only if   *)
(* both were answered while it was the next one.                           *)
THEOREM DhcpSharedMeansOverlap == Spec => []SharedAddressMeansOverlap
  <1>1. IInv => SharedAddressMeansOverlap
    <2> SUFFICES ASSUME IInv, NEW r \in Acks, NEW s \in Acks, r.own_ip = s.own_ip
                 PROVE  \E p, q \in replies :
                          /\ Key(p.trs_id) = Key(r.trs_id)
                          /\ Key(q.trs_id) = Key(s.trs_id)
                          /\ p.at = q.at
                          /\ r.own_ip = get_cur_ip(p.at)
      BY DEF SharedAddressMeansOverlap, Key
    <2>1. PICK p \in replies : Key(p.trs_id) = Key(r.trs_id) /\ r.own_ip = get_cur_ip(p.at)
      BY DEF IInv, RepliesInv, HasSource, Acks
    <2>2. PICK q \in replies : Key(q.trs_id) = Key(s.trs_id) /\ s.own_ip = get_cur_ip(q.at)
      BY DEF IInv, RepliesInv, HasSource, Acks
    <2>3. /\ p.at \in FIRST_IP .. FIRST_IP + MaxDatagrams
          /\ q.at \in FIRST_IP .. FIRST_IP + MaxDatagrams
      BY DEF IInv, TypeOK, Reply
    <2>4. p.at = q.at
      BY <2>1, <2>2, <2>3, AddressFacts
    <2>. QED  BY <2>1, <2>2, <2>4
  <1>. QED  BY Invariance, <1>1, PTL

(* An OFFER never names an address that was acknowledged before.           *)
THEOREM DhcpOfferNeverTaken == Spec => OfferNeverTaken
  <1>1. IInv /\ [Next]_vars
        => [i_hdr.dhcp_msg = "DISCOVER" /\ pc = "serving" /\ pc' = "unbound"
            => \A a \in Acks : a.own_ip # last'[i_hdr.trs_id].own_ip]_vars
    <2> SUFFICES ASSUME IInv, [Next]_vars,
                        i_hdr.dhcp_msg = "DISCOVER", pc = "serving", pc' = "unbound",
                        NEW a \in Acks
                 PROVE  a.own_ip # Answer.own_ip
      BY DEF Answer
    <2>1. Discover
      BY DEF Next, Environment, Arrive, Server, Listen, Receive, ReadOptions, Request, Serves, Ignore, Exit, vars
    <2>2. Answer.own_ip = get_cur_ip(cur_ip)
      BY <2>1, AnswerFacts
    <2>3. PICK q \in replies : q.at <= a.at /\ a.own_ip = get_cur_ip(q.at)
      BY DEF IInv, RepliesInv, HasSource, Acks
    <2>4. a.at \in FIRST_IP .. cur_ip - 1
      BY DEF IInv, OneAckPerNumber
    <2>5. q.at \in FIRST_IP .. FIRST_IP + MaxDatagrams
      BY DEF IInv, TypeOK, Reply
    <2>6. q.at # cur_ip
      BY <2>3, <2>4, <2>5, CounterType DEF IInv
    <2>. QED  BY <2>2, <2>3, <2>5, <2>6, CounterType, AddressFacts DEF IInv
  <1>. QED  BY Invariance, <1>1, PTL DEF Spec, OfferNeverTaken

(* A client that REQUESTs after an OFFER is acknowledged the address that  *)
(* it was offered, if its slot is its own.                                 *)
THEOREM DhcpAckHonoursOffer == Spec => AckHonoursOffer
  <1>1. IInv /\ [Next]_vars
        => [\A x \in Xids : /\ KeyUnique(x)
                            /\ last[x].dhcp_msg = "OFFER"
                            /\ last'[x].dhcp_msg = "ACK"
                            => last'[x].own_ip = last[x].own_ip]_vars
    <2> SUFFICES ASSUME IInv, [Next]_vars, NEW x \in Xids, KeyUnique(x),
                        last[x].dhcp_msg = "OFFER", last'[x].dhcp_msg = "ACK"
                 PROVE  last'[x].own_ip = last[x].own_ip
      OBVIOUS
    <2>1. Discover \/ Request
      BY DEF Next, Environment, Arrive, Server, Listen, Receive, ReadOptions, Ignore, Serves, Exit, server_vars, vars
    <2>2. last'[x] = IF x = i_hdr.trs_id THEN Answer ELSE last[x]
      BY <2>1, AnswerFacts DEF IInv, TypeOK
    <2>3. x = i_hdr.trs_id /\ Answer.dhcp_msg = "ACK" /\ last'[x] = Answer
      BY <2>2
    <2>4. Request
      BY <2>1, <2>3, AnswerFacts
    <2>5. Answer.own_ip = AckAddress(x)
      BY <2>3, <2>4, AnswerFacts
    <2>6. Initialised[Key(x)] = last[x].own_ip /\ last[x].own_ip # ZeroWord
      BY DEF IInv, OfferInv
    <2>. QED  BY <2>3, <2>5, <2>6 DEF AckAddress, get_ip_for_trs_id, Key
  <1>. QED  BY Invariance, <1>1, PTL DEF Spec, AckHonoursOffer

(* A reply goes out under the id of the transaction it answers.            *)
THEOREM DhcpReplyNamesItsRequest == Spec => ReplyNamesItsRequest
  <1>1. IInv /\ [Next]_vars
        => [\A x \in Xids : last'[x] # last[x] => last'[x].trs_id = htonl(x)]_vars
    <2> SUFFICES ASSUME IInv, [Next]_vars, NEW x \in Xids, last'[x] # last[x]
                 PROVE  last'[x].trs_id = htonl(x)
      OBVIOUS
    <2>1. Discover \/ Request
      BY DEF Next, Environment, Arrive, Server, Listen, Receive, ReadOptions, Ignore, Serves, Exit, server_vars, vars
    <2>2. last'[x] = IF x = i_hdr.trs_id THEN Answer ELSE last[x]
      BY <2>1, AnswerFacts DEF IInv, TypeOK
    <2>. QED  BY <2>1, <2>2, AnswerFacts
  <1>. QED  BY Invariance, <1>1, PTL DEF Spec, ReplyNamesItsRequest

-----------------------------------------------------------------------------

(* The state of the book of leases that a state of the thread stands for.  *)
Promises == { << Key(r.trs_id), r.at >> : r \in replies }
Grants == { [client |-> htonl(r.trs_id), addr |-> r.own_ip, at |-> r.at] : r \in Acks }

(* The arithmetic of the two specifications is the same.                   *)
LEMMA BookWords ==
  /\ \A n : Book!Address(n) = get_cur_ip(n)
  /\ \A w : Book!get_key_for_trs_id(w) = Key(w)
  BY SMT DEF Book!Address, Book!AddWords, Book!htonl, Book!Memory, Book!get_key_for_trs_id,
     get_cur_ip, AddWords, htonl, Memory, get_key_for_trs_id, Key

(* The DHCP thread implements the book of leases: sockets, dropped         *)
(* datagrams and the table's overwrites are invisible in it.               *)
THEOREM DhcpImplementsLeaseBook == Spec => ImplementsLeaseBook
  <1> USE DEF Book!book_vars
  <1>1. Init => Book!Init
    BY DEF Init, Book!Init, Acks
  <1>2. IInv /\ [Next]_vars => [Book!Next]_(Book!book_vars)
    <2> SUFFICES ASSUME IInv, [Next]_vars
                 PROVE  Book!Next \/ UNCHANGED << cur_ip, Promises, Grants >>
      BY DEF Promises, Grants, Key
    <2>1. CASE Listen \/ Environment \/ Receive \/ ReadOptions \/ Ignore \/ Exit \/ UNCHANGED vars
      BY <2>1 DEF Listen, Environment, Arrive, Receive, ReadOptions, Ignore, Serves, Exit, server_vars, vars,
         Promises, Grants, Acks
    <2>2. CASE Discover \/ Request
      <3>0. PICK c \in Xids : c = i_hdr.trs_id
        BY <2>2, AnswerFacts
      <3> DEFINE promise == << Key(c), cur_ip >>
                 grant == [client |-> c, addr |-> Answer.own_ip, at |-> cur_ip]
      <3>1. /\ c \in Xids
            /\ replies' = replies \union {Answer}
            /\ Key(Answer.trs_id) = Key(c) /\ htonl(Answer.trs_id) = c /\ Answer.at = cur_ip
        BY <2>2, <3>0, AnswerFacts, SlotFacts
      <3>2. Promises' = Promises \union {promise}
        BY <3>1 DEF Promises
      <3>3. CASE Discover
        <4>1. cur_ip' = cur_ip
          BY <3>3 DEF Discover, Serves
        <4>2. Acks' = Acks
          BY <3>1, <3>3, AnswerFacts DEF Acks
        <4>3. Grants' = Grants
          BY <4>2 DEF Grants
        <4>4. Book!Offer(c)
          BY <3>2, <4>1, <4>3, BookWords DEF Book!Offer, Book!Promise, Promises, Grants, Key
        <4>. QED  BY <3>1, <4>4 DEF Book!Next
      <3>4. CASE Request
        <4>1. cur_ip' = cur_ip + 1
          BY <3>4 DEF Request, Serves
        <4>2. Acks' = Acks \union {Answer}
          BY <3>1, <3>4, AnswerFacts DEF Acks
        <4>3. Grants' = Grants \union {grant}
          BY <3>1, <4>2 DEF Grants
        <4>4. PICK n : << Key(c), n >> \in Promises' /\ Answer.own_ip = get_cur_ip(n)
          BY <2>2, <3>0, <3>1, <3>2, AnswerFacts DEF Promises
        <4>5. Book!Grant(c)
          <5> DEFINE p == << Key(c), n >>
          <5>1. p \in Promises' /\ p[1] = Key(c) /\ p[2] = n
            BY <4>4
          <5>2. grant = [client |-> c, addr |-> Book!Address(p[2]), at |-> cur_ip]
            BY <4>4, <5>1, BookWords
          <5>. QED  BY <3>2, <4>1, <4>3, <5>1, <5>2, BookWords
                    DEF Book!Grant, Book!Promise, Promises, Grants, Key
        <4>. QED  BY <3>1, <4>5 DEF Book!Next
      <3>. QED  BY <2>2, <3>3, <3>4
    <2>. QED  BY <2>1, <2>2 DEF Next, Server
  <1>. QED  BY Invariance, <1>1, <1>2, PTL DEF Spec, ImplementsLeaseBook, Book!Spec
==============================================================================
