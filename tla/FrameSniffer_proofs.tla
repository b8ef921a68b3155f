-------------------------- MODULE FrameSniffer_proofs ------------------------
(***************************************************************************)
(* The capture loop, for any traffic, number of frames, size of the        *)
(* buffers and number of failed reads.                                     *)
(*                                                                         *)
(* IInv is the order: the numbers of the frames inspected, of the one in   *)
(* the buffer and of those that wait in the kernel increase.  TextInv is   *)
(* the text: the buffer starts with the latest frame, cell by cell, then   *)
(* comes the start of the header read behind it, and a NUL ends it,        *)
(* whatever else the copy brought along and whatever earlier frames left   *)
(* behind.  FoundInv is the log: from TextInv, what the parser's searches  *)
(* find in the buffer is what there is in the frame and that header.       *)
(***************************************************************************)
EXTENDS FrameSniffer, Lemmas

IsSeq(s) == \E S : s \in Seq(S)

(* What the kernel holds was delivered, and waits in order.                *)
KernelInv ==
  /\ sent \in Seq(Traffic)
  /\ Len(sent) <= MaxFrames
  /\ store \in Seq(1 .. Len(sent))
  /\ \A i, j \in DOMAIN store : i < j => store[i] < store[j]

(* The buffer holds an earlier frame than those that wait, or none.        *)
BufferInv ==
  /\ pc \in {"init", "wait", "inspect", "astray"}
  /\ device \in {"none", "stdin", "unsized", "unbound", "bound"}
  /\ frame.of \in 0 .. Len(sent)
  /\ frame.kind \in Kinds
  /\ frame.kind = IF frame.of = 0 THEN "other" ELSE sent[frame.of].kind
  /\ device # "bound" => frame.of = 0
  /\ pc = "init" => device = "none"
  /\ \A k \in DOMAIN store : frame.of < store[k]

(* So does the log, and the frame being inspected is not in it yet.        *)
LogInv ==
  /\ IsSeq(log)
  /\ \A i \in DOMAIN log :
       /\ log[i].of \in 1 .. Len(sent)
       /\ pc = "inspect" /\ frame.of > 0 => log[i].of < frame.of
       /\ \A k \in DOMAIN store : log[i].of < store[k]
  /\ FramesInOrder

(* The source address is that of an inspected IP frame.                    *)
SourceInv ==
  /\ lst_ip \in 0 .. Len(sent)
  /\ lst_ip > 0 => sent[lst_ip].kind # "other"
  /\ pc = "inspect" /\ frame.of > 0 => lst_ip < frame.of
  /\ \A k \in DOMAIN store : lst_ip < store[k]

IInv == KernelInv /\ BufferInv /\ LogInv /\ SourceInv

-----------------------------------------------------------------------------

(* Appending to any sequence.                                              *)
LEMMA AppendToSeq ==
  ASSUME NEW s, NEW e, IsSeq(s)
  PROVE  /\ IsSeq(Append(s, e))
         /\ Len(s) \in Nat
         /\ DOMAIN s = 1 .. Len(s)
         /\ DOMAIN Append(s, e) = 1 .. Len(s) + 1
         /\ Append(s, e)[Len(s) + 1] = e
         /\ \A i \in 1 .. Len(s) : Append(s, e)[i] = s[i]
  <1>1. PICK S : s \in Seq(S)
    BY DEF IsSeq
  <1>2. s \in Seq(S \union {e}) /\ e \in S \union {e}
    BY <1>1
  <1>3. Append(s, e) \in Seq(S \union {e})
    BY <1>2
  <1>4. IsSeq(Append(s, e))
    BY <1>3, Zenon DEF IsSeq
  <1>. QED  BY <1>2, <1>4

(* Dropping the first packets of the store.                                *)
LEMMA DropFromStore ==
  ASSUME NEW S, NEW s \in Seq(S), NEW n \in 1 .. Len(s)
  PROVE  /\ SubSeq(s, n + 1, Len(s)) \in Seq(S)
         /\ DOMAIN SubSeq(s, n + 1, Len(s)) = 1 .. Len(s) - n
         /\ \A i \in 1 .. Len(s) - n :
              SubSeq(s, n + 1, Len(s))[i] = s[i + n] /\ i + n \in DOMAIN s
  OBVIOUS

(* The capture loop starts in the invariant.                               *)
LEMMA InitInv == Init => IInv
  <1> SUFFICES ASSUME Init PROVE IInv
    OBVIOUS
  <1>1. IsSeq(<< >>)
    <2>1. << >> \in Seq({})
      OBVIOUS
    <2>. QED  BY <2>1, Zenon DEF IsSeq
  <1>2. frame.of = 0 /\ frame.kind = "other"
    BY DEF Init, EmptyFrame
  <1>. QED
    BY <1>1, <1>2, SnifferAssumption
    DEF Init, IInv, KernelInv, BufferInv, LogInv, SourceInv, FramesInOrder, Kinds

(* A frame that arrives is newer than all others.                          *)
LEMMA ArriveInv ==
  ASSUME IInv, NEW f \in Traffic, Arrive(f)
  PROVE  IInv'
  <1> DEFINE n == Len(sent) + 1
  <1>1. /\ sent' \in Seq(Traffic) /\ Len(sent') = n /\ n <= MaxFrames
        /\ Len(sent) \in Nat
        /\ UNCHANGED << pc, device, frame, lst_ip, log >>
    BY SnifferAssumption DEF IInv, KernelInv, Arrive
  <1>2. /\ store' \in Seq(1 .. n)
        /\ \A i \in DOMAIN store' : (i \in DOMAIN store /\ store'[i] = store[i]) \/ store'[i] = n
        /\ \A i, j \in DOMAIN store' : i < j => store'[i] < store'[j]
    <2>1. /\ store \in Seq(1 .. n) /\ store \in Seq(1 .. Len(sent)) /\ n \in 1 .. n
          /\ \A i, j \in DOMAIN store : i < j => store[i] < store[j]
      BY <1>1 DEF IInv, KernelInv
    <2>2. CASE store' = store
      BY <2>1, <2>2
    <2>3. CASE store' = Append(store, n)
      <3>1. /\ store' \in Seq(1 .. n) /\ Len(store) \in Nat
            /\ DOMAIN store = 1 .. Len(store) /\ DOMAIN store' = 1 .. Len(store) + 1
            /\ store'[Len(store) + 1] = n
            /\ \A i \in DOMAIN store : store'[i] = store[i]
        BY <2>1, <2>3
      <3>2. \A i \in DOMAIN store : store[i] \in 1 .. Len(sent) /\ store[i] < n
        BY <1>1, <2>1
      <3>3. ASSUME NEW i \in DOMAIN store', NEW j \in DOMAIN store', i < j
            PROVE  store'[i] < store'[j]
        <4>1. i \in DOMAIN store /\ store'[i] = store[i]
          BY <3>1, <3>3
        <4>2. CASE j \in DOMAIN store
          BY <2>1, <3>1, <3>3, <4>1, <4>2
        <4>3. CASE j = Len(store) + 1
          BY <3>1, <3>2, <4>1, <4>3
        <4>. QED  BY <3>1, <4>2, <4>3
      <3>. QED  BY <3>1, <3>3
    <2>4. store' = store \/ store' = Append(store, n)
      BY <1>1 DEF Arrive
    <2>. QED  BY <2>2, <2>3, <2>4
  <1>3. KernelInv'
    BY <1>1, <1>2 DEF KernelInv
  <1>4. \A x \in 0 .. Len(sent) :
          (\A k \in DOMAIN store : x < store[k])
          => x \in 0 .. n /\ \A k \in DOMAIN store' : x < store'[k]
    BY <1>1, <1>2
  <1>5. BufferInv' /\ SourceInv'
    <2>1. \A x \in 1 .. Len(sent) : sent'[x] = sent[x]
      BY <1>1 DEF IInv, KernelInv, Arrive
    <2>2. /\ frame.of \in 0 .. Len(sent) /\ lst_ip \in 0 .. Len(sent)
          /\ frame.of # 0 => sent'[frame.of] = sent[frame.of]
          /\ lst_ip > 0 => sent'[lst_ip] = sent[lst_ip]
      BY <1>1, <2>1 DEF IInv, BufferInv, SourceInv
    <2>3. BufferInv'
      BY <1>1, <1>4, <2>2 DEF IInv, BufferInv
    <2>4. SourceInv'
      BY <1>1, <1>4, <2>2 DEF IInv, SourceInv
    <2>. QED  BY <2>3, <2>4
  <1>6. LogInv'
    <2>1. ASSUME NEW i \in DOMAIN log
          PROVE  log[i].of \in 1 .. n /\ \A k \in DOMAIN store' : log[i].of < store'[k]
      <3> DEFINE x == log[i].of
      <3>1. x \in 1 .. Len(sent) /\ \A k \in DOMAIN store : x < store[k]
        BY DEF IInv, LogInv
      <3>. HIDE DEF x
      <3>2. x \in 1 .. n /\ \A k \in DOMAIN store' : x < store'[k]
        BY <1>1, <1>4, <3>1
      <3>. QED  BY <3>2 DEF x
    <2>. QED  BY <1>1, <2>1 DEF IInv, LogInv, FramesInOrder
  <1>. QED  BY <1>3, <1>4, <1>5, <1>6 DEF IInv

(* A read takes the first packet that waits and drops some.                *)
LEMMA ReadPacketsInv ==
  ASSUME IInv, ReadPackets
  PROVE  IInv'
  <1>1. /\ pc = "wait" /\ pc' = "inspect"
        /\ device = "bound" /\ UNCHANGED << device, sent, lst_ip, log >>
    BY DEF ReadPackets
  <1>0. PICK n \in 1 .. Len(store) : \E hs \in [1 .. n - 1 -> Headers] :
          /\ frame' = [of |-> store[1], kind |-> sent[store[1]].kind,
                       text |-> Overlaid(Copied(SubSeq(store, 1, n), hs)),
                       after |-> After(hs)]
          /\ store' = SubSeq(store, n + 1, Len(store))
    BY DEF ReadPackets, Taken
  <1>2. store' = SubSeq(store, n + 1, Len(store))
    BY <1>0
  <1>3. frame'.of = store[1] /\ frame'.kind = sent[store[1]].kind
    BY <1>0
  <1>4. /\ store \in Seq(1 .. Len(sent)) /\ Len(sent) \in Nat
        /\ 1 \in DOMAIN store /\ DOMAIN store = 1 .. Len(store)
        /\ Len(store) \in Nat /\ n \in 1 .. Len(store)
        /\ \A i, j \in DOMAIN store : i < j => store[i] < store[j]
    BY <1>2 DEF IInv, KernelInv
  <1>5. store[1] \in 1 .. Len(sent)
    BY <1>4
  <1>6. /\ store' \in Seq(1 .. Len(sent))
        /\ DOMAIN store' = 1 .. Len(store) - n
        /\ \A i \in DOMAIN store' : store'[i] = store[i + n] /\ i + n \in DOMAIN store
    <2>1. store \in Seq(1 .. Len(sent)) /\ n \in 1 .. Len(store)
      BY <1>4
    <2> DEFINE rest == SubSeq(store, n + 1, Len(store))
    <2>2. /\ rest \in Seq(1 .. Len(sent))
          /\ DOMAIN rest = 1 .. Len(store) - n
          /\ \A i \in 1 .. Len(store) - n : rest[i] = store[i + n] /\ i + n \in DOMAIN store
      BY <2>1, DropFromStore
    <2>. QED  BY <1>2, <2>2
  <1>7. \A k \in DOMAIN store' : store[1] < store'[k]
    <2> TAKE k \in DOMAIN store'
    <2>1. store'[k] = store[k + n] /\ k + n \in DOMAIN store /\ 1 < k + n
      BY <1>4, <1>6
    <2>. QED  BY <1>4, <2>1
  <1>8. sent[store[1]].kind \in Kinds
    BY <1>5, SnifferAssumption DEF IInv, KernelInv
  <1>9. KernelInv'
    BY <1>1, <1>4, <1>6 DEF IInv, KernelInv
  <1>10. BufferInv'
    <2>1. store[1] \in 0 .. Len(sent) /\ store[1] # 0
      BY <1>4, <1>5
    <2>. QED  BY <1>1, <1>3, <1>7, <1>8, <2>1 DEF BufferInv
  <1>11. SourceInv'
    BY <1>1, <1>3, <1>4, <1>6 DEF IInv, SourceInv
  <1>12. LogInv'
    BY <1>1, <1>3, <1>4, <1>6 DEF IInv, LogInv, FramesInOrder
  <1>. QED  BY <1>9, <1>10, <1>11, <1>12 DEF IInv

(* Reads that bring nothing, and what comes before the first of them.      *)
LEMMA NoPacketInv ==
  ASSUME IInv, eth_init \/ ReadFails \/ ReadNothing \/ ReadUnsized
  PROVE  IInv'
  <1>1. /\ UNCHANGED << sent, store, lst_ip, log >>
        /\ pc' \in {"wait", "inspect", "astray"}
        /\ device' \in {"none", "stdin", "unsized", "unbound", "bound"}
        /\ device' # "bound" => device # "bound" \/ pc = "init"
    BY DEF eth_init, ReadFails, ReadNothing, ReadUnsized, kernel_vars, IInv, BufferInv
  <1>2. \/ frame' = frame /\ frame.of = 0
        \/ frame'.of = 0 /\ frame'.kind = "other"
    BY DEF eth_init, ReadFails, ReadNothing, ReadUnsized, FailedRead, EmptyFrame, IInv, BufferInv
  <1>3. \A k \in DOMAIN store : 0 < store[k]
    BY DEF IInv, KernelInv
  <1>4. KernelInv'
    BY <1>1 DEF IInv, KernelInv
  <1>5. BufferInv'
    <2>1. frame'.of = 0 /\ frame'.kind = "other"
      BY <1>2 DEF IInv, BufferInv
    <2>2. Len(sent) \in Nat
      BY DEF IInv, KernelInv
    <2>. QED  BY <1>1, <1>3, <2>1, <2>2 DEF BufferInv, Kinds
  <1>6. LogInv' /\ SourceInv'
    BY <1>1, <1>2 DEF IInv, LogInv, SourceInv, FramesInOrder
  <1>. QED  BY <1>4, <1>5, <1>6 DEF IInv

(* A frame that was in the buffer is logged once.                          *)
LEMMA InspectInv ==
  ASSUME IInv, Inspect
  PROVE  IInv'
  <1>1. /\ pc = "inspect" /\ pc' \in {"wait", "astray"}
        /\ UNCHANGED << device, sent, store, frame >>
    BY DEF Inspect, InspectHttp, InspectDns, InspectOther, kernel_vars
  <1>2. lst_ip' = lst_ip \/ (lst_ip' = frame.of /\ frame.kind # "other")
    <2>1. CASE InspectHttp \/ InspectDns
      BY <2>1 DEF InspectHttp, InspectDns
    <2>2. CASE InspectOther
      <3>1. lst_ip' = IF frame.kind = "ip" THEN frame.of ELSE lst_ip
        BY <2>2, Zenon DEF InspectOther
      <3>2. CASE frame.kind = "ip"
        BY <3>1, <3>2
      <3>3. frame.kind # "ip" => lst_ip' = lst_ip
        BY <3>1, Zenon
      <3>. QED  BY <3>2, <3>3
    <2>. QED  BY <2>1, <2>2 DEF Inspect
  <1>3. \/ log' = log
        \/ /\ frame.of > 0
           /\ \E e : e.of = frame.of /\ log' = Append(log, e)
    <2>1. ASSUME NEW u, NEW b, Inspected(u, b)
          PROVE  log' = log \/ \E e : e.of = frame.of /\ frame.of # 0 /\ log' = Append(log, e)
      <3>1. CASE frame.of = 0
        BY <2>1, <3>1 DEF Inspected
      <3>2. CASE frame.of # 0
        <4> DEFINE e == [of |-> frame.of, after |-> frame.after, url |-> u, saved |-> b]
        <4>1. e.of = frame.of /\ log' = Append(log, e)
          BY <2>1, <3>2 DEF Inspected
        <4>. QED  BY <3>2, <4>1, Zenon
      <3>. QED  BY <3>1, <3>2
    <2>2. log' = log \/ \E u, b : Inspected(u, b)
      <3>1. CASE InspectHttp
        <4>1. PICK host, path :
                log' = log \/ Inspected(HttpUrl(host, path), Beyond \notin {host, path})
          BY <3>1 DEF InspectHttp
        <4>. QED  BY <4>1, Zenon
      <3>2. CASE InspectDns
        BY <3>2, Zenon DEF InspectDns
      <3>3. CASE InspectOther
        BY <3>3, Zenon DEF InspectOther
      <3>. QED  BY <3>1, <3>2, <3>3 DEF Inspect
    <2>3. frame.of # 0 => frame.of > 0
      BY DEF IInv, BufferInv, KernelInv
    <2>. QED  BY <2>1, <2>2, <2>3, Zenon
  <1>4. \A k \in DOMAIN store : frame.of < store[k] /\ lst_ip < store[k]
    BY DEF IInv, BufferInv, SourceInv
  <1>5. KernelInv'
    BY <1>1 DEF IInv, KernelInv
  <1>6. BufferInv'
    BY <1>1 DEF IInv, BufferInv
  <1>7. SourceInv'
    <2>1. CASE lst_ip' = lst_ip
      BY <1>1, <2>1 DEF IInv, SourceInv
    <2>2. CASE lst_ip' = frame.of /\ frame.kind # "other"
      BY <1>1, <1>4, <2>2 DEF IInv, BufferInv, SourceInv
    <2>. QED  BY <1>2, <2>1, <2>2
  <1>8. LogInv'
    <2>1. CASE log' = log
      BY <1>1, <2>1 DEF IInv, LogInv, FramesInOrder
    <2>2. ASSUME frame.of > 0, NEW e, e.of = frame.of, log' = Append(log, e)
          PROVE  LogInv'
      <3>1. /\ IsSeq(log') /\ Len(log) \in Nat
            /\ DOMAIN log = 1 .. Len(log) /\ DOMAIN log' = 1 .. Len(log) + 1
            /\ log'[Len(log) + 1] = e
            /\ \A i \in 1 .. Len(log) : log'[i] = log[i]
        BY <2>2, AppendToSeq DEF IInv, LogInv
      <3>2. frame.of \in 1 .. Len(sent)
        BY <2>2 DEF IInv, BufferInv, KernelInv
      <3>3. \A i \in 1 .. Len(log) : log[i].of < frame.of
        BY <1>1, <2>2, <3>1 DEF IInv, LogInv
      <3>4. \A i \in DOMAIN log' : \/ i \in DOMAIN log /\ log'[i] = log[i]
                                   \/ i = Len(log) + 1 /\ log'[i].of = frame.of
        BY <2>2, <3>1
      <3>5. FramesInOrder'
        <4> SUFFICES ASSUME NEW i \in DOMAIN log', NEW j \in DOMAIN log', i < j
                     PROVE  log'[i].of < log'[j].of
          BY DEF FramesInOrder
        <4>1. i \in DOMAIN log /\ log'[i] = log[i]
          BY <3>1
        <4>2. CASE j \in DOMAIN log
          BY <3>1, <4>1, <4>2 DEF IInv, LogInv, FramesInOrder
        <4>3. CASE j = Len(log) + 1
          BY <2>2, <3>1, <3>3, <4>1, <4>3
        <4>. QED  BY <3>1, <4>2, <4>3
      <3>6. \A i \in DOMAIN log' :
              /\ log'[i].of \in 1 .. Len(sent)
              /\ \A k \in DOMAIN store : log'[i].of < store[k]
        BY <1>4, <3>2, <3>4 DEF IInv, LogInv
      <3>. QED  BY <1>1, <3>1, <3>5, <3>6 DEF LogInv
    <2>. QED  BY <1>3, <2>1, <2>2
  <1>. QED  BY <1>5, <1>6, <1>7, <1>8 DEF IInv

(* The order of frames holds of every behaviour.                           *)
THEOREM SnifferInvariance == Spec => []IInv
  <1>1. IInv /\ [Next]_vars => IInv'
    <2>1. IInv /\ UNCHANGED vars => IInv'
      BY DEF IInv, KernelInv, BufferInv, LogInv, SourceInv, FramesInOrder, vars
    <2>. QED
      BY <2>1, ArriveInv, ReadPacketsInv, NoPacketInv, InspectInv DEF Next, Sniff, wait_eth_frame
  <1>. QED  BY InitInv, <1>1, PTL DEF Spec

(* No frame is inspected twice or out of order, for any traffic and        *)
(* whatever reads return or fail.                                          *)
THEOREM SnifferFramesInOrder == Spec => []FramesInOrder
  <1>1. IInv => FramesInOrder
    BY DEF IInv, LogInv
  <1>. QED  BY SnifferInvariance, <1>1, PTL

-----------------------------------------------------------------------------
(* What a read brings into the buffer.                                     *)

(* What a cell can hold.                                                   *)
CellSet == [sym : Symbols, of : Frames]

(* The two fields of a cell.                                               *)
LEMMA CellFields == \A sym, n : Cell(sym, n).sym = sym /\ Cell(sym, n).of = n
  BY DEF Cell

(* The buffer begins with a text, cell by cell, of frame n, then with some *)
(* bytes of no frame, as far as there is room; then a NUL follows.         *)
BufferHolds(t, a, n) ==
  /\ \A i \in 1 .. Len(t) : frame.text[i] = Cell(t[i], n)
  /\ \A i \in 1 .. Len(a) : Len(t) + i \in Cells => frame.text[Len(t) + i] = Cell(a[i], 0)
  /\ Len(t) + Len(a) + 1 \in Cells => frame.text[Len(t) + Len(a) + 1].sym = "NUL"

(* Every variable has its type, and the buffer holds the latest frame.     *)
TextInv ==
  /\ eth_result \in {0, -1}
  /\ failures \in 0 .. MaxFailures
  /\ Len(store) <= StoreCap
  /\ frame.text \in [Cells -> CellSet]
  /\ frame.after \in Seq(Symbols)
  /\ frame.of > 0 => BufferHolds(sent[frame.of].text, frame.after, frame.of)

(* A text as cells.                                                        *)
LEMMA TextOfFacts ==
  ASSUME KernelInv, NEW n \in 1 .. Len(sent)
  PROVE  /\ sent[n].text \in Seq(Symbols \ {"."})
         /\ sent[n].text \in Seq(Symbols)
         /\ Len(sent[n].text) \in 0 .. TextCap
         /\ TextOf(n) \in Seq(CellSet)
         /\ Len(TextOf(n)) = Len(sent[n].text)
         /\ \A i \in 1 .. Len(sent[n].text) :
              TextOf(n)[i] = Cell(sent[n].text[i], n)
  <1> DEFINE t == sent[n].text
  <1>1. sent[n] \in Traffic /\ n \in Frames
    BY SnifferAssumption DEF KernelInv, Frames
  <1>2. t \in Seq(Symbols \ {"."}) /\ Len(t) <= TextCap
    BY <1>1, SnifferAssumption
  <1>. HIDE DEF t
  <1>3. t \in Seq(Symbols) /\ Len(t) \in 0 .. TextCap /\ DOMAIN t = 1 .. Len(t)
    BY <1>2, SnifferAssumption
  <1>4. TextOf(n) = [i \in 1 .. Len(t) |-> Cell(t[i], n)]
    BY <1>3 DEF TextOf, t
  <1>5. \A i \in 1 .. Len(t) : Cell(t[i], n) \in CellSet
    BY <1>1, <1>3 DEF Cell, CellSet
  <1>6. TextOf(n) \in Seq(CellSet) /\ Len(TextOf(n)) = Len(t)
    BY <1>3, <1>4, <1>5
  <1>7. \A i \in 1 .. Len(t) : TextOf(n)[i] = Cell(t[i], n)
    BY <1>4
  <1>. QED  BY <1>2, <1>3, <1>6, <1>7 DEF t

(* A NUL, and what lies between two texts, as cells.                       *)
LEMMA HeaderCells ==
  /\ Nul \in CellSet
  /\ \A h \in Headers : HeaderOf(h) \in Seq(CellSet)
  <1>1. 0 \in Frames /\ "NUL" \in Symbols
    BY SnifferAssumption DEF Frames, Symbols
  <1>2. ASSUME NEW h \in Headers  PROVE  HeaderOf(h) \in Seq(CellSet)
    <2>1. h \in Seq(Symbols)
      BY SnifferAssumption
    <2>2. DOMAIN h = 1 .. Len(h) /\ Len(h) \in Nat /\ \A i \in 1 .. Len(h) : h[i] \in Symbols
      BY <2>1
    <2>3. \A i \in 1 .. Len(h) : Cell(h[i], 0) \in CellSet
      BY <1>1, <2>2 DEF Cell, CellSet
    <2>. QED  BY <2>2, <2>3 DEF HeaderOf
  <1>. QED  BY <1>1, <1>2 DEF Nul, Cell, CellSet

(* The start of a header and the NUL that ends it.                         *)
LEMMA UpToNul ==
  ASSUME NEW h \in Headers
  PROVE  LET m == Min({ k \in DOMAIN h : h[k] = "NUL" })
             a == SubSeq(h, 1, m - 1)
             c == HeaderOf(h)
         IN  /\ m \in Nat /\ a \in Seq(Symbols) /\ Len(a) = m - 1
             /\ Len(c) >= m
             /\ \A i \in 1 .. m - 1 : c[i] = Cell(a[i], 0)
             /\ c[m].sym = "NUL"
  <1> DEFINE N == { k \in DOMAIN h : h[k] = "NUL" }
             m == Min(N)
  <1>1. h \in Seq(Symbols) /\ \E k \in DOMAIN h : h[k] = "NUL"
    BY SnifferAssumption
  <1>2. DOMAIN h = 1 .. Len(h) /\ Len(h) \in Nat
    BY <1>1
  <1>3. N \subseteq Nat /\ N # {}
    BY <1>1, <1>2
  <1>4. m \in N
    <2>. HIDE DEF N
    <2>. QED  BY <1>3, MinLeast
  <1>5. m \in 1 .. Len(h) /\ h[m] = "NUL"
    BY <1>2, <1>4
  <1>. HIDE DEF m
  <1>6. HeaderOf(h) = [i \in 1 .. Len(h) |-> Cell(h[i], 0)]
    BY <1>2 DEF HeaderOf
  <1>7. Len(HeaderOf(h)) = Len(h) /\ \A i \in 1 .. Len(h) : HeaderOf(h)[i] = Cell(h[i], 0)
    BY <1>2, <1>6
  <1>8. \A j \in 1 .. m - 1 : h[j] \in Symbols
    BY <1>1, <1>2, <1>5
  <1> DEFINE a == SubSeq(h, 1, m - 1)
  <1>9. /\ a \in Seq(Symbols)
        /\ Len(a) = IF 1 <= m - 1 THEN (m - 1) - 1 + 1 ELSE 0
        /\ \A i \in 1 .. (m - 1) - 1 + 1 : a[i] = h[1 + i - 1]
    BY <1>5, <1>8, SubSeqProperties
  <1>. HIDE DEF a
  <1>10. Len(a) = m - 1 /\ \A i \in 1 .. m - 1 : i \in 1 .. Len(h) /\ a[i] = h[i]
    BY <1>2, <1>5, <1>9
  <1>11. HeaderOf(h)[m].sym = "NUL"
    <2>1. HeaderOf(h)[m] = Cell("NUL", 0)
      BY <1>5, <1>7
    <2>. QED  BY <2>1, CellFields
  <1>12. \A i \in 1 .. m - 1 : HeaderOf(h)[i] = Cell(a[i], 0)
    BY <1>7, <1>10
  <1>13. m \in Nat /\ Len(HeaderOf(h)) >= m
    BY <1>2, <1>5, <1>7
  <1>. QED  BY <1>9, <1>10, <1>11, <1>12, <1>13 DEF a, m

(* What a read copies begins with the text of its first packet, then the   *)
(* start of the next header, and a NUL.                                    *)
LEMMA CopiedFacts ==
  ASSUME KernelInv, NEW ns \in Seq(1 .. Len(sent)), Len(ns) >= 1,
         NEW hs \in [1 .. Len(ns) - 1 -> Headers]
  PROVE  LET t == sent[ns[1]].text
             a == After(hs)
             c == Copied(ns, hs)
         IN  /\ c \in Seq(CellSet) /\ a \in Seq(Symbols)
             /\ Len(c) >= Len(t) + Len(a) + 1
             /\ \A i \in 1 .. Len(t) : c[i] = Cell(t[i], ns[1])
             /\ \A i \in 1 .. Len(a) : c[Len(t) + i] = Cell(a[i], 0)
             /\ c[Len(t) + Len(a) + 1].sym = "NUL"
  <1> DEFINE t == sent[ns[1]].text
             u == TextOf(ns[1])
             More(i) == HeaderOf(hs[i]) \o TextOf(ns[i + 1])
             ss == [i \in 1 .. Len(ns) - 1 |-> More(i)]
             b == FlattenSeq(ss)
             a == After(hs)
             c == Copied(ns, hs)
  <1>0. Len(ns) \in Nat
    BY LenProperties
  <1>1. \A i \in 1 .. Len(ns) : ns[i] \in 1 .. Len(sent)
    OBVIOUS
  <1>2. /\ u \in Seq(CellSet) /\ Len(u) = Len(t) /\ Len(t) \in Nat
        /\ \A i \in 1 .. Len(t) : u[i] = Cell(t[i], ns[1])
    BY <1>1, TextOfFacts
  <1>3. \A i \in 1 .. Len(ns) - 1 :
          /\ HeaderOf(hs[i]) \in Seq(CellSet) /\ TextOf(ns[i + 1]) \in Seq(CellSet)
          /\ More(i) \in Seq(CellSet)
    <2> TAKE i \in 1 .. Len(ns) - 1
    <2>1. i + 1 \in 1 .. Len(ns) /\ hs[i] \in Headers
      <3>1. i + 1 \in 1 .. Len(ns)
        BY <1>0
      <3>2. hs[i] \in Headers
        BY Zenon
      <3>. QED  BY <3>1, <3>2
    <2>2. HeaderOf(hs[i]) \in Seq(CellSet) /\ TextOf(ns[i + 1]) \in Seq(CellSet)
      BY <1>1, <2>1, HeaderCells, TextOfFacts
    <2>. QED  BY <2>2, JoinTwo
  <1>. HIDE DEF More
  <1>4. ss \in Seq(Seq(CellSet)) /\ Len(ss) = Len(ns) - 1
    BY <1>3
  <1>5. c = Append(u \o b, Nul)
    BY DEF Copied, Packets, More
  <1>6. b \in Seq(CellSet)
    <2>1. << >> \in Seq(CellSet)
      OBVIOUS
    <2>. HIDE DEF ss
    <2>. QED  BY <1>4, <2>1, FlattenAppend, Zenon
  <1>7. /\ c \in Seq(CellSet) /\ Len(c) = Len(t) + Len(b) + 1 /\ Len(b) \in Nat
        /\ \A i \in 1 .. Len(t) : c[i] = u[i]
        /\ \A i \in 1 .. Len(b) : c[Len(t) + i] = b[i]
        /\ Len(b) = 0 => c[Len(t) + 1] = Nul
    <2>. HIDE DEF u, b, t, c
    <2>1. /\ c \in Seq(CellSet)
          /\ Len(b) \in Nat
          /\ Len(c) = Len(u) + Len(b) + 1
          /\ \A i \in 1 .. Len(u) : c[i] = u[i]
          /\ \A i \in 1 .. Len(b) : c[Len(u) + i] = b[i]
          /\ c[Len(u) + Len(b) + 1] = Nul
      <3>1. u \in Seq(CellSet) /\ b \in Seq(CellSet) /\ Nul \in CellSet
        BY <1>2, <1>6, HeaderCells, Zenon
      <3>. QED  BY <1>5, <3>1, JoinThenAppend
    <2>. QED  BY <1>2, <2>1
  <1>8. /\ a \in Seq(Symbols)
        /\ Len(c) >= Len(t) + Len(a) + 1
        /\ \A i \in 1 .. Len(a) : c[Len(t) + i] = Cell(a[i], 0)
        /\ c[Len(t) + Len(a) + 1].sym = "NUL"
    <2>1. CASE Len(ns) = 1
      <3>1. ss = << >>
        BY <1>4, <2>1
      <3>2. Len(b) = 0
        <4>. HIDE DEF ss
        <4>1. b = FlattenSeq(<< >>)
          BY <3>1
        <4>. HIDE DEF b
        <4>. QED  BY <4>1, FlattenEmpty
      <3>3. c[Len(t) + 1] = Nul
        BY <1>7, <3>2
      <3>4. a = << >>
        <4>1. hs \in [1 .. 0 -> Headers]
          BY <2>1
        <4>2. Len(hs) = 0
          BY <4>1
        <4>. QED  BY <4>2 DEF After
      <3>5. Len(a) = 0 /\ a \in Seq(Symbols)
        BY <3>4
      <3>6. c[Len(t) + 1].sym = "NUL"
        BY <3>3, CellFields DEF Nul
      <3>. HIDE DEF a, b, c, t
      <3>. QED  BY <1>2, <1>7, <3>2, <3>5, <3>6
    <2>2. CASE Len(ns) # 1
      <3>1. Len(ns) - 1 \in Nat /\ 1 \in 1 .. Len(ns) - 1 /\ Len(ns) - 1 # 0
        <4>1. \A n \in Nat : n >= 1 /\ n # 1 => n - 1 \in Nat /\ 1 \in 1 .. n - 1 /\ n - 1 # 0
          OBVIOUS
        <4>. QED  BY <1>0, <2>2, <4>1, Zenon
      <3> DEFINE h == hs[1]
                 hc == HeaderOf(h)
                 m == Min({ k \in DOMAIN h : h[k] = "NUL" })
      <3>2. h \in Headers /\ a = SubSeq(h, 1, m - 1)
        <4> DEFINE l == Len(ns) - 1
        <4>0. l \in Nat /\ 1 \in 1 .. l /\ l # 0 /\ hs \in [1 .. l -> Headers]
          BY <3>1
        <4>. HIDE DEF l
        <4>1. Len(hs) = l /\ hs[1] \in Headers
          BY <4>0
        <4>2. Len(hs) # 0
          BY <4>0, <4>1
        <4>. QED  BY <4>1, <4>2, Zenon DEF After
      <3>3. /\ m \in Nat /\ a \in Seq(Symbols) /\ Len(a) = m - 1
            /\ Len(hc) >= m /\ \A i \in 1 .. m - 1 : hc[i] = Cell(a[i], 0)
            /\ hc[m].sym = "NUL"
        BY <3>2, UpToNul
      <3>4. ss # << >> /\ ss[1] = More(1)
        <4>1. ss[1] = More(1)
          BY <3>1
        <4>2. Len(ss) \in Nat /\ Len(ss) # 0
          BY <1>4, <3>1
        <4>3. ss # << >>
          <5>. HIDE DEF ss
          <5>. QED  BY <4>2
        <4>. QED  BY <4>1, <4>3, Zenon
      <3>5. PICK r \in Seq(CellSet) : b = More(1) \o r
        <4>1. \E r \in Seq(CellSet) : b = ss[1] \o r
          <5>. HIDE DEF ss
          <5>. QED  BY <1>4, <3>4, FlattenFirst
        <4>. QED  BY <3>4, <4>1
      <3>6. hc \in Seq(CellSet) /\ More(1) \in Seq(CellSet)
            /\ More(1) = hc \o TextOf(ns[1 + 1]) /\ TextOf(ns[1 + 1]) \in Seq(CellSet)
        BY <1>3, <3>1 DEF More
      <3>. HIDE DEF b, c, t, a, hc, m
      <3>7. /\ Len(More(1)) >= Len(hc) /\ Len(More(1)) \in Nat /\ Len(hc) \in Nat
            /\ \A i \in 1 .. Len(hc) : More(1)[i] = hc[i]
        BY <3>6, JoinTwo
      <3>8. /\ Len(b) >= Len(hc)
            /\ \A i \in 1 .. Len(hc) : b[i] = hc[i]
        <4>1. Len(b) >= Len(More(1)) /\ \A i \in 1 .. Len(More(1)) : b[i] = More(1)[i]
          BY <3>5, <3>6, JoinTwo
        <4>. QED  BY <1>7, <3>7, <4>1
      <3>9. Len(a) \in Nat
        BY <3>3, LenProperties
      <3>10. \A i \in 1 .. m : i \in 1 .. Len(hc) /\ i \in 1 .. Len(b)
        BY <1>7, <3>3, <3>7, <3>8
      <3>11. \A i \in 1 .. m : c[Len(t) + i] = hc[i]
        BY <1>7, <3>8, <3>10
      <3>12. m \in 1 .. m /\ \A i \in 1 .. Len(a) : i \in 1 .. m /\ i \in 1 .. m - 1
        BY <3>3, <3>9
      <3>13. /\ \A i \in 1 .. Len(a) : c[Len(t) + i] = Cell(a[i], 0)
             /\ c[Len(t) + m].sym = "NUL"
        BY <3>3, <3>11, <3>12
      <3>14. Len(t) + Len(a) + 1 = Len(t) + m /\ Len(c) >= Len(t) + Len(a) + 1
        BY <1>2, <1>7, <3>3, <3>7, <3>8
      <3>. QED  BY <3>3, <3>13, <3>14
    <2>. QED  BY <2>1, <2>2
  <1>. HIDE DEF u, b, c, t, a
  <1>9. \A i \in 1 .. Len(t) : c[i] = Cell(t[i], ns[1])
    BY <1>2, <1>7
  <1>. QED  BY <1>7, <1>8, <1>9 DEF c, t, a

(* What is copied covers the start of the buffer.                          *)
LEMMA OverlaidFacts ==
  ASSUME frame.text \in [Cells -> CellSet], NEW new \in Seq(CellSet)
  PROVE  /\ Overlaid(new) \in [Cells -> CellSet]
         /\ \A i \in Cells : i <= Len(new) => Overlaid(new)[i] = new[i]
  <1> DEFINE n == TextCap + 1
             old == SubSeq(frame.text, Len(new) + 1, n)
             both == new \o old
  <1>1. n \in Nat /\ Cells = 1 .. n /\ Len(new) \in Nat
    BY SnifferAssumption DEF Cells
  <1>2. /\ old \in Seq(CellSet)
        /\ Len(old) = IF Len(new) + 1 <= n THEN n - Len(new) ELSE 0
    <2>1. \A i \in Len(new) + 1 .. n : frame.text[i] \in CellSet
      BY <1>1
    <2>. HIDE DEF n
    <2>2. /\ old \in Seq(CellSet)
          /\ Len(old) = IF Len(new) + 1 <= n THEN n - (Len(new) + 1) + 1 ELSE 0
      BY <1>1, <2>1, SubSeqProperties
    <2>. QED  BY <1>1, <2>2
  <1>. HIDE DEF n, old
  <1>3. /\ both \in Seq(CellSet) /\ Len(both) = Len(new) + Len(old)
        /\ \A i \in 1 .. Len(new) : both[i] = new[i]
    BY <1>1, <1>2, JoinTwo
  <1>4. Len(both) >= n /\ Len(both) \in Nat
    BY <1>1, <1>2, <1>3
  <1>. HIDE DEF both
  <1>5. Overlaid(new) = SubSeq(both, 1, n)
    BY DEF Overlaid, both, old, n
  <1>6. \A i \in 1 .. n : both[i] \in CellSet
    BY <1>1, <1>3, <1>4
  <1>7. /\ SubSeq(both, 1, n) \in Seq(CellSet)
        /\ Len(SubSeq(both, 1, n)) = n
        /\ \A i \in 1 .. n : SubSeq(both, 1, n)[i] = both[i]
    <2>1. /\ SubSeq(both, 1, n) \in Seq(CellSet)
          /\ Len(SubSeq(both, 1, n)) = IF 1 <= n THEN n - 1 + 1 ELSE 0
          /\ \A i \in 1 .. n - 1 + 1 : SubSeq(both, 1, n)[i] = both[1 + i - 1]
      BY <1>1, <1>6, SubSeqProperties
    <2>. QED  BY <1>1, <2>1
  <1>8. Overlaid(new) \in [Cells -> CellSet]
    BY <1>1, <1>5, <1>7, LenProperties, Zenon
  <1>. QED  BY <1>1, <1>3, <1>5, <1>7, <1>8

-----------------------------------------------------------------------------
(* The searches for the host and the path.                                 *)

(* The places of a text where the parser's searches may stop.              *)
Slashes(t) == { i \in DOMAIN t : t[i] = "/" }
HostWords(t) == { i \in DOMAIN t : HasWord(t, i) }

(* The cells of a text and of what was read behind it, and those after.    *)
LEMMA CellsOfText ==
  ASSUME NEW t \in Seq(Symbols), Len(t) <= TextCap, NEW a \in Seq(Symbols),
         NEW n, BufferHolds(t, a, n)
  PROVE  LET w == t \o a
         IN  /\ Len(t) \in Nat /\ DOMAIN t = 1 .. Len(t)
             /\ Len(w) \in Nat /\ DOMAIN w = 1 .. Len(w) /\ Len(t) <= Len(w)
             /\ \A i \in 1 .. Len(t) : i \in Cells /\ frame.text[i].sym = t[i] /\ w[i] = t[i]
             /\ \A i \in Cells : i <= Len(w) => /\ frame.text[i].sym = w[i]
                                                /\ frame.text[i].of \in {n, 0}
             /\ Len(w) + 1 \in Cells => frame.text[Len(w) + 1].sym = "NUL"
             /\ \A k \in Cells : k > Len(w) => ~NoNul(1, k)
  <1> DEFINE w == t \o a
  <1>1. /\ Len(t) \in Nat /\ DOMAIN t = 1 .. Len(t) /\ TextCap \in Nat
        /\ Len(a) \in Nat /\ Cells = 1 .. TextCap + 1
    BY SnifferAssumption, LenProperties DEF Cells
  <1>2. /\ w \in Seq(Symbols) /\ Len(w) = Len(t) + Len(a)
        /\ \A i \in 1 .. Len(t) : w[i] = t[i]
        /\ \A i \in 1 .. Len(a) : w[Len(t) + i] = a[i]
    BY JoinTwo
  <1>. HIDE DEF w
  <1>3. Len(w) \in Nat /\ DOMAIN w = 1 .. Len(w) /\ Len(t) <= Len(w)
    BY <1>1, <1>2, LenProperties
  <1>4. ASSUME NEW i \in 1 .. Len(t)
        PROVE  i \in Cells /\ frame.text[i] = Cell(w[i], n)
    <2>1. frame.text[i] = Cell(t[i], n) /\ w[i] = t[i]
      BY <1>2 DEF BufferHolds
    <2>. QED  BY <1>1, <2>1
  <1>5. ASSUME NEW i \in Cells, i <= Len(w)
        PROVE  frame.text[i].sym = w[i] /\ frame.text[i].of \in {n, 0}
    <2>1. CASE i <= Len(t)
      <3>1. i \in 1 .. Len(t)
        BY <1>1, <2>1
      <3>2. frame.text[i] = Cell(w[i], n)
        BY <1>4, <3>1
      <3>. QED  BY <3>2, CellFields
    <2>2. CASE ~(i <= Len(t))
      <3>1. PICK j \in 1 .. Len(a) : i = Len(t) + j
        <4>1. i - Len(t) \in 1 .. Len(a) /\ i = Len(t) + (i - Len(t))
          BY <1>1, <1>2, <1>5, <2>2
        <4>. QED  BY <4>1
      <3>2. frame.text[i] = Cell(a[j], 0) /\ w[i] = a[j]
        BY <1>2, <1>5, <3>1 DEF BufferHolds
      <3>. QED  BY <3>2, CellFields
    <2>. QED  BY <2>1, <2>2
  <1>6. Len(w) + 1 \in Cells => frame.text[Len(w) + 1].sym = "NUL"
    BY <1>2 DEF BufferHolds
  <1>7. ASSUME NEW k \in Cells, k > Len(w)
        PROVE  ~NoNul(1, k)
    <2>1. Len(w) + 1 \in 1 .. k /\ Len(w) + 1 \in Cells
      BY <1>1, <1>3, <1>7
    <2>. QED  BY <1>6, <2>1, Zenon DEF NoNul
  <1>8. ASSUME NEW i \in 1 .. Len(t)
        PROVE  frame.text[i].sym = t[i] /\ w[i] = t[i]
    <2>1. frame.text[i] = Cell(t[i], n) /\ w[i] = t[i]
      BY <1>2 DEF BufferHolds
    <2>. QED  BY <2>1, CellFields
  <1>. QED  BY <1>1, <1>3, <1>4, <1>5, <1>6, <1>7, <1>8 DEF w

(* The text before a place without a NUL has none either.                  *)
LEMMA NoNulInText ==
  ASSUME NEW t \in Seq(Symbols), Len(t) <= TextCap, NEW a \in Seq(Symbols),
         NEW n, BufferHolds(t, a, n),
         \A i \in DOMAIN t : t[i] # "NUL", NEW k \in 1 .. Len(t)
  PROVE  NoNul(1, k)
  <1>1. \A i \in 1 .. Len(t) : frame.text[i].sym = t[i]
    BY CellsOfText
  <1>2. Len(t) \in Nat /\ DOMAIN t = 1 .. Len(t)
    BY LenProperties
  <1>3. \A i \in 1 .. k : i \in 1 .. Len(t) /\ t[i] # "NUL"
    BY <1>2
  <1>. QED  BY <1>1, <1>3, Zenon DEF NoNul

(* strstr(buffer, "/") looks at the text and what was read behind it, and  *)
(* at the text first.                                                      *)
LEMMA SlashAtFacts ==
  ASSUME NEW t \in Seq(Symbols), Len(t) <= TextCap, NEW a \in Seq(Symbols),
         NEW n, BufferHolds(t, a, n)
  PROVE  /\ SlashAt # Beyond => SlashAt \in Slashes(t \o a)
         /\ SlashAt # Beyond => SlashAt \in Cells /\ NoNul(1, SlashAt)
         /\ (\A i \in DOMAIN t : t[i] # "NUL") /\ Slashes(t) # {}
              => SlashAt = Min(Slashes(t)) /\ SlashAt \in Slashes(t)
  <1> DEFINE A == { k \in Cells : frame.text[k].sym = "/" /\ NoNul(1, k) }
             w == t \o a
  <1>1. /\ Len(t) \in Nat /\ DOMAIN t = 1 .. Len(t) /\ TextCap \in Nat
        /\ Len(w) \in Nat /\ DOMAIN w = 1 .. Len(w)
        /\ \A i \in 1 .. Len(t) : i \in Cells /\ frame.text[i].sym = t[i]
        /\ \A i \in Cells : i <= Len(w) => frame.text[i].sym = w[i]
        /\ \A k \in Cells : k > Len(w) => ~NoNul(1, k)
        /\ Cells = 1 .. TextCap + 1
    BY CellsOfText, SnifferAssumption DEF Cells
  <1>. HIDE DEF w
  <1>2. A \subseteq Slashes(w)
    <2> SUFFICES ASSUME NEW k \in A PROVE k \in 1 .. Len(w) /\ w[k] = "/"
      BY <1>1 DEF Slashes
    <2>1. k \in 1 .. Len(w) \/ k > Len(w)
      BY <1>1
    <2>. QED  BY <1>1, <2>1
  <1>3. A \subseteq Nat /\ Beyond \in Nat /\ \A k \in A : k <= Beyond
    BY <1>1 DEF Beyond
  <1>4. SlashAt = Min(A \union {Beyond})
    BY DEF SlashAt
  <1>5. ASSUME \A i \in DOMAIN t : t[i] # "NUL", Slashes(t) # {}
        PROVE  Min(Slashes(t)) \in A /\ Min(Slashes(t)) \in Slashes(t)
               /\ \A k \in A : Min(Slashes(t)) <= k
    <2>1. Slashes(t) \subseteq Nat /\ Slashes(t) \subseteq 1 .. Len(t)
      BY <1>1 DEF Slashes
    <2>2. PICK m \in Slashes(t) : m = Min(Slashes(t)) /\ \A j \in Slashes(t) : m <= j
      BY <1>5, <2>1, MinLeast
    <2>3. m \in 1 .. Len(t) /\ t[m] = "/"
      BY <1>1, <2>1 DEF Slashes
    <2>4. NoNul(1, m)
      BY <1>5, <2>3, NoNulInText
    <2>5. m \in A
      BY <1>1, <2>3, <2>4
    <2>6. ASSUME NEW k \in A  PROVE  m <= k
      <3>1. CASE k <= Len(t)
        <4>1. k \in 1 .. Len(t) /\ t[k] = "/"
          BY <1>1, <3>1
        <4>. QED  BY <1>1, <2>2, <4>1 DEF Slashes
      <3>2. CASE ~(k <= Len(t))
        BY <1>1, <2>3, <3>2
      <3>. QED  BY <3>1, <3>2
    <2>. QED  BY <2>2, <2>5, <2>6
  <1>6. \A k \in A : k \in Cells /\ NoNul(1, k)
    OBVIOUS
  <1>. HIDE DEF A
  <1>7. /\ SlashAt \in A \union {Beyond}
        /\ A # {} => SlashAt = Min(A)
    BY <1>3, <1>4, MinOrBound
  <1>8. (\A i \in DOMAIN t : t[i] # "NUL") /\ Slashes(t) # {}
          => SlashAt = Min(Slashes(t)) /\ SlashAt \in Slashes(t)
    BY <1>3, <1>5, <1>7, MinIs
  <1>. QED  BY <1>2, <1>6, <1>7, <1>8 DEF w

(* So does strstr(buffer, "Host: ").                                       *)
LEMMA HostAtFacts ==
  ASSUME NEW t \in Seq(Symbols), Len(t) <= TextCap, NEW a \in Seq(Symbols),
         NEW n, BufferHolds(t, a, n)
  PROVE  /\ HostAt # Beyond => \E k \in HostWords(t \o a) : HostAt = k + 2
         /\ HostAt # Beyond => HostAt - 1 \in Cells /\ NoNul(1, HostAt - 1)
         /\ (\A i \in DOMAIN t : t[i] # "NUL") /\ HostWords(t) # {}
              => HostAt = Min(HostWords(t)) + 2 /\ Min(HostWords(t)) \in HostWords(t)
  <1> DEFINE W == { k \in 1 .. TextCap : /\ frame.text[k].sym = "Host:"
                                         /\ frame.text[k + 1].sym = "sp"
                                         /\ NoNul(1, k) }
             A == { k + 2 : k \in W }
             w == t \o a
  <1>1. /\ Len(t) \in Nat /\ DOMAIN t = 1 .. Len(t) /\ TextCap \in Nat
        /\ Len(w) \in Nat /\ DOMAIN w = 1 .. Len(w)
        /\ \A i \in 1 .. Len(t) : i \in Cells /\ frame.text[i].sym = t[i]
        /\ \A i \in Cells : i <= Len(w) => frame.text[i].sym = w[i]
        /\ Len(w) + 1 \in Cells => frame.text[Len(w) + 1].sym = "NUL"
        /\ \A k \in Cells : k > Len(w) => ~NoNul(1, k)
        /\ Cells = 1 .. TextCap + 1
    BY CellsOfText, SnifferAssumption DEF Cells
  <1>. HIDE DEF w
  <1>2. W \subseteq HostWords(w)
    <2> SUFFICES ASSUME NEW k \in W PROVE k \in 1 .. Len(w) /\ HasWord(w, k)
      BY <1>1 DEF HostWords
    <2>1. k \in Cells /\ k + 1 \in Cells
      BY <1>1
    <2>2. k \in 1 .. Len(w) /\ w[k] = "Host:"
      <3>1. k \in 1 .. Len(w) \/ k > Len(w)
        BY <1>1, <2>1
      <3>. QED  BY <1>1, <2>1, <3>1
    <2>3. k + 1 \in 1 .. Len(w) \/ k + 1 = Len(w) + 1
      BY <1>1, <2>2
    <2>4. k + 1 \in 1 .. Len(w) /\ w[k + 1] = "sp"
      BY <1>1, <2>1, <2>3
    <2>. QED  BY <1>1, <2>2, <2>4 DEF HasWord
  <1>3. /\ A \subseteq Nat /\ Beyond \in Nat /\ \A k \in A : k <= Beyond
        /\ W \subseteq Nat
    BY <1>1 DEF Beyond
  <1>4. HostAt = Min(A \union {Beyond})
    BY DEF HostAt
  <1>5. ASSUME \A i \in DOMAIN t : t[i] # "NUL", HostWords(t) # {}
        PROVE  Min(HostWords(t)) \in W /\ Min(HostWords(t)) \in HostWords(t)
               /\ \A k \in W : Min(HostWords(t)) <= k
    <2>1. HostWords(t) \subseteq Nat /\ HostWords(t) \subseteq 1 .. Len(t)
      BY <1>1 DEF HostWords
    <2>2. PICK m \in HostWords(t) : m = Min(HostWords(t)) /\ \A j \in HostWords(t) : m <= j
      BY <1>5, <2>1, MinLeast
    <2>3. /\ m \in 1 .. Len(t) /\ m + 1 \in 1 .. Len(t)
          /\ t[m] = "Host:" /\ t[m + 1] = "sp"
      BY <1>1, <2>1 DEF HostWords, HasWord
    <2>4. NoNul(1, m)
      BY <1>5, <2>3, NoNulInText
    <2>5. frame.text[m].sym = "Host:" /\ frame.text[m + 1].sym = "sp" /\ m \in 1 .. TextCap
      BY <1>1, <2>3
    <2>6. m \in W
      BY <2>4, <2>5
    <2>7. ASSUME NEW k \in W  PROVE  m <= k
      <3>1. CASE k + 1 <= Len(t)
        <4>1. /\ k \in 1 .. Len(t) /\ k + 1 \in 1 .. Len(t)
              /\ frame.text[k].sym = "Host:" /\ frame.text[k + 1].sym = "sp"
          BY <1>1, <3>1
        <4>2. k \in HostWords(t)
          BY <1>1, <3>1, <4>1 DEF HostWords, HasWord
        <4>. QED  BY <2>2, <4>2
      <3>2. CASE ~(k + 1 <= Len(t))
        BY <1>1, <2>3, <3>2
      <3>. QED  BY <3>1, <3>2
    <2>. QED  BY <2>2, <2>6, <2>7
  <1>6. ASSUME NEW k \in W  PROVE k + 1 \in Cells /\ NoNul(1, k + 1)
    <2>1. k + 1 \in Cells
      BY <1>1
    <2>2. NoNul(1, k) /\ frame.text[k + 1].sym # "NUL"
      OBVIOUS
    <2>3. \A i \in 1 .. k + 1 : i \in 1 .. k \/ i = k + 1
      BY <1>1
    <2>. QED  BY <2>1, <2>2, <2>3 DEF NoNul
  <1>. HIDE DEF W
  <1>7. /\ HostAt \in A \union {Beyond}
        /\ A # {} => HostAt = Min(A)
    <2>. HIDE DEF A
    <2>. QED  BY <1>3, <1>4, MinOrBound
  <1>8. ASSUME NEW m \in W, \A k \in W : m <= k  PROVE  HostAt = m + 2
    <2>1. m + 2 \in A /\ m \in Nat
      BY <1>3
    <2>2. ASSUME NEW j \in A  PROVE  m + 2 <= j
      <3>1. PICK k \in W : j = k + 2
        OBVIOUS
      <3>2. m <= k /\ k \in Nat
        BY <1>3, <1>8
      <3>. QED  BY <2>1, <3>1, <3>2
    <2>. HIDE DEF A
    <2>. QED  BY <1>3, <1>7, <2>1, <2>2, MinIs
  <1>9. HostAt # Beyond => \E k \in W : HostAt = k + 2
    BY <1>7
  <1>10. HostAt # Beyond => HostAt - 1 \in Cells /\ NoNul(1, HostAt - 1)
    <2> SUFFICES ASSUME HostAt # Beyond PROVE HostAt - 1 \in Cells /\ NoNul(1, HostAt - 1)
      OBVIOUS
    <2>1. PICK k \in W : HostAt = k + 2
      BY <1>9
    <2>2. HostAt - 1 = k + 1
      BY <1>3, <2>1
    <2>. QED  BY <1>6, <2>2
  <1>. QED  BY <1>2, <1>5, <1>8, <1>9, <1>10 DEF w

(* A scan that begins in a text stops at the first symbol it looks for.    *)
LEMMA ScanFacts ==
  ASSUME NEW t \in Seq(Symbols), Len(t) <= TextCap, NEW a \in Seq(Symbols),
         NEW n, BufferHolds(t, a, n),
         NEW i \in Nat \ {0}, NEW sym, \E j \in i .. Len(t) : t[j] = sym,
         NEW e, e = Min({ j \in i .. Len(t) : t[j] = sym })
  PROVE  First({sym}, i) = e /\ e \in i .. Len(t) /\ e # Beyond
  <1> DEFINE U == { j \in i .. Len(t) : t[j] = sym }
             A == { k \in Cells : k >= i /\ frame.text[k].sym \in {sym} }
  <1>1. /\ Len(t) \in Nat /\ TextCap \in Nat
        /\ \A k \in 1 .. Len(t) : k \in Cells /\ frame.text[k].sym = t[k]
    BY CellsOfText, SnifferAssumption
  <1>2. U \subseteq Nat /\ U # {} /\ U \subseteq A
    BY <1>1
  <1>3. Min(U) \in U /\ \A j \in U : Min(U) <= j
    <2>. HIDE DEF U
    <2>. QED  BY <1>2, MinLeast
  <1>4. ASSUME NEW k \in A  PROVE  Min(U) <= k
    <2>1. CASE k <= Len(t)
      <3>1. k \in U
        BY <1>1, <2>1 DEF Cells
      <3>. QED  BY <1>3, <3>1
    <2>2. CASE ~(k <= Len(t))
      BY <1>1, <1>3, <2>2 DEF Cells
    <2>. QED  BY <2>1, <2>2
  <1>5. A \subseteq Nat /\ Beyond \in Nat /\ \A k \in A : k <= Beyond
    BY <1>1 DEF Cells, Beyond
  <1>6. First({sym}, i) = Min(A \union {Beyond})
    BY DEF First
  <1>7. Min(U) \in A
    BY <1>2, <1>3
  <1>8. Min(U) \in i .. Len(t)
    BY <1>3
  <1>. HIDE DEF A, U
  <1>9. Min(A \union {Beyond}) = Min(U)
    <2>1. Min(A) = Min(U)
      BY <1>4, <1>5, <1>7, MinIs
    <2>2. A # {}
      BY <1>7
    <2>. QED  BY <1>5, <2>1, <2>2, MinOrBound
  <1>10. Min(U) # Beyond
    BY <1>1, <1>8 DEF Beyond
  <1>. QED  BY <1>6, <1>8, <1>9, <1>10 DEF U

-----------------------------------------------------------------------------
(* The URL of a request that lies in one frame.                            *)

(* A piece of text, as cells of frame n.                                   *)
Copies(c, s, n) ==
  /\ c \in Seq(CellSet)
  /\ Len(c) = Len(s)
  /\ \A k \in 1 .. Len(s) : c[k] = Cell(s[k], n)

(* A part of the buffer that lies in the text is that part of the text.    *)
LEMMA BetweenFacts ==
  ASSUME NEW t \in Seq(Symbols), Len(t) <= TextCap, NEW x,
         NEW n \in Frames, BufferHolds(t, x, n),
         NEW i \in Nat \ {0}, NEW e \in i .. Len(t)
  PROVE  /\ SubSeq(t, i, e - 1) \in Seq(Symbols)
         /\ Copies(Between(i, e), SubSeq(t, i, e - 1), n)
         /\ \A k \in 1 .. Len(SubSeq(t, i, e - 1)) :
              SubSeq(t, i, e - 1)[k] \in { t[j] : j \in DOMAIN t }
  <1>1. Len(t) \in Nat /\ DOMAIN t = 1 .. Len(t) /\ i \in Int /\ e - 1 \in Int
    BY LenProperties
  <1>2. \A j \in i .. e - 1 : /\ j \in DOMAIN t /\ t[j] \in Symbols
                              /\ frame.text[j] = Cell(t[j], n)
                              /\ frame.text[j] \in CellSet
    <2> TAKE j \in i .. e - 1
    <2>1. j \in 1 .. Len(t)
      BY <1>1
    <2>2. frame.text[j] = Cell(t[j], n) /\ t[j] \in Symbols
      BY <2>1 DEF BufferHolds
    <2>. QED  BY <1>1, <2>1, <2>2 DEF Cell, CellSet
  <1> DEFINE m == (e - 1) - i + 1
             s == SubSeq(t, i, e - 1)
             c == SubSeq(frame.text, i, e - 1)
  <1>3. /\ s \in Seq(Symbols) /\ Len(s) = IF i <= e - 1 THEN m ELSE 0
        /\ \A k \in 1 .. m : s[k] = t[i + k - 1]
    BY <1>1, <1>2, SubSeqProperties
  <1>4. /\ c \in Seq(CellSet) /\ Len(c) = IF i <= e - 1 THEN m ELSE 0
        /\ \A k \in 1 .. m : c[k] = frame.text[i + k - 1]
    BY <1>1, <1>2, SubSeqProperties
  <1>5. Between(i, e) = c
    BY DEF Between
  <1>. HIDE DEF s, c
  <1>6. ASSUME NEW k \in 1 .. Len(s)
        PROVE  s[k] \in { t[j] : j \in DOMAIN t } /\ c[k] = Cell(s[k], n)
    <2>1. k \in 1 .. m /\ i + k - 1 \in i .. e - 1
      BY <1>1, <1>3
    <2>. QED  BY <1>2, <1>3, <1>4, <2>1
  <1>. QED  BY <1>3, <1>4, <1>5, <1>6 DEF s, Copies

(* Two pieces one after the other.                                         *)
LEMMA CopiesJoined ==
  ASSUME NEW a \in Seq(Symbols), NEW b \in Seq(Symbols), NEW c, NEW d, NEW n,
         Copies(c, a, n), Copies(d, b, n)
  PROVE  a \o b \in Seq(Symbols) /\ Copies(c \o d, a \o b, n)
  <1> DEFINE ab == a \o b
             cd == c \o d
  <1>1. /\ c \in Seq(CellSet) /\ Len(c) = Len(a) /\ Len(a) \in Nat
        /\ d \in Seq(CellSet) /\ Len(d) = Len(b) /\ Len(b) \in Nat
    BY LenProperties DEF Copies
  <1>2. c \in Seq(CellSet) /\ d \in Seq(CellSet)
    BY <1>1
  <1>3. /\ ab \in Seq(Symbols) /\ Len(ab) = Len(a) + Len(b)
        /\ \A k \in 1 .. Len(a) : ab[k] = a[k]
        /\ \A k \in 1 .. Len(b) : ab[Len(a) + k] = b[k]
    OBVIOUS
  <1>4. /\ cd \in Seq(CellSet) /\ Len(cd) = Len(c) + Len(d)
        /\ \A k \in 1 .. Len(c) : cd[k] = c[k]
        /\ \A k \in 1 .. Len(d) : cd[Len(c) + k] = d[k]
    BY <1>2
  <1>. HIDE DEF ab, cd
  <1>5. ASSUME NEW k \in 1 .. Len(ab)  PROVE cd[k] = Cell(ab[k], n)
    <2>1. CASE k \in 1 .. Len(a)
      BY <1>1, <1>3, <1>4, <2>1 DEF Copies
    <2>2. CASE k \notin 1 .. Len(a)
      <3>1. k - Len(a) \in 1 .. Len(b) /\ k = Len(a) + (k - Len(a))
        BY <1>1, <1>3, <2>2
      <3>2. PICK j \in 1 .. Len(b) : k = Len(a) + j
        BY <3>1
      <3>3. cd[k] = d[j] /\ ab[k] = b[j]
        BY <1>1, <1>3, <1>4, <3>2
      <3>. QED  BY <3>2, <3>3 DEF Copies
    <2>. QED  BY <2>1, <2>2
  <1>. QED  BY <1>1, <1>3, <1>4, <1>5 DEF Copies, ab, cd

(* Such a piece, as UrlOf states it.                                       *)
LEMMA CopiesAll ==
  ASSUME NEW s \in Seq(Symbols), NEW c, NEW n, Copies(c, s, n)
  PROVE  c = [k \in DOMAIN s |-> Cell(s[k], n)]
  <1>1. DOMAIN s = 1 .. Len(s)
    BY LenProperties
  <1>2. c \in [1 .. Len(s) -> CellSet]
    <2>1. c \in Seq(CellSet) /\ Len(c) = Len(s)
      BY DEF Copies
    <2>. QED  BY <2>1, LenProperties, Zenon
  <1>3. \A k \in 1 .. Len(s) : c[k] = Cell(s[k], n)
    BY DEF Copies
  <1>4. c = [k \in 1 .. Len(s) |-> c[k]]
    BY <1>2
  <1>. QED  BY <1>1, <1>3, <1>4

(* A URL that no NUL cuts off is what was scanned.                         *)
LEMMA UncutUrl ==
  ASSUME NEW host, NEW path, Beyond \notin {host, path},
         NEW cells \in Seq(CellSet), cells = Scanned(host, path),
         \A k \in 1 .. Len(cells) : cells[k].sym # "NUL"
  PROVE  HttpUrl(host, path) = cells
  <1>1. SelectInSeq(cells, LAMBDA c : c.sym = "NUL") = 0
    BY DEF SelectInSeq
  <1>. QED  BY <1>1 DEF HttpUrl

(* What the parser makes of a host name and a path in a text.              *)
LEMMA FoundUrl ==
  ASSUME NEW t \in Seq(Symbols), Len(t) <= TextCap, NEW x,
         NEW n \in Frames, BufferHolds(t, x, n),
         \A i \in DOMAIN t : t[i] # "NUL",
         NEW h \in Nat \ {0}, NEW p \in Nat \ {0},
         NEW e \in h .. Len(t), NEW g \in p .. Len(t),
         First({"nl"}, h) = e, First({"sp"}, p) = g
  PROVE  LET u == SubSeq(t, h, e - 1) \o SubSeq(t, p, g - 1)
         IN  /\ Beyond \notin {h, p}
             /\ ~Strays(h, p)
             /\ HttpUrl(h, p) = [k \in DOMAIN u |-> Cell(u[k], n)]
  <1>1. Beyond \notin {h, p} /\ Beyond \notin {e, g}
    BY SnifferAssumption, LenProperties DEF Beyond
  <1>2. ~Strays(h, p)
    BY <1>1 DEF Strays
  <1> DEFINE a == SubSeq(t, h, e - 1)
             b == SubSeq(t, p, g - 1)
             c == Between(h, e)
             d == Between(p, g)
             u == a \o b
  <1>3. /\ a \in Seq(Symbols) /\ Copies(c, a, n)
        /\ \A k \in 1 .. Len(a) : a[k] \in { t[j] : j \in DOMAIN t }
    BY BetweenFacts
  <1>4. /\ b \in Seq(Symbols) /\ Copies(d, b, n)
        /\ \A k \in 1 .. Len(b) : b[k] \in { t[j] : j \in DOMAIN t }
    BY BetweenFacts
  <1>5. Scanned(h, p) = c \o d
    BY DEF Scanned
  <1>. HIDE DEF a, b, c, d
  <1>7. u \in Seq(Symbols) /\ Copies(c \o d, u, n)
    BY <1>3, <1>4, CopiesJoined
  <1>8. \A k \in 1 .. Len(u) : u[k] # "NUL"
    <2>1. /\ \A k \in 1 .. Len(a) : a[k] # "NUL"
          /\ \A k \in 1 .. Len(b) : b[k] # "NUL"
      BY <1>3, <1>4
    <2>2. a \in Seq(Symbols) /\ b \in Seq(Symbols)
      BY <1>3, <1>4
    <2>. QED  BY <2>1, <2>2
  <1>. HIDE DEF u
  <1>9. \A k \in 1 .. Len(c \o d) : (c \o d)[k].sym # "NUL"
    <2>1. /\ Len(c \o d) = Len(u)
          /\ \A k \in 1 .. Len(u) : (c \o d)[k] = Cell(u[k], n)
      BY <1>7 DEF Copies
    <2>2. \A k \in 1 .. Len(u) : Cell(u[k], n).sym # "NUL"
      BY <1>8 DEF Cell
    <2>. QED  BY <2>1, <2>2, Zenon
  <1>10. HttpUrl(h, p) = c \o d
    BY <1>1, <1>5, <1>7, <1>9, UncutUrl, Zenon DEF Copies
  <1>11. c \o d = [k \in DOMAIN u |-> Cell(u[k], n)]
    BY <1>7, CopiesAll, Zenon
  <1>. QED  BY <1>1, <1>2, <1>10, <1>11, Zenon DEF u, a, b

(* The parser finds the host and the path of a text that has both.         *)
LEMMA WholeText ==
  ASSUME NEW t \in Seq(Symbols), Len(t) <= TextCap, NEW x \in Seq(Symbols),
         NEW n \in Frames, BufferHolds(t, x, n),
         \A i \in DOMAIN t : t[i] # "NUL",
         Slashes(t) # {}, \A i \in Slashes(t) : Closed(t, i, "sp"),
         HostWords(t) # {}, \A i \in HostWords(t) : Closed(t, i, "nl")
  PROVE  /\ ~Strays(HostAt, SlashAt)
         /\ Beyond \notin {HostAt, SlashAt}
         /\ HttpUrl(HostAt, SlashAt) = UrlOf(t, n)
  <1>1. Len(t) \in Nat /\ DOMAIN t = 1 .. Len(t)
    BY LenProperties
  <1>3. PICK w \in HostWords(t) : w = Min(HostWords(t)) /\ HostAt = w + 2
    BY HostAtFacts
  <1>4. PICK p \in Slashes(t) : p = Min(Slashes(t)) /\ SlashAt = p
    BY SlashAtFacts
  <1>5. /\ w \in 1 .. Len(t) /\ w + 1 <= Len(t) /\ t[w] = "Host:" /\ t[w + 1] = "sp"
        /\ p \in 1 .. Len(t)
    BY <1>1, <1>3, <1>4 DEF HostWords, Slashes, HasWord
  <1>6. PICK h \in Nat \ {0} : h = w + 2
    BY <1>5
  <1>7. \E j \in h .. Len(t) : t[j] = "nl"
    <2>1. PICK j \in w .. Len(t) : t[j] = "nl"
      BY <1>3 DEF Closed
    <2>2. j # w /\ j # w + 1
      BY <1>5, <2>1
    <2>. QED  BY <1>1, <1>5, <1>6, <2>1, <2>2
  <1>8. \E j \in p .. Len(t) : t[j] = "sp"
    BY <1>4 DEF Closed
  <1>9. PICK e : e = Min({ j \in h .. Len(t) : t[j] = "nl" })
    OBVIOUS
  <1>10. PICK g : g = Min({ j \in p .. Len(t) : t[j] = "sp" })
    OBVIOUS
  <1>11. h \in Nat \ {0} /\ p \in Nat \ {0}
    BY <1>5, <1>6
  <1>0. \A i \in Nat \ {0} : \A sym :
          (\E j \in i .. Len(t) : t[j] = sym)
          => LET z == Min({ j \in i .. Len(t) : t[j] = sym })
             IN  First({sym}, i) = z /\ z \in i .. Len(t)
    BY ScanFacts
  <1>12. First({"nl"}, h) = e /\ e \in h .. Len(t)
    BY <1>0, <1>7, <1>9, <1>11, Zenon
  <1>13. First({"sp"}, p) = g /\ g \in p .. Len(t)
    BY <1>0, <1>8, <1>10, <1>11, Zenon
  <1>14. LET u == SubSeq(t, h, e - 1) \o SubSeq(t, p, g - 1)
         IN  /\ Beyond \notin {h, p} /\ ~Strays(h, p)
             /\ HttpUrl(h, p) = [k \in DOMAIN u |-> Cell(u[k], n)]
    BY <1>11, <1>12, <1>13, FoundUrl
  <1>15. LET u == SubSeq(t, h, e - 1) \o SubSeq(t, p, g - 1)
         IN  UrlOf(t, n) = [k \in DOMAIN u |-> Cell(u[k], n)]
    BY <1>3, <1>4, <1>6, <1>9, <1>10, Zenon DEF UrlOf, HostWords, Slashes
  <1>. QED  BY <1>3, <1>4, <1>6, <1>14, <1>15

(* So it does of a request that lies in one frame.                         *)
LEMMA WholeUrl ==
  ASSUME NEW f, f.text \in Seq(Symbols), Len(f.text) <= TextCap, NEW n \in Frames,
         NEW x \in Seq(Symbols), BufferHolds(f.text, x, n), WholeRequest(f)
  PROVE  /\ ~Strays(HostAt, SlashAt)
         /\ Beyond \notin {HostAt, SlashAt}
         /\ HttpUrl(HostAt, SlashAt) = UrlOf(f.text, n)
  <1>1. /\ \A i \in DOMAIN f.text : f.text[i] # "NUL"
        /\ Slashes(f.text) # {} /\ HostWords(f.text) # {}
        /\ \A i \in Slashes(f.text) : Closed(f.text, i, "sp")
        /\ \A i \in HostWords(f.text) : Closed(f.text, i, "nl")
    BY DEF WholeRequest, Slashes, HostWords
  <1>. QED  BY <1>1, WholeText

-----------------------------------------------------------------------------
(* What the log says.                                                      *)

(* What the log says of a frame is right.                                  *)
LogRight(e) ==
  /\ e.saved \in BOOLEAN
  /\ Len(e.url) <= 2 * TextCap
  /\ \A k \in 1 .. Len(e.url) : e.url[k].of \in {e.of, 0}
  /\ NoRequest(Continued(e)) => ~e.saved
  /\ WholeRequest(sent[e.of]) => e.saved /\ e.url = UrlOf(sent[e.of].text, e.of)

FoundInv ==
  /\ \A i \in DOMAIN log : LogRight(log[i])
  /\ pc = "astray" /\ device = "bound" => frame.of > 0
  /\ StraysOnlyWhenCut

(* Searches and scans end in the buffer or not at all.                     *)
LEMMA SearchTypes ==
  /\ HostAt \in 1 .. Beyond /\ SlashAt \in 1 .. Beyond
  /\ \A syms, i : First(syms, i) \in 1 .. Beyond
  <1>1. TextCap \in Nat /\ Beyond \in Nat /\ Beyond = TextCap + 2 /\ Cells = 1 .. TextCap + 1
    BY SnifferAssumption DEF Beyond, Cells
  <1>2. ASSUME NEW A, A \subseteq 1 .. Beyond
        PROVE  Min(A \union {Beyond}) \in 1 .. Beyond
    <2>1. A \subseteq Nat /\ \A j \in A : j <= Beyond
      BY <1>1, <1>2
    <2>2. Min(A \union {Beyond}) \in A \union {Beyond}
      BY <1>1, <2>1, MinOrBound
    <2>3. Beyond \in 1 .. Beyond
      BY <1>1
    <2>. QED  BY <1>2, <2>2, <2>3, Zenon
  <1>3. HostAt \in 1 .. Beyond
    <2> DEFINE W == { k \in 1 .. TextCap : /\ frame.text[k].sym = "Host:"
                                           /\ frame.text[k + 1].sym = "sp"
                                           /\ NoNul(1, k) }
               A == { k + 2 : k \in W }
    <2>1. A \subseteq 1 .. Beyond
      BY <1>1
    <2>2. HostAt = Min(A \union {Beyond})
      BY DEF HostAt
    <2>. HIDE DEF A
    <2>. QED  BY <1>2, <2>1, <2>2
  <1>4. SlashAt \in 1 .. Beyond
    <2> DEFINE A == { k \in Cells : frame.text[k].sym = "/" /\ NoNul(1, k) }
    <2>1. A \subseteq 1 .. Beyond
      BY <1>1
    <2>2. SlashAt = Min(A \union {Beyond})
      BY DEF SlashAt
    <2>. HIDE DEF A
    <2>. QED  BY <1>2, <2>1, <2>2
  <1>5. ASSUME NEW syms, NEW i  PROVE  First(syms, i) \in 1 .. Beyond
    <2> DEFINE A == { k \in Cells : k >= i /\ frame.text[k].sym \in syms }
    <2>1. A \subseteq 1 .. Beyond
      BY <1>1
    <2>2. First(syms, i) = Min(A \union {Beyond})
      BY DEF First
    <2>. HIDE DEF A
    <2>. QED  BY <1>2, <2>1, <2>2
  <1>. QED  BY <1>3, <1>4, <1>5

(* A piece of the buffer is no longer than the buffer.                     *)
LEMMA BetweenLength ==
  ASSUME frame.text \in [Cells -> CellSet], NEW i \in 1 .. Beyond, NEW e \in Cells
  PROVE  /\ Between(i, e) \in Seq(CellSet)
         /\ Len(Between(i, e)) \in 0 .. TextCap
  <1>1. TextCap \in Nat /\ Cells = 1 .. TextCap + 1 /\ i \in Int /\ e - 1 \in Int /\ i >= 1
    BY SnifferAssumption DEF Cells, Beyond
  <1>2. \A j \in i .. e - 1 : frame.text[j] \in CellSet
    BY <1>1
  <1>3. /\ Between(i, e) \in Seq(CellSet)
        /\ Len(Between(i, e)) = IF i <= e - 1 THEN (e - 1) - i + 1 ELSE 0
    BY <1>1, <1>2, SubSeqProperties DEF Between
  <1>. QED  BY <1>1, <1>3

(* A URL is what was scanned, up to the first NUL.                         *)
LEMMA CutUrl ==
  ASSUME NEW host, NEW path, Beyond \notin {host, path},
         NEW cells \in Seq(CellSet), cells = Scanned(host, path)
  PROVE  LET u == HttpUrl(host, path)
         IN  /\ Len(u) \in 0 .. Len(cells)
             /\ \A k \in 1 .. Len(u) : u[k] = cells[k] /\ cells[k].sym # "NUL"
  <1> DEFINE I == { i \in 1 .. Len(cells) : cells[i].sym = "NUL" }
             end == SelectInSeq(cells, LAMBDA x : x.sym = "NUL")
  <1>1. end = IF I # {} THEN Min(I) ELSE 0
    BY DEF SelectInSeq
  <1>2. HttpUrl(host, path) = IF end = 0 THEN cells ELSE SubSeq(cells, 1, end - 1)
    BY DEF HttpUrl
  <1>3. Len(cells) \in Nat /\ \A k \in 1 .. Len(cells) : cells[k] \in CellSet
    BY LenProperties
  <1>. HIDE DEF end
  <1>4. CASE I = {}
    <2>1. HttpUrl(host, path) = cells
      BY <1>1, <1>2, <1>4
    <2>2. \A k \in 1 .. Len(cells) : cells[k].sym # "NUL"
      BY <1>4
    <2>. QED  BY <1>3, <2>1, <2>2
  <1>5. CASE I # {}
    <2>1. I \subseteq Nat /\ I \subseteq 1 .. Len(cells)
      OBVIOUS
    <2>2. end \in I /\ \A j \in I : end <= j
      <3>. HIDE DEF I
      <3>. QED  BY <1>1, <1>5, <2>1, MinLeast
    <2>3. end \in 1 .. Len(cells) /\ end # 0
      BY <1>3, <2>2
    <2> DEFINE m == end - 1
               u == SubSeq(cells, 1, m)
    <2>4. m \in 0 .. Len(cells) /\ HttpUrl(host, path) = u
      BY <1>2, <1>3, <2>3
    <2>5. \A k \in 1 .. m : k \in 1 .. Len(cells) /\ cells[k].sym # "NUL"
      <3> TAKE k \in 1 .. m
      <3>1. k \in 1 .. Len(cells) /\ ~(end <= k)
        BY <1>3, <2>3
      <3>. QED  BY <2>2, <3>1
    <2>. HIDE DEF m, u
    <2>6. Len(u) = m /\ \A k \in 1 .. m : u[k] = cells[k]
      <3>1. m \in Nat /\ \A k \in 1 .. m : cells[k] \in CellSet
        BY <1>3, <2>4, <2>5
      <3>. QED  BY <2>4, <2>5, <3>1 DEF u
    <2>. QED  BY <2>4, <2>5, <2>6
  <1>. QED  BY <1>4, <1>5

(* The URL of a request fits two buffers.                                  *)
LEMMA HttpUrlLength ==
  ASSUME frame.text \in [Cells -> CellSet], NEW host \in 1 .. Beyond, NEW path \in 1 .. Beyond,
         ~Strays(host, path)
  PROVE  Len(HttpUrl(host, path)) <= 2 * TextCap
  <1>1. TextCap \in Nat /\ Cells = 1 .. TextCap + 1 /\ Beyond = TextCap + 2
    BY SnifferAssumption DEF Cells, Beyond
  <1>2. CASE Beyond \in {host, path}
    BY <1>1, <1>2 DEF HttpUrl, NoUrl
  <1>3. CASE Beyond \notin {host, path}
    <2> DEFINE c == Between(host, First({"nl"}, host))
               d == Between(path, First({"sp"}, path))
               cells == Scanned(host, path)
    <2>1. First({"nl"}, host) \in Cells /\ First({"sp"}, path) \in Cells
      BY <1>1, <1>3, SearchTypes DEF Strays
    <2>2. /\ c \in Seq(CellSet) /\ Len(c) \in 0 .. TextCap
          /\ d \in Seq(CellSet) /\ Len(d) \in 0 .. TextCap
      BY <2>1, BetweenLength
    <2>3. cells = c \o d
      BY DEF Scanned
    <2>. HIDE DEF c, d, cells
    <2>4. cells \in Seq(CellSet) /\ Len(cells) = Len(c) + Len(d)
      BY <2>2, <2>3
    <2>5. Len(cells) \in 0 .. 2 * TextCap
      BY <1>1, <2>2, <2>4
    <2>6. Len(HttpUrl(host, path)) \in 0 .. Len(cells)
      BY <1>3, <2>4, CutUrl DEF cells
    <2>. QED  BY <1>1, <2>5, <2>6
  <1>. QED  BY <1>2, <1>3

(* The name of a query fits one buffer.                                    *)
LEMMA DnsUrlLength ==
  Len(DnsUrl) <= 2 * TextCap
  <1> DEFINE m == First({"NUL"}, 1) - 1
             name(k) == IF frame.text[k + 1].sym \in DOMAIN LabelLength
                        THEN Cell(".", frame.text[k + 1].of) ELSE frame.text[k + 1]
             S == { name(k) : k \in 1 .. m - 1 }
  <1>1. TextCap \in Nat /\ m \in 0 .. TextCap + 1
    BY SnifferAssumption, SearchTypes DEF Beyond
  <1>2. DnsUrl = [k \in 1 .. m - 1 |-> name(k)]
    BY DEF DnsUrl
  <1>. HIDE DEF m, name
  <1>3. PICK l \in 0 .. TextCap : 1 .. m - 1 = 1 .. l
    <2>1. CASE m = 0
      BY <1>1, <2>1
    <2>2. CASE m # 0
      BY <1>1, <2>2
    <2>. QED  BY <2>1, <2>2
  <1>4. DnsUrl \in [1 .. l -> S]
    BY <1>2, <1>3
  <1>5. Len(DnsUrl) = l
    BY <1>1, <1>3, <1>4
  <1>. QED  BY <1>1, <1>3, <1>5

(* What lies before the first NUL is of the latest frame, or of the header *)
(* read behind it.                                                         *)
LEMMA OwnCells ==
  ASSUME NEW t \in Seq(Symbols), Len(t) <= TextCap, NEW a \in Seq(Symbols),
         NEW n, BufferHolds(t, a, n), NEW k \in Cells, NoNul(1, k)
  PROVE  frame.text[k].of \in {n, 0}
  <1> DEFINE w == t \o a
  <1>1. /\ \A i \in Cells : i <= Len(w) => frame.text[i].of \in {n, 0}
        /\ \A i \in Cells : i > Len(w) => ~NoNul(1, i)
        /\ Len(w) \in Nat
    BY CellsOfText
  <1>2. k \in Nat
    BY SnifferAssumption DEF Cells
  <1>. HIDE DEF w
  <1>. QED  BY <1>1, <1>2

(* So is each cell of a part that begins there and has no NUL.             *)
LEMMA OwnPart ==
  ASSUME frame.text \in [Cells -> CellSet],
         NEW t \in Seq(Symbols), Len(t) <= TextCap, NEW a \in Seq(Symbols),
         NEW n, BufferHolds(t, a, n),
         NEW i \in 1 .. Beyond, NEW e \in Cells, NoNul(1, i - 1),
         NEW k \in 1 .. Len(Between(i, e)),
         \A j \in 1 .. k : Between(i, e)[j].sym # "NUL"
  PROVE  Between(i, e)[k].of \in {n, 0}
  <1>1. TextCap \in Nat /\ Cells = 1 .. TextCap + 1 /\ Beyond = TextCap + 2
    BY SnifferAssumption DEF Cells, Beyond
  <1> DEFINE m == (e - 1) - i + 1
  <1>2. i \in Int /\ e - 1 \in Int /\ i >= 1 /\ e \in Int /\ e <= TextCap + 1
    BY <1>1
  <1>3. \A j \in i .. e - 1 : frame.text[j] \in CellSet
    BY <1>1, <1>2
  <1>4. /\ Len(Between(i, e)) = IF i <= e - 1 THEN m ELSE 0
        /\ \A j \in 1 .. m : Between(i, e)[j] = frame.text[i + j - 1]
    BY <1>2, <1>3, SubSeqProperties DEF Between
  <1>5. k \in 1 .. m /\ i + k - 1 \in Cells
    BY <1>1, <1>2, <1>4
  <1>0. \A j \in 1 .. i - 1 : frame.text[j].sym # "NUL"
    BY DEF NoNul
  <1>6. ASSUME NEW j \in 1 .. i + k - 1  PROVE  frame.text[j].sym # "NUL"
    <2>1. CASE j <= i - 1
      <3>1. j \in 1 .. i - 1
        BY <1>2, <2>1
      <3>. QED  BY <1>0, <3>1
    <2>2. CASE ~(j <= i - 1)
      <3>1. PICK l \in 1 .. k : j = i + l - 1
        <4>1. j - i + 1 \in 1 .. k /\ j = i + (j - i + 1) - 1
          BY <1>2, <1>5, <2>2
        <4>. QED  BY <4>1
      <3>2. l \in 1 .. m
        BY <1>2, <1>5
      <3>3. Between(i, e)[l] = frame.text[j]
        BY <1>4, <3>1, <3>2
      <3>. QED  BY <3>3
    <2>. QED  BY <2>1, <2>2
  <1>7. NoNul(1, i + k - 1)
    BY <1>6 DEF NoNul
  <1>8. frame.text[i + k - 1].of \in {n, 0}
    <2> DEFINE l == i + k - 1
    <2>1. l \in Cells /\ NoNul(1, l)
      BY <1>5, <1>7
    <2>. HIDE DEF l
    <2>2. frame.text[l].of \in {n, 0}
      BY <2>1, OwnCells
    <2>. QED  BY <2>2 DEF l
  <1>. QED  BY <1>4, <1>5, <1>8

(* The URL of a request is made of such cells.                             *)
LEMMA HttpUrlCells ==
  ASSUME frame.text \in [Cells -> CellSet],
         NEW t \in Seq(Symbols), Len(t) <= TextCap, NEW a \in Seq(Symbols),
         NEW n, BufferHolds(t, a, n), ~Strays(HostAt, SlashAt),
         NEW k \in 1 .. Len(HttpUrl(HostAt, SlashAt))
  PROVE  HttpUrl(HostAt, SlashAt)[k].of \in {n, 0}
  <1>1. TextCap \in Nat /\ Cells = 1 .. TextCap + 1 /\ Beyond = TextCap + 2
        /\ HostAt \in 1 .. Beyond /\ SlashAt \in 1 .. Beyond
    BY SnifferAssumption, SearchTypes DEF Cells, Beyond
  <1> DEFINE u == HttpUrl(HostAt, SlashAt)
             e == First({"nl"}, HostAt)
             g == First({"sp"}, SlashAt)
             c == Between(HostAt, e)
             d == Between(SlashAt, g)
             cells == Scanned(HostAt, SlashAt)
  <1>2. Beyond \notin {HostAt, SlashAt}
    <2>1. Beyond \in {HostAt, SlashAt} => Len(u) = 0
      BY DEF HttpUrl, NoUrl
    <2>. QED  BY <2>1
  <1>3. e \in Cells /\ g \in Cells
    BY <1>1, <1>2, SearchTypes DEF Strays
  <1>4. NoNul(1, HostAt - 1) /\ NoNul(1, SlashAt - 1)
    <2>1. NoNul(1, HostAt - 1)
      BY <1>2, HostAtFacts
    <2>2. NoNul(1, SlashAt)
      BY <1>2, SlashAtFacts
    <2>3. \A j \in 1 .. SlashAt - 1 : j \in 1 .. SlashAt
      BY <1>1
    <2>. QED  BY <2>1, <2>2, <2>3 DEF NoNul
  <1>5. c \in Seq(CellSet) /\ d \in Seq(CellSet) /\ cells = c \o d
    BY <1>1, <1>3, BetweenLength DEF Scanned
  <1>6. /\ \A j \in 1 .. Len(c) : (\A l \in 1 .. j : c[l].sym # "NUL") => c[j].of \in {n, 0}
        /\ \A j \in 1 .. Len(d) : (\A l \in 1 .. j : d[l].sym # "NUL") => d[j].of \in {n, 0}
    <2>. HIDE DEF e, g
    <2>1. ASSUME NEW i \in 1 .. Beyond, NEW f \in Cells, NoNul(1, i - 1),
                 NEW j \in 1 .. Len(Between(i, f)),
                 \A l \in 1 .. j : Between(i, f)[l].sym # "NUL"
          PROVE  Between(i, f)[j].of \in {n, 0}
      BY <2>1, OwnPart
    <2>. QED  BY <1>1, <1>3, <1>4, <2>1
  <1>. HIDE DEF c, d
  <1>7. /\ cells \in Seq(CellSet) /\ Len(cells) = Len(c) + Len(d)
        /\ Len(c) \in Nat /\ Len(d) \in Nat
        /\ \A j \in 1 .. Len(c) : cells[j] = c[j]
        /\ \A j \in 1 .. Len(d) : cells[Len(c) + j] = d[j]
    BY <1>5, JoinTwo
  <1>. HIDE DEF cells
  <1>8. /\ Len(u) \in 0 .. Len(cells)
        /\ \A j \in 1 .. Len(u) : u[j] = cells[j] /\ cells[j].sym # "NUL"
    BY <1>2, <1>7, CutUrl DEF cells
  <1>. HIDE DEF u
  <1>9. k \in 1 .. Len(u) /\ \A l \in 1 .. k : l \in 1 .. Len(u)
    BY <1>8 DEF u
  <1>10. CASE k <= Len(c)
    <2>1. k \in 1 .. Len(c) /\ \A l \in 1 .. k : l \in 1 .. Len(c) /\ l \in 1 .. Len(u)
      BY <1>7, <1>9, <1>10
    <2>2. \A l \in 1 .. k : c[l].sym # "NUL"
      BY <1>7, <1>8, <2>1
    <2>. QED  BY <1>6, <1>7, <1>8, <1>9, <2>1, <2>2 DEF u
  <1>11. CASE ~(k <= Len(c))
    <2>1. PICK j \in 1 .. Len(d) : k = Len(c) + j
      <3>1. k - Len(c) \in 1 .. Len(d) /\ k = Len(c) + (k - Len(c))
        BY <1>7, <1>8, <1>9, <1>11
      <3>. QED  BY <3>1
    <2>2. ASSUME NEW l \in 1 .. j  PROVE  d[l].sym # "NUL"
      <3>1. l \in 1 .. Len(d) /\ Len(c) + l \in 1 .. k
        BY <1>7, <2>1
      <3>2. Len(c) + l \in 1 .. Len(u)
        BY <1>9, <3>1
      <3>3. cells[Len(c) + l].sym # "NUL" /\ cells[Len(c) + l] = d[l]
        BY <1>7, <1>8, <3>1, <3>2
      <3>. QED  BY <3>3
    <2>3. d[j].of \in {n, 0} /\ u[k] = d[j]
      BY <1>6, <1>7, <1>8, <1>9, <2>1, <2>2
    <2>. QED  BY <2>3 DEF u
  <1>. QED  BY <1>10, <1>11

(* The first NUL of the buffer.                                            *)
LEMMA FirstNul ==
  LET z == First({"NUL"}, 1)
  IN  /\ z \in 1 .. Beyond
      /\ z # Beyond => z \in Cells /\ frame.text[z].sym = "NUL"
      /\ \A j \in Cells : frame.text[j].sym = "NUL" => z <= j
  <1> DEFINE A == { k \in Cells : k >= 1 /\ frame.text[k].sym \in {"NUL"} }
             z == First({"NUL"}, 1)
  <1>1. TextCap \in Nat /\ Cells = 1 .. TextCap + 1 /\ Beyond = TextCap + 2
    BY SnifferAssumption DEF Cells, Beyond
  <1>2. A \subseteq Nat /\ Beyond \in Nat /\ \A k \in A : k <= Beyond
    BY <1>1
  <1>3. z = Min(A \union {Beyond})
    BY DEF First
  <1>4. /\ \A k \in A : k \in Cells /\ frame.text[k].sym = "NUL"
        /\ \A k \in Cells : frame.text[k].sym = "NUL" => k \in A
    BY <1>1
  <1>. HIDE DEF A, z
  <1>5. z \in A \union {Beyond} /\ (A # {} => z = Min(A))
    BY <1>2, <1>3, MinOrBound
  <1>6. \A k \in A : z <= k
    BY <1>2, <1>5, MinLeast
  <1>7. z \in 1 .. Beyond
    BY SearchTypes DEF z
  <1>. QED  BY <1>4, <1>5, <1>6, <1>7 DEF z

(* And the name of a query is made of such cells.                          *)
LEMMA DnsUrlCells ==
  ASSUME NEW t \in Seq(Symbols), Len(t) <= TextCap, NEW a \in Seq(Symbols),
         NEW n, BufferHolds(t, a, n), NEW k \in 1 .. Len(DnsUrl)
  PROVE  DnsUrl[k].of \in {n, 0}
  <1> DEFINE z == First({"NUL"}, 1)
             name(i) == IF frame.text[i + 1].sym \in DOMAIN LabelLength
                        THEN Cell(".", frame.text[i + 1].of) ELSE frame.text[i + 1]
  <1>1. /\ z \in 1 .. Beyond
        /\ \A j \in Cells : frame.text[j].sym = "NUL" => z <= j
    BY FirstNul
  <1>2. TextCap \in Nat /\ Cells = 1 .. TextCap + 1 /\ Beyond = TextCap + 2
    BY SnifferAssumption DEF Cells, Beyond
  <1>3. DnsUrl = [i \in 1 .. (z - 1) - 1 |-> name(i)]
    BY DEF DnsUrl
  <1>. HIDE DEF z
  <1>4. k \in 1 .. (z - 1) - 1 /\ DnsUrl[k] = name(k)
    <2>1. PICK l \in Nat : 1 .. (z - 1) - 1 = 1 .. l
      <3>1. CASE (z - 1) - 1 \in Nat
        BY <3>1
      <3>2. CASE (z - 1) - 1 \notin Nat
        <4>1. 1 .. (z - 1) - 1 = 1 .. 0
          BY <1>1, <1>2, <3>2
        <4>. QED  BY <4>1
      <3>. QED  BY <3>1, <3>2
    <2> DEFINE S == { name(i) : i \in 1 .. l }
    <2>. HIDE DEF name
    <2>2. DnsUrl \in [1 .. l -> S]
      BY <1>3, <2>1
    <2>3. Len(DnsUrl) = l
      BY <2>2
    <2>. QED  BY <1>3, <2>1, <2>3
  <1>5. k + 1 \in Cells /\ k + 1 < z
    BY <1>1, <1>2, <1>4
  <1>6. NoNul(1, k + 1)
    BY <1>1, <1>2, <1>5 DEF NoNul
  <1>7. frame.text[k + 1].of \in {n, 0}
    <2> DEFINE l == k + 1
    <2>1. l \in Cells /\ NoNul(1, l)
      BY <1>5, <1>6
    <2>. HIDE DEF l
    <2>2. frame.text[l].of \in {n, 0}
      BY <2>1, OwnCells
    <2>. QED  BY <2>2 DEF l
  <1>8. name(k).of = frame.text[k + 1].of
    BY CellFields, Zenon
  <1>. HIDE DEF name
  <1>. QED  BY <1>4, <1>7, <1>8

-----------------------------------------------------------------------------
(* The actions.                                                            *)

(* The frame in the buffer, when there is one.                             *)
LEMMA FrameFacts ==
  ASSUME IInv, TextInv, frame.of > 0
  PROVE  /\ frame.of \in 1 .. Len(sent) /\ frame.of \in Frames
         /\ sent[frame.of].text \in Seq(Symbols)
         /\ Len(sent[frame.of].text) <= TextCap
         /\ frame.kind = sent[frame.of].kind
         /\ frame.after \in Seq(Symbols)
         /\ BufferHolds(sent[frame.of].text, frame.after, frame.of)
         /\ frame.text \in [Cells -> CellSet]
  <1>1. frame.of \in 1 .. Len(sent) /\ frame.kind = sent[frame.of].kind /\ KernelInv
        /\ Len(sent) <= MaxFrames /\ Len(sent) \in Nat
    BY DEF IInv, BufferInv, KernelInv
  <1>2. frame.of \in Frames
    BY <1>1, SnifferAssumption DEF Frames
  <1>. QED  BY <1>1, <1>2, TextOfFacts DEF TextInv

(* The frame with the start of the header read behind it.                  *)
WithHeader == [kind |-> frame.kind, text |-> sent[frame.of].text \o frame.after]

(* What the parser finds in an http frame.                                 *)
LEMMA HttpFrame ==
  ASSUME IInv, TextInv, frame.of > 0, frame.kind = "http"
  PROVE  LET f == sent[frame.of]
         IN  /\ NoRequest(WithHeader) => Beyond \in {HostAt, SlashAt}
             /\ WholeRequest(f) => /\ ~Strays(HostAt, SlashAt)
                                   /\ Beyond \notin {HostAt, SlashAt}
                                   /\ HttpUrl(HostAt, SlashAt) = UrlOf(f.text, frame.of)
             /\ NoRequest(WithHeader) /\ Strays(HostAt, SlashAt)
                  => Len(WithHeader.text) > TextCap
             /\ ~Strays(HostAt, SlashAt) =>
                  \A k \in 1 .. Len(HttpUrl(HostAt, SlashAt)) :
                    HttpUrl(HostAt, SlashAt)[k].of \in {frame.of, 0}
  <1> DEFINE f == sent[frame.of]
             t == f.text
             a == frame.after
             w == t \o a
  <1>1. /\ frame.of \in Frames /\ t \in Seq(Symbols) /\ Len(t) <= TextCap
        /\ a \in Seq(Symbols) /\ f.kind = "http" /\ BufferHolds(t, a, frame.of)
        /\ frame.text \in [Cells -> CellSet]
    BY FrameFacts
  <1>2. NoRequest(WithHeader) => Slashes(w) = {} \/ HostWords(w) = {}
    BY <1>1 DEF NoRequest, WithHeader, Slashes, HostWords
  <1>3. /\ SlashAt # Beyond => SlashAt \in Slashes(w)
        /\ HostAt # Beyond => \E k \in HostWords(w) : HostAt = k + 2
    <2>. HIDE DEF t, a
    <2>. QED  BY <1>1, SlashAtFacts, HostAtFacts
  <1>4. NoRequest(WithHeader) => Beyond \in {HostAt, SlashAt}
    <2>. HIDE DEF f, t, a, w
    <2>. QED  BY <1>2, <1>3
  <1>5. WholeRequest(f) => /\ ~Strays(HostAt, SlashAt)
                           /\ Beyond \notin {HostAt, SlashAt}
                           /\ HttpUrl(HostAt, SlashAt) = UrlOf(t, frame.of)
    <2>1. /\ f.text \in Seq(Symbols) /\ Len(f.text) <= TextCap
          /\ a \in Seq(Symbols) /\ BufferHolds(f.text, a, frame.of)
      BY <1>1
    <2>. HIDE DEF f, a
    <2>. QED  BY <1>1, <2>1, WholeUrl DEF t
  <1>6. ASSUME NoRequest(WithHeader), Strays(HostAt, SlashAt)
        PROVE  Len(w) > TextCap
    <2>1. NoNul(1, TextCap + 1)
      BY <1>4, <1>6 DEF Strays
    <2>2. Len(w) \in Nat /\ \A k \in Cells : k > Len(w) => ~NoNul(1, k)
      <3>. HIDE DEF t, a
      <3>. QED  BY <1>1, CellsOfText
    <2>3. TextCap \in Nat /\ TextCap + 1 \in Cells
      BY SnifferAssumption DEF Cells
    <2>. HIDE DEF w
    <2>. QED  BY <2>1, <2>2, <2>3
  <1>7. ~Strays(HostAt, SlashAt) =>
          \A k \in 1 .. Len(HttpUrl(HostAt, SlashAt)) :
            HttpUrl(HostAt, SlashAt)[k].of \in {frame.of, 0}
    <2>. HIDE DEF t, a
    <2>. QED  BY <1>1, HttpUrlCells
  <1>8. WithHeader.text = w
    BY DEF WithHeader
  <1>. QED  BY <1>4, <1>5, <1>6, <1>7, <1>8

(* A frame that has no line in the log gets a right one.                   *)
LEMMA LogGrows ==
  ASSUME IInv, FoundInv, UNCHANGED sent,
         NEW e, LogRight(e), log' = Append(log, e)
  PROVE  \A i \in DOMAIN log' : LogRight(log[i])'
  <1>1. /\ DOMAIN log = 1 .. Len(log) /\ DOMAIN log' = 1 .. Len(log) + 1
        /\ log'[Len(log) + 1] = e /\ Len(log) \in Nat
        /\ \A i \in 1 .. Len(log) : log'[i] = log[i]
    BY AppendToSeq DEF IInv, LogInv
  <1>2. ASSUME NEW i \in DOMAIN log'  PROVE  LogRight(log'[i])
    <2>1. i \in 1 .. Len(log) \/ i = Len(log) + 1
      BY <1>1
    <2>. QED  BY <1>1, <2>1 DEF FoundInv
  <1>3. \A i : LogRight(log'[i]) => LogRight(log[i])'
    BY DEF LogRight, Continued
  <1>. QED  BY <1>2, <1>3

(* The buffer keeps its type and its text.                                 *)
LEMMA InitText == Init => TextInv /\ FoundInv
  <1> SUFFICES ASSUME Init PROVE TextInv /\ FoundInv
    OBVIOUS
  <1>1. frame.text \in [Cells -> CellSet] /\ frame.of = 0
    BY HeaderCells DEF Init, EmptyFrame
  <1>2. TextInv
    BY <1>1, SnifferAssumption DEF Init, TextInv, EmptyFrame
  <1>3. FoundInv
    BY DEF Init, FoundInv, StraysOnlyWhenCut
  <1>. QED  BY <1>2, <1>3

(* A frame that arrives leaves the earlier ones as they are.               *)
LEMMA ArriveText ==
  ASSUME IInv, TextInv, FoundInv, NEW f \in Traffic, Arrive(f)
  PROVE  TextInv' /\ FoundInv'
  <1>1. /\ UNCHANGED << pc, device, eth_result, failures, frame, lst_ip, log >>
        /\ \A i \in 1 .. Len(sent) : sent'[i] = sent[i]
    BY DEF Arrive, IInv, KernelInv
  <1>2. Len(store') <= StoreCap
    <2>1. store \in Seq(1 .. Len(sent)) /\ Len(store) <= StoreCap /\ StoreCap \in Nat
      BY SnifferAssumption DEF IInv, KernelInv, TextInv
    <2>2. CASE store' = store
      BY <2>1, <2>2
    <2>3. CASE Len(store) < StoreCap /\ store' = Append(store, Len(sent'))
      <3>1. Len(store') = Len(store) + 1
        BY <2>1, <2>3
      <3>. QED  BY <2>1, <2>3, <3>1
    <2>. QED  BY <2>2, <2>3 DEF Arrive
  <1>3. frame.of > 0 => frame.of \in 1 .. Len(sent) /\ sent'[frame.of] = sent[frame.of]
    BY <1>1 DEF IInv, BufferInv, KernelInv
  <1>4. TextInv'
    <2>1. frame.of > 0 => sent'[frame.of].text = sent[frame.of].text
      BY <1>3
    <2>2. (frame.of > 0 => BufferHolds(sent[frame.of].text, frame.after, frame.of))'
      BY <1>1, <2>1 DEF TextInv, BufferHolds
    <2>. QED  BY <1>1, <1>2, <2>2 DEF TextInv
  <1>5. \A i \in DOMAIN log : LogRight(log[i])'
    <2> TAKE i \in DOMAIN log
    <2>1. sent'[log[i].of] = sent[log[i].of]
      BY <1>1 DEF IInv, LogInv
    <2>. QED  BY <1>1, <2>1 DEF FoundInv, LogRight, Continued
  <1>6. StraysOnlyWhenCut'
    BY <1>1, <1>3 DEF FoundInv, StraysOnlyWhenCut
  <1>. QED  BY <1>1, <1>4, <1>5, <1>6 DEF FoundInv

(* The log stays right while nothing is inspected.                         *)
LEMMA LogStays ==
  ASSUME IInv, FoundInv, UNCHANGED << sent, log >>,
         pc' = "astray" /\ device' = "bound" =>
           pc = "astray" /\ device = "bound" /\ frame' = frame
  PROVE  FoundInv'
  <1>1. \A i \in DOMAIN log : LogRight(log[i])'
    BY DEF FoundInv, LogRight, Continued
  <1>2. StraysOnlyWhenCut'
    BY DEF FoundInv, StraysOnlyWhenCut
  <1>. QED  BY <1>1, <1>2 DEF FoundInv

(* A read brings its first packet into the buffer.                         *)
LEMMA ReadText ==
  ASSUME IInv, TextInv, FoundInv, wait_eth_frame \/ eth_init
  PROVE  TextInv' /\ FoundInv'
  <1>1. UNCHANGED << sent, log >>
    BY DEF wait_eth_frame, eth_init, ReadPackets, ReadFails, ReadNothing, ReadUnsized, kernel_vars
  <1>2. pc' = "astray" => device' # "bound"
    BY DEF wait_eth_frame, eth_init, ReadPackets, ReadFails, ReadNothing, ReadUnsized
  <1>3. FoundInv'
    BY <1>1, <1>2, LogStays
  <1>4. CASE eth_init \/ ReadNothing \/ ReadUnsized
    <2>1. UNCHANGED << sent, store, failures, frame >> /\ eth_result' \in {0, -1}
      BY <1>4 DEF eth_init, ReadNothing, ReadUnsized, kernel_vars, TextInv
    <2>. QED  BY <1>3, <2>1 DEF TextInv, BufferHolds
  <1>5. CASE ReadFails
    <2>1. UNCHANGED << sent, store, eth_result >> /\ frame' = EmptyFrame
          /\ (failures' = failures \/ (failures < MaxFailures /\ failures' = failures + 1))
      BY <1>5 DEF ReadFails, FailedRead
    <2>2. frame'.text \in [Cells -> CellSet] /\ frame'.of = 0
          /\ frame'.after \in Seq(Symbols)
      BY <2>1, HeaderCells DEF EmptyFrame
    <2>3. failures' \in 0 .. MaxFailures
      BY <2>1, SnifferAssumption DEF TextInv
    <2>. QED  BY <1>3, <2>1, <2>2, <2>3 DEF TextInv
  <1>6. CASE ReadPackets
    <2>0. PICK n \in 1 .. Len(store) : \E hs \in [1 .. n - 1 -> Headers] :
            /\ frame' = [of |-> store[1], kind |-> sent[store[1]].kind,
                         text |-> Overlaid(Copied(SubSeq(store, 1, n), hs)),
                         after |-> After(hs)]
            /\ store' = SubSeq(store, n + 1, Len(store))
      BY <1>6 DEF ReadPackets, Taken
    <2>1. PICK hs \in [1 .. n - 1 -> Headers] :
            /\ frame' = [of |-> store[1], kind |-> sent[store[1]].kind,
                         text |-> Overlaid(Copied(SubSeq(store, 1, n), hs)),
                         after |-> After(hs)]
            /\ store' = SubSeq(store, n + 1, Len(store))
      BY <2>0
    <2>2. UNCHANGED << eth_result, failures >>
      BY <1>6 DEF ReadPackets
    <2>3. /\ store \in Seq(1 .. Len(sent)) /\ Len(store) \in Nat /\ KernelInv
          /\ Len(store) <= StoreCap /\ StoreCap \in Nat /\ n \in 1 .. Len(store)
      BY <2>1, SnifferAssumption DEF IInv, KernelInv, TextInv
    <2>4. Len(store') <= StoreCap
      <3>1. Len(SubSeq(store, n + 1, Len(store))) = Len(store) - n
        BY <2>3
      <3>. QED  BY <2>1, <2>3, <3>1
    <2> DEFINE ns == SubSeq(store, 1, n)
               c == Copied(ns, hs)
               t == sent[store[1]].text
               a == After(hs)
    <2>5. /\ ns \in Seq(1 .. Len(sent)) /\ Len(ns) >= 1 /\ ns[1] = store[1]
          /\ hs \in [1 .. Len(ns) - 1 -> Headers]
      BY <2>3
    <2>6. /\ c \in Seq(CellSet) /\ a \in Seq(Symbols)
          /\ Len(c) >= Len(t) + Len(a) + 1
          /\ \A i \in 1 .. Len(t) : c[i] = Cell(t[i], store[1])
          /\ \A i \in 1 .. Len(a) : c[Len(t) + i] = Cell(a[i], 0)
          /\ c[Len(t) + Len(a) + 1].sym = "NUL"
      <3>. HIDE DEF ns
      <3>1. LET v == sent[ns[1]].text
            IN  /\ c \in Seq(CellSet) /\ a \in Seq(Symbols)
                /\ Len(c) >= Len(v) + Len(a) + 1
                /\ \A i \in 1 .. Len(v) : c[i] = Cell(v[i], ns[1])
                /\ \A i \in 1 .. Len(a) : c[Len(v) + i] = Cell(a[i], 0)
                /\ c[Len(v) + Len(a) + 1].sym = "NUL"
        BY <2>3, <2>5, CopiedFacts, Zenon
      <3>. QED  BY <2>5, <3>1
    <2>7. /\ Len(t) \in 0 .. TextCap /\ store[1] \in 1 .. Len(sent)
          /\ Len(a) \in Nat /\ Len(c) \in Nat
      <3>1. store[1] \in 1 .. Len(sent)
        BY <2>3
      <3>2. Len(t) \in 0 .. TextCap
        BY <2>3, <3>1, TextOfFacts, Zenon
      <3>3. Len(a) \in Nat /\ Len(c) \in Nat
        BY <2>6, LenProperties, Zenon
      <3>. QED  BY <3>1, <3>2, <3>3
    <2>8. frame'.text = Overlaid(c) /\ frame'.of = store[1] /\ frame'.after = a
      BY <2>1
    <2>. HIDE DEF c, t, a
    <2>9. /\ Overlaid(c) \in [Cells -> CellSet]
          /\ \A i \in Cells : i <= Len(c) => Overlaid(c)[i] = c[i]
      BY <2>6, OverlaidFacts DEF TextInv
    <2>10. (BufferHolds(sent[frame.of].text, frame.after, frame.of))'
      <3>1. \A i \in Cells : i <= Len(t) + Len(a) + 1 => frame'.text[i] = c[i]
        BY <2>6, <2>7, <2>8, <2>9 DEF Cells
      <3>2. ASSUME NEW i \in 1 .. Len(t)  PROVE  frame'.text[i] = Cell(t[i], store[1])
        <4>1. i \in Cells /\ i <= Len(t) + Len(a) + 1
          BY <2>7, SnifferAssumption DEF Cells
        <4>. QED  BY <2>6, <3>1, <4>1
      <3>3. ASSUME NEW i \in 1 .. Len(a), Len(t) + i \in Cells
            PROVE  frame'.text[Len(t) + i] = Cell(a[i], 0)
        <4>1. Len(t) + i <= Len(t) + Len(a) + 1
          BY <2>7
        <4>. QED  BY <2>6, <3>1, <3>3, <4>1
      <3>4. Len(t) + Len(a) + 1 \in Cells
              => frame'.text[Len(t) + Len(a) + 1].sym = "NUL"
        BY <2>6, <2>7, <3>1
      <3>5. sent'[frame'.of].text = t /\ frame'.of = store[1] /\ frame'.after = a
        BY <1>1, <2>8 DEF t
      <3>. QED  BY <3>2, <3>3, <3>4, <3>5 DEF BufferHolds
    <2>11. TextInv'
      BY <2>2, <2>4, <2>6, <2>8, <2>9, <2>10 DEF TextInv
    <2>. QED  BY <1>3, <2>11
  <1>. QED  BY <1>4, <1>5, <1>6 DEF wait_eth_frame

(* A frame that is inspected gets its line in the log.                     *)
LEMMA LogsFrame ==
  ASSUME IInv, FoundInv, NEW url, NEW saved, Inspected(url, saved),
         UNCHANGED sent, pc' # "astray",
         frame.of > 0 => LogRight([of |-> frame.of, after |-> frame.after,
                                   url |-> url, saved |-> saved])
  PROVE  FoundInv'
  <1>1. CASE frame.of = 0
    <2>1. log' = log
      BY <1>1 DEF Inspected
    <2>. QED  BY <2>1, LogStays
  <1>2. CASE frame.of > 0
    <2> DEFINE e == [of |-> frame.of, after |-> frame.after,
                     url |-> url, saved |-> saved]
    <2>1. log' = Append(log, e) /\ LogRight(e)
      BY <1>2 DEF Inspected
    <2>. HIDE DEF e
    <2>2. \A i \in DOMAIN log' : LogRight(log[i])'
      BY <2>1, LogGrows
    <2>. QED  BY <2>2 DEF FoundInv, StraysOnlyWhenCut
  <1>. QED  BY <1>1, <1>2 DEF IInv, BufferInv, KernelInv

(* The parser leaves the buffer.                                           *)
LEMMA LeavesBuffer ==
  ASSUME FoundInv, frame.of > 0, frame.kind = sent[frame.of].kind,
         UNCHANGED << sent, log, frame >>,
         \/ /\ sent[frame.of].kind = "http"
            /\ ~WholeRequest(sent[frame.of])
            /\ NoRequest(WithHeader) => Len(WithHeader.text) > TextCap
         \/ /\ sent[frame.of].kind = "dns_query"
            /\ \/ ~Closed(sent[frame.of].text, 1, "NUL")
               \/ sent[frame.of].text[1] = "NUL"
  PROVE  FoundInv'
  <1>1. \A i \in DOMAIN log : LogRight(log[i])'
    BY DEF FoundInv, LogRight, Continued
  <1>2. StraysOnlyWhenCut'
    BY DEF StraysOnlyWhenCut, WithHeader
  <1>. QED  BY <1>1, <1>2 DEF FoundInv

(* A frame is inspected: what the log then says of it is right, or the     *)
(* parser has left the buffer for a reason.                                *)
LEMMA InspectText ==
  ASSUME IInv, TextInv, FoundInv, Inspect
  PROVE  TextInv' /\ FoundInv'
  <1>1. /\ pc = "inspect"
        /\ UNCHANGED << device, eth_result, failures, sent, store, frame >>
    BY DEF Inspect, InspectHttp, InspectDns, InspectOther, kernel_vars
  <1>2. TextInv'
    BY <1>1 DEF TextInv, BufferHolds
  <1> DEFINE f == sent[frame.of]
  <1>5. /\ frame.kind = IF frame.of = 0 THEN "other" ELSE f.kind
        /\ frame.of \in Nat
    BY DEF IInv, BufferInv, KernelInv
  <1>6. CASE InspectHttp
    <2>1. frame.kind = "http" /\ frame.of > 0 /\ f.kind = "http"
      BY <1>5, <1>6 DEF InspectHttp
    <2> DEFINE url == HttpUrl(HostAt, SlashAt)
               saved == Beyond \notin {HostAt, SlashAt}
    <2>2. /\ NoRequest(WithHeader) => ~saved
          /\ WholeRequest(f) => ~Strays(HostAt, SlashAt) /\ saved /\ url = UrlOf(f.text, frame.of)
          /\ NoRequest(WithHeader) /\ Strays(HostAt, SlashAt) => Len(WithHeader.text) > TextCap
          /\ ~Strays(HostAt, SlashAt) =>
               \A k \in 1 .. Len(url) : url[k].of \in {frame.of, 0}
      BY <2>1, HttpFrame
    <2>. HIDE DEF f
    <2>3. CASE Strays(HostAt, SlashAt) /\ UNCHANGED log
      <3>1. ~WholeRequest(f) /\ (NoRequest(WithHeader) => Len(WithHeader.text) > TextCap)
        BY <2>2, <2>3
      <3>. QED  BY <1>1, <1>2, <2>1, <2>3, <3>1, LeavesBuffer DEF f
    <2>4. CASE /\ ~Strays(HostAt, SlashAt) /\ pc' = "wait"
               /\ Inspected(HttpUrl(HostAt, SlashAt), Beyond \notin {HostAt, SlashAt})
      <3> DEFINE e == [of |-> frame.of, after |-> frame.after, url |-> url, saved |-> saved]
      <3>1. Len(url) <= 2 * TextCap
        BY <2>4, SearchTypes, HttpUrlLength DEF TextInv
      <3>2. e.of = frame.of /\ e.after = frame.after /\ e.url = url /\ e.saved = saved
            /\ saved \in BOOLEAN
        OBVIOUS
      <3>3. LogRight(e)
        <4>1. sent[e.of] = f /\ Continued(e) = WithHeader
          BY <2>1, <3>2 DEF f, Continued, WithHeader
        <4>. HIDE DEF e, url, saved
        <4>2. /\ NoRequest(WithHeader) => ~saved
              /\ WholeRequest(f) => saved /\ url = UrlOf(f.text, frame.of)
              /\ \A k \in 1 .. Len(url) : url[k].of \in {frame.of, 0}
          BY <2>2, <2>4
        <4>. QED  BY <3>1, <3>2, <4>1, <4>2, Zenon DEF LogRight
      <3>. QED  BY <1>1, <1>2, <2>4, <3>3, LogsFrame
    <2>. QED  BY <1>6, <2>3, <2>4 DEF InspectHttp
  <1>7. CASE InspectDns
    <2> DEFINE nul == First({"NUL"}, 1)
               t == f.text
    <2>1. frame.kind = "dns_query" /\ frame.of > 0 /\ f.kind = "dns_query"
      BY <1>5, <1>7 DEF InspectDns
    <2>2. /\ t \in Seq(Symbols) /\ Len(t) <= TextCap
          /\ frame.after \in Seq(Symbols) /\ BufferHolds(t, frame.after, frame.of)
      BY <2>1, FrameFacts
    <2>. HIDE DEF t
    <2>3. CASE /\ nul \in {1, Beyond} \/ frame.text[nul].of # frame.of
               /\ UNCHANGED log
      <3>1. ASSUME Closed(t, 1, "NUL")  PROVE  t[1] = "NUL"
        <4>1. PICK j \in 1 .. Len(t) : t[j] = "NUL"
          BY <3>1 DEF Closed
        <4>2. Len(t) \in Nat /\ TextCap \in Nat
          BY <2>2, SnifferAssumption, LenProperties
        <4>3. \A i \in 1 .. Len(t) : i \in Cells /\ i # Beyond
          BY <2>2, <4>2 DEF Cells, Beyond
        <4>4. \A i \in 1 .. Len(t) :
                frame.text[i].sym = t[i] /\ frame.text[i].of = frame.of
          <5> TAKE i \in 1 .. Len(t)
          <5>1. frame.text[i] = Cell(t[i], frame.of)
            BY <2>2 DEF BufferHolds
          <5>. QED  BY <5>1, CellFields
        <4>5. nul \in 1 .. Beyond /\ nul <= j
          BY <4>1, <4>3, <4>4, FirstNul
        <4>6. nul \in 1 .. Len(t)
          BY <4>2, <4>5 DEF Beyond
        <4>7. nul = 1
          BY <2>3, <4>3, <4>4, <4>6
        <4>8. frame.text[nul].sym = "NUL"
          BY <4>3, <4>6, FirstNul
        <4>. QED  BY <4>4, <4>6, <4>7, <4>8
      <3>2. ~Closed(t, 1, "NUL") \/ t[1] = "NUL"
        BY <3>1
      <3>. QED  BY <1>1, <1>2, <2>1, <2>3, <3>2, LeavesBuffer DEF t
    <2>4. CASE pc' = "wait" /\ Inspected(DnsUrl, TRUE)
      <3> DEFINE e == [of |-> frame.of, after |-> frame.after, url |-> DnsUrl, saved |-> TRUE]
      <3>1. \A k \in 1 .. Len(DnsUrl) : DnsUrl[k].of \in {frame.of, 0}
        BY <2>2, DnsUrlCells
      <3>2. /\ e.of = frame.of /\ e.after = frame.after /\ e.url = DnsUrl /\ e.saved = TRUE
            /\ Continued(e).kind = "dns_query"
        BY <2>1 DEF Continued
      <3>. HIDE DEF e
      <3>3. ~NoRequest(Continued(e)) /\ ~WholeRequest(sent[e.of])
        BY <2>1, <3>2 DEF NoRequest, WholeRequest
      <3>4. LogRight(e)
        BY <3>1, <3>2, <3>3, DnsUrlLength DEF LogRight
      <3>. QED  BY <1>1, <1>2, <2>4, <3>4, LogsFrame DEF e
    <2>. QED  BY <1>7, <2>3, <2>4 DEF InspectDns
  <1>8. CASE InspectOther
    <2>1. frame.kind \in {"ip", "other"} /\ pc' = "wait" /\ Inspected(NoUrl, FALSE)
      BY <1>8 DEF InspectOther
    <2>2. frame.of > 0 => LogRight([of |-> frame.of, after |-> frame.after,
                                    url |-> NoUrl, saved |-> FALSE])
      <3>1. frame.of > 0 => ~WholeRequest(f)
        BY <1>5, <2>1 DEF WholeRequest
      <3>. QED  BY <3>1, SnifferAssumption DEF LogRight, NoUrl
    <2>. QED  BY <1>1, <1>2, <2>1, <2>2, LogsFrame
  <1>. QED  BY <1>2, <1>6, <1>7, <1>8 DEF Inspect

(* The buffer's text and the log, for any traffic and whatever reads       *)
(* return or fail.                                                         *)
THEOREM SnifferText == Spec => [](TextInv /\ FoundInv)
  <1>1. IInv /\ (TextInv /\ FoundInv) /\ [Next]_vars => (TextInv /\ FoundInv)'
    <2>1. TextInv /\ FoundInv /\ UNCHANGED vars => (TextInv /\ FoundInv)'
      BY DEF TextInv, FoundInv, BufferHolds, LogRight, Continued, StraysOnlyWhenCut, vars
    <2>. QED
      BY <2>1, ArriveText, ReadText, InspectText DEF Next, Sniff
  <1>. QED  BY InitText, <1>1, SnifferInvariance, PTL DEF Spec

(* Every variable has its type: among others, the buffer is never longer   *)
(* than itself, whatever is copied into it, and a URL fits two buffers.    *)
THEOREM SnifferTypeOK == Spec => []TypeOK
  <1>1. IInv /\ TextInv /\ FoundInv => TypeOK
    <2> SUFFICES ASSUME IInv, TextInv, FoundInv PROVE TypeOK
      OBVIOUS
    <2>1. 0 .. Len(sent) \subseteq Frames /\ 1 .. Len(sent) \subseteq Frames
          /\ Len(sent) \in Nat /\ DOMAIN sent = 1 .. Len(sent)
      BY SnifferAssumption DEF IInv, KernelInv, Frames
    <2>2. store \in Seq(Frames) /\ Len(store) <= StoreCap
      <3>1. store \in Seq(1 .. Len(sent)) /\ Len(store) <= StoreCap
        BY DEF IInv, KernelInv, TextInv
      <3>. QED  BY <2>1, <3>1
    <2>3. frame.of \in Frames /\ lst_ip \in Frames
      BY <2>1 DEF IInv, BufferInv, SourceInv
    <2>4. \A i \in DOMAIN log : /\ log[i].of \in DOMAIN sent
                                /\ log[i].saved \in BOOLEAN
                                /\ Len(log[i].url) <= 2 * TextCap
      BY <2>1 DEF IInv, LogInv, FoundInv, LogRight
    <2>. QED
      BY <2>2, <2>3, <2>4 DEF IInv, KernelInv, BufferInv, TextInv, TypeOK, CellSet
  <1>. QED  BY SnifferInvariance, SnifferText, <1>1, PTL

(* A request that lies in one frame gives its own URL.                     *)
THEOREM SnifferRequestGivesItsUrl == Spec => []RequestGivesItsUrl
  <1>1. FoundInv => RequestGivesItsUrl
    BY DEF FoundInv, LogRight, RequestGivesItsUrl
  <1>. QED  BY SnifferText, <1>1, PTL

(* A frame without a request, which the header read behind it does not     *)
(* complete either, announces none.                                        *)
THEOREM SnifferNothingGivesNoUrl == Spec => []NothingGivesNoUrl
  <1>1. FoundInv => NothingGivesNoUrl
    BY DEF FoundInv, LogRight, NothingGivesNoUrl
  <1>. QED  BY SnifferText, <1>1, PTL

(* No URL has a piece of another frame, for any traffic and headers.       *)
THEOREM SnifferUrlIsOfItsFrame == Spec => []UrlIsOfItsFrame
  <1>1. FoundInv => UrlIsOfItsFrame
    BY DEF FoundInv, LogRight, UrlIsOfItsFrame
  <1>. QED  BY SnifferText, <1>1, PTL

(* The parser stays in the buffer unless a frame is cut off.               *)
THEOREM SnifferStraysOnlyWhenCut == Spec => []StraysOnlyWhenCut
  <1>1. FoundInv => StraysOnlyWhenCut
    BY DEF FoundInv
  <1>. QED  BY SnifferText, <1>1, PTL
==============================================================================
