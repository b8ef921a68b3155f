---------------------------- MODULE ArpTool_proofs ---------------------------
(* Proofs about the ARP tool, for any traffic, any number of frames and    *)
(* any size of the queues.                                                 *)
EXTENDS ArpTool, SequenceTheorems, TLAPS

(* Packages are in host order between two sends.                           *)
OrderInv == order = [p \in Packages |-> "host"] /\ WireInNetworkOrder

(* Frames wait in the order they arrived, behind those that were answers.  *)
QueueInv ==
  /\ \A i, j \in 1 .. Len(shared_queue) : i < j => shared_queue[i] < shared_queue[j]
  /\ \A i \in 1 .. Len(shared_queue) :
       targetMacAddress < shared_queue[i] /\ routerMacAddress < shared_queue[i]

(* What main knows at each place.                                          *)
KnownInv ==
  /\ main \in {"start", "create", "ask target", "await target"} => targetMacAddress = 0
  /\ main \in {"ask router", "await router"} => targetMacAddress # 0
  /\ main \in {"start", "create", "ask target", "await target", "ask router", "await router"}
       => routerMacAddress = 0
  /\ main \in {"send target", "send router"} => routerMacAddress # 0

(* An address that main learned is the sender's of an ARP reply.           *)
AnswersAreReplies ==
  \A mac \in {targetMacAddress, routerMacAddress} \ {0} :
    arrived[mac] = [ethertype |-> "arp", operation |-> "reply"]

AnswerInv == QueueInv /\ KnownInv /\ AnswersAreReplies /\ AnswersDiffer

(* The packages of the endless loop go where main learned.                 *)
LoopInv ==
  \A s \in wire :
    /\ s.package = "maliciousPackage" => s.to = targetMacAddress
    /\ s.package = "maliciousRouterPackage" => s.to = routerMacAddress
    /\ s.package \in {"maliciousPackage", "maliciousRouterPackage"}
       => main \in {"send target", "send router", "exited"} /\ routerMacAddress # 0

(* Nothing runs in the background before main starts it.                   *)
ThreadInv == main \in {"start", "create"} => thread = "none"

IInv == TypeOK /\ OrderInv /\ ThreadInv /\ AnswerInv /\ LoopInv

(* A queue after a frame arrived: as it was, or with the frame at its end. *)
LEMMA QueuedSeq ==
  ASSUME NEW S, NEW q \in Seq(S), NEW n \in S, Len(q) <= QueueCap
  PROVE  /\ Queued(q, n) \in Seq(S)
         /\ Len(Queued(q, n)) <= QueueCap
         /\ \A i \in 1 .. Len(Queued(q, n)) :
              \/ i <= Len(q) /\ Queued(q, n)[i] = q[i]
              \/ i = Len(q) + 1 /\ Queued(q, n)[i] = n
<1>1. Len(q) \in Nat
  OBVIOUS
<1>2. CASE Len(q) < QueueCap
  <2>1. Queued(q, n) = Append(q, n)
    BY <1>2 DEF Queued
  <2>2. Append(q, n) \in Seq(S) /\ Len(Append(q, n)) = Len(q) + 1
    OBVIOUS
  <2>3. \A i \in 1 .. Len(q) + 1 :
          Append(q, n)[i] = IF i = Len(q) + 1 THEN n ELSE q[i]
    OBVIOUS
  <2> QED
    BY <1>1, <1>2, <2>1, <2>2, <2>3, ArpAssumption
<1>3. CASE ~ (Len(q) < QueueCap)
  BY <1>1, <1>3 DEF Queued
<1> QED
  BY <1>2, <1>3

(* A sequence over a set is one over every larger set.                     *)
LEMMA SeqWidens ==
  ASSUME NEW S, NEW T, S \subseteq T, NEW q \in Seq(S)
  PROVE  q \in Seq(T)
<1>1. Len(q) \in Nat /\ q = [i \in 1 .. Len(q) |-> q[i]]
  BY LenProperties
<1>2. \A i \in 1 .. Len(q) : q[i] \in T
  BY ElementOfSeq
<1> QED
  BY <1>1, <1>2, SMT

(* The rest of a queue.                                                    *)
LEMMA TailSeq ==
  ASSUME NEW S, NEW q \in Seq(S), q # << >>
  PROVE  /\ Head(q) \in S /\ Head(q) = q[1]
         /\ Tail(q) \in Seq(S)
         /\ Len(q) \in Nat \ {0} /\ Len(Tail(q)) = Len(q) - 1
         /\ \A i \in 1 .. Len(Tail(q)) : Tail(q)[i] = q[i + 1]
<1>1. Len(q) \in Nat \ {0}
  BY EmptySeq
<1>2. Head(q) = q[1]
  OBVIOUS
<1> QED
  BY <1>1, <1>2, HeadTailProperties

(* A longer history of arrivals keeps what was said of the shorter one.    *)
LEMMA ArrivedGrows ==
  ASSUME NEW f \in Frame, TypeOK, arrived' = Append(arrived, f)
  PROVE  /\ arrived' \in Seq(Frame) /\ Len(arrived') = Len(arrived) + 1
         /\ Len(arrived) \in Nat
         /\ \A n \in 1 .. Len(arrived) : arrived'[n] = arrived[n]
<1>1. arrived \in Seq(Frame)
  BY DEF TypeOK
<1> QED
  BY <1>1, AppendProperties, LenProperties

(* The program starts in the invariant.                                    *)
LEMMA InitIInv == Init => IInv
<1> SUFFICES ASSUME Init PROVE IInv
  OBVIOUS
<1>1. TypeOK
  <2>1. arrived \in Seq(Frame) /\ Len(arrived) = 0
    BY EmptySeq DEF Init
  <2>2. shared_queue \in Seq(1 .. Len(arrived)) /\ Len(shared_queue) = 0
    BY EmptySeq DEF Init
  <2>3. raw_queue \in Seq(0 .. Len(arrived)) /\ Len(raw_queue) = 0
    BY EmptySeq DEF Init
  <2> QED
    BY <2>1, <2>2, <2>3, ArpAssumption DEF Init, TypeOK
<1>2. OrderInv
  BY DEF Init, OrderInv, WireInNetworkOrder
<1>3. AnswerInv
  BY DEF Init, AnswerInv, QueueInv, KnownInv, AnswersAreReplies, AnswersDiffer
<1>4. ThreadInv /\ LoopInv
  BY DEF Init, ThreadInv, LoopInv
<1> QED
  BY <1>1, <1>2, <1>3, <1>4 DEF IInv

(* The steps of main that send.                                            *)
LEMMA SendKeepsTypes ==
  ASSUME TypeOK, OrderInv, NEW p \in Packages, NEW mac \in 0 .. Len(arrived),
         sendArpPackage(p, mac)
  PROVE  /\ order' = [q \in Packages |-> "host"]
         /\ wire' \subseteq [package : Packages, order : {"host", "network"}, to : 0 .. Len(arrived)]
         /\ WireInNetworkOrder'
         /\ raw_queue' \in Seq(0 .. Len(arrived)) /\ Len(raw_queue') <= QueueCap
<1>1. order[p] = "host" /\ Swap(order[p]) = "network" /\ Swap(Swap(order[p])) = "host"
  BY DEF OrderInv, Swap
<1>2. order' = [q \in Packages |-> "host"]
  BY <1>1 DEF sendArpPackage, OrderInv
<1>3. wire' = wire \union {[package |-> p, order |-> "network", to |-> mac]}
  BY <1>1 DEF sendArpPackage
<1>4. wire' \subseteq [package : Packages, order : {"host", "network"}, to : 0 .. Len(arrived)]
  <2>1. [package |-> p, order |-> "network", to |-> mac]
          \in [package : Packages, order : {"host", "network"}, to : 0 .. Len(arrived)]
    OBVIOUS
  <2> QED
    BY <1>3, <2>1, Zenon DEF TypeOK
<1>5. WireInNetworkOrder'
  BY <1>3 DEF OrderInv, WireInNetworkOrder
<1>6. raw_queue' \in Seq(0 .. Len(arrived)) /\ Len(raw_queue') <= QueueCap
  <2>1. 0 \in 0 .. Len(arrived)
    <3>1. arrived \in Seq(Frame)
      BY DEF TypeOK
    <3> QED
      BY <3>1, LenProperties
  <2>2. /\ Queued(raw_queue, 0) \in Seq(0 .. Len(arrived))
        /\ Len(Queued(raw_queue, 0)) <= QueueCap
    BY <2>1, QueuedSeq DEF TypeOK
  <2> QED
    BY <2>2 DEF sendArpPackage, TypeOK
<1> QED
  BY <1>2, <1>4, <1>5, <1>6

(* No step leaves the types: one case per action.                          *)
LEMMA TypeStep == IInv /\ [Next]_vars => TypeOK'
<1> SUFFICES ASSUME IInv, [Next]_vars PROVE TypeOK'
  OBVIOUS
<1> USE DEF IInv
<1>0. arrived \in Seq(Frame) /\ Len(arrived) \in Nat
  BY LenProperties DEF TypeOK
<1>1. ASSUME NEW f \in Traffic, Arrive(f) PROVE TypeOK'
  <2> DEFINE n == Len(arrived) + 1
  <2>1. f \in Frame
    BY ArpAssumption
  <2>2. arrived' \in Seq(Frame) /\ Len(arrived') = n /\ n <= MaxFrames
    BY <1>0, <1>1, <2>1, ArrivedGrows, ArpAssumption DEF Arrive
  <2>3. 1 .. Len(arrived) \subseteq 1 .. n /\ 0 .. Len(arrived) \subseteq 0 .. n
        /\ n \in 1 .. n /\ n \in 0 .. n
    BY <1>0
  <2>4. shared_queue \in Seq(1 .. n) /\ raw_queue \in Seq(0 .. n)
    BY <2>3, SeqWidens, Zenon DEF TypeOK
  <2>5. shared_queue' \in Seq(1 .. Len(arrived')) /\ Len(shared_queue') <= QueueCap
    <3>1. Len(shared_queue) <= QueueCap
      BY DEF TypeOK
    <3>2. Queued(shared_queue, n) \in Seq(1 .. n) /\ Len(Queued(shared_queue, n)) <= QueueCap
      BY <2>3, <2>4, <3>1, QueuedSeq
    <3>3. shared_queue' \in {shared_queue, Queued(shared_queue, n)}
      BY <1>1, <2>2 DEF Arrive
    <3> QED
      BY <2>2, <2>4, <3>1, <3>2, <3>3
  <2>6. raw_queue' \in Seq(0 .. Len(arrived')) /\ Len(raw_queue') <= QueueCap
    <3>1. Len(raw_queue) <= QueueCap
      BY DEF TypeOK
    <3>2. Queued(raw_queue, n) \in Seq(0 .. n) /\ Len(Queued(raw_queue, n)) <= QueueCap
      BY <2>3, <2>4, <3>1, QueuedSeq
    <3>3. raw_queue' \in {raw_queue, Queued(raw_queue, n)}
      BY <1>1, <2>2 DEF Arrive
    <3> QED
      BY <2>2, <2>4, <3>1, <3>2, <3>3
  <2>7. {targetMacAddress, routerMacAddress}' \subseteq 0 .. Len(arrived')
    BY <1>1, <2>2, <2>3 DEF Arrive, TypeOK
  <2>8. wire' \subseteq [package : Packages, order : {"host", "network"}, to : 0 .. Len(arrived')]
    <3>1. [package : Packages, order : {"host", "network"}, to : 0 .. Len(arrived)]
            \subseteq [package : Packages, order : {"host", "network"}, to : 0 .. n]
      BY <2>3
    <3> QED
      BY <1>1, <2>2, <3>1 DEF Arrive, TypeOK
  <2>9. UNCHANGED << main, thread, raw, order, taken, printed >>
    BY <1>1 DEF Arrive, thread_vars
  <2> QED
    <3>1. /\ main' \in {"start", "create", "ask target", "await target", "ask router",
                       "await router", "send target", "send router", "exited"}
          /\ thread' \in {"none", "open", "recv", "ended", "exited"}
          /\ raw' \in {"none", "open", "leaked"}
          /\ raw' = "open" <=> thread' = "recv"
          /\ raw' = "leaked" => thread' = "ended"
          /\ order' \in [Packages -> {"host", "network"}]
          /\ printed' \subseteq taken'
      BY <2>9 DEF TypeOK
    <3>2. Len(arrived') <= MaxFrames
      BY <2>2
    <3> QED
      BY <2>2, <2>5, <2>6, <2>7, <2>8, <3>1, <3>2, Zenon DEF TypeOK
<1>2. ASSUME InitSharedSocket PROVE TypeOK'
  BY <1>2 DEF InitSharedSocket, TypeOK, thread_vars
<1>3. ASSUME CreateThread PROVE TypeOK'
  <2>1. raw = "none"
    BY <1>3 DEF CreateThread, ThreadInv, TypeOK
  <2> QED
    BY <1>3, <2>1 DEF CreateThread, TypeOK
<1>4. ASSUME AskTarget PROVE TypeOK'
  <2>1. "initialPackage" \in Packages /\ 0 \in 0 .. Len(arrived)
    BY <1>0 DEF Packages
  <2>2. sendArpPackage("initialPackage", 0)
    BY <1>4 DEF AskTarget
  <2> QED
    BY <1>4, SendKeepsTypes, <2>1, <2>2 DEF AskTarget, TypeOK, thread_vars
<1>5. ASSUME AskRouter PROVE TypeOK'
  <2>1. "routerInitialPackage" \in Packages /\ 0 \in 0 .. Len(arrived)
    BY <1>0 DEF Packages
  <2>2. sendArpPackage("routerInitialPackage", 0)
    BY <1>5 DEF AskRouter
  <2> QED
    BY <1>5, SendKeepsTypes, <2>1, <2>2 DEF AskRouter, TypeOK, thread_vars
<1>6. ASSUME SendToTarget PROVE TypeOK'
  <2>1. "maliciousPackage" \in Packages /\ targetMacAddress \in 0 .. Len(arrived)
    BY DEF Packages, TypeOK
  <2>2. sendArpPackage("maliciousPackage", targetMacAddress)
    BY <1>6 DEF SendToTarget
  <2> QED
    BY <1>6, SendKeepsTypes, <2>1, <2>2 DEF SendToTarget, TypeOK, thread_vars
<1>7. ASSUME SendToRouter PROVE TypeOK'
  <2>1. "maliciousRouterPackage" \in Packages /\ routerMacAddress \in 0 .. Len(arrived)
    BY DEF Packages, TypeOK
  <2>2. sendArpPackage("maliciousRouterPackage", routerMacAddress)
    BY <1>7 DEF SendToRouter
  <2> QED
    BY <1>7, SendKeepsTypes, <2>1, <2>2 DEF SendToRouter, TypeOK, thread_vars
<1>8. ASSUME shared_queue # << >>
      PROVE  /\ Head(shared_queue) \in 0 .. Len(arrived)
             /\ Tail(shared_queue) \in Seq(1 .. Len(arrived))
             /\ Len(Tail(shared_queue)) <= QueueCap
  <2>1. shared_queue \in Seq(1 .. Len(arrived)) /\ Len(shared_queue) <= QueueCap
    BY DEF TypeOK
  <2>2. /\ Head(shared_queue) \in 1 .. Len(arrived)
        /\ Tail(shared_queue) \in Seq(1 .. Len(arrived))
        /\ Len(shared_queue) \in Nat \ {0}
        /\ Len(Tail(shared_queue)) = Len(shared_queue) - 1
    BY <1>8, <2>1, TailSeq
  <2> QED
    BY <2>1, <2>2, <1>0, ArpAssumption
<1>9. ASSUME AwaitTarget PROVE TypeOK'
  BY <1>8, <1>9 DEF AwaitTarget, TypeOK, thread_vars
<1>10. ASSUME AwaitRouter PROVE TypeOK'
  BY <1>8, <1>10 DEF AwaitRouter, TypeOK, thread_vars
<1>11. ASSUME Fail PROVE TypeOK'
  BY <1>11 DEF Fail, TypeOK
<1>12. ASSUME OpenRaw PROVE TypeOK'
  BY <1>12 DEF OpenRaw, TypeOK, main_vars
<1>13. ASSUME ArpSnifferLoop PROVE TypeOK'
  <2>1. raw_queue \in Seq(0 .. Len(arrived)) /\ Len(raw_queue) <= QueueCap
    BY DEF TypeOK
  <2>2. raw_queue # << >>
    BY <1>13 DEF ArpSnifferLoop
  <2>3. /\ Tail(raw_queue) \in Seq(0 .. Len(arrived))
        /\ Len(raw_queue) \in Nat \ {0}
        /\ Len(Tail(raw_queue)) = Len(raw_queue) - 1
    BY <2>1, <2>2, TailSeq
  <2>4. Len(Tail(raw_queue)) <= QueueCap
    BY <2>1, <2>3, ArpAssumption
  <2> QED
    BY <1>13, <2>3, <2>4 DEF ArpSnifferLoop, TypeOK, main_vars
<1>14. ASSUME ReceiveFails PROVE TypeOK'
  <2>1. << >> \in Seq(0 .. Len(arrived)) /\ Len(<< >>) <= QueueCap
    BY EmptySeq, ArpAssumption
  <2> QED
    BY <1>14, <2>1 DEF ReceiveFails, TypeOK, main_vars
<1>15. ASSUME UNCHANGED vars PROVE TypeOK'
  BY <1>15 DEF vars, main_vars, thread_vars, TypeOK
<1> QED
  BY <1>1, <1>2, <1>3, <1>4, <1>5, <1>6, <1>7, <1>9, <1>10, <1>11, <1>12, <1>13, <1>14,
     <1>15 DEF Next, MainStep

(* CreateThread is what starts the background thread.                      *)
LEMMA ThreadStep == IInv /\ [Next]_vars => ThreadInv'
BY DEF IInv, ThreadInv, Next, MainStep, Arrive, InitSharedSocket, CreateThread, AskTarget,
   AwaitTarget, AskRouter, AwaitRouter, SendToTarget, SendToRouter, Fail, OpenRaw,
   ArpSnifferLoop, ReceiveFails, vars, main_vars, thread_vars

(* Every send converts its package to network order and back.              *)
LEMMA OrderStep == IInv /\ [Next]_vars => OrderInv'
<1> SUFFICES ASSUME IInv, [Next]_vars PROVE OrderInv'
  OBVIOUS
<1>0. arrived \in Seq(Frame) /\ Len(arrived) \in Nat
  BY LenProperties DEF IInv, TypeOK
<1>1. ASSUME NEW p \in Packages, NEW mac \in 0 .. Len(arrived), sendArpPackage(p, mac)
      PROVE  OrderInv'
  BY <1>1, SendKeepsTypes DEF IInv, OrderInv
<1>2. CASE AskTarget \/ AskRouter \/ SendToTarget \/ SendToRouter
  <2>1. {0, targetMacAddress, routerMacAddress} \subseteq 0 .. Len(arrived)
    <3>1. targetMacAddress \in 0 .. Len(arrived) /\ routerMacAddress \in 0 .. Len(arrived)
      BY DEF IInv, TypeOK
    <3>2. 0 \in 0 .. Len(arrived)
      BY <1>0
    <3> QED
      BY <3>1, <3>2, Zenon
  <2>2. \E p \in Packages, mac \in {0, targetMacAddress, routerMacAddress} :
          sendArpPackage(p, mac)
    BY <1>2 DEF AskTarget, AskRouter, SendToTarget, SendToRouter, Packages
  <2> QED
    BY <1>1, <2>1, <2>2
<1>3. CASE UNCHANGED << order, wire >>
  BY <1>3 DEF IInv, OrderInv, WireInNetworkOrder
<1>4. CASE \/ InitSharedSocket \/ CreateThread \/ AwaitTarget \/ AwaitRouter \/ Fail
           \/ OpenRaw \/ ArpSnifferLoop \/ ReceiveFails
  BY <1>3, <1>4 DEF InitSharedSocket, CreateThread, AwaitTarget, AwaitRouter, Fail,
     OpenRaw, ArpSnifferLoop, ReceiveFails, main_vars
<1>5. CASE (\E f \in Traffic : Arrive(f)) \/ UNCHANGED vars
  BY <1>3, <1>5 DEF Arrive, vars, main_vars
<1> QED
  BY <1>2, <1>4, <1>5 DEF Next, MainStep

(* A new arrival has the greatest number of all.                           *)
LEMMA AnswerArrive == ASSUME IInv, NEW f \in Traffic, Arrive(f) PROVE AnswerInv'
<1> USE DEF IInv
<1> DEFINE n == Len(arrived) + 1
<1>1. f \in Frame
  BY ArpAssumption
<1>2. /\ Len(arrived) \in Nat /\ Len(arrived') = n
      /\ \A k \in 1 .. Len(arrived) : arrived'[k] = arrived[k]
  BY <1>1, ArrivedGrows DEF Arrive
<1>3. /\ shared_queue \in Seq(1 .. Len(arrived)) /\ Len(shared_queue) <= QueueCap
      /\ Len(shared_queue) \in Nat
      /\ \A i \in 1 .. Len(shared_queue) : shared_queue[i] \in 1 .. Len(arrived)
  BY LenProperties, ElementOfSeq DEF TypeOK
<1>4. targetMacAddress \in 0 .. Len(arrived) /\ routerMacAddress \in 0 .. Len(arrived)
  BY DEF TypeOK
<1>5. UNCHANGED << main, targetMacAddress, routerMacAddress >>
  BY DEF Arrive
<1>6. QueueInv'
  <2>1. CASE shared_queue' = shared_queue
    BY <1>5, <2>1 DEF AnswerInv, QueueInv
  <2>2. CASE shared_queue' = Queued(shared_queue, n)
    <3>1. shared_queue \in Seq(1 .. n) /\ n \in 1 .. n
      BY <1>2, <1>3, SeqWidens
    <3>2. /\ Queued(shared_queue, n) \in Seq(1 .. n)
          /\ \A i \in 1 .. Len(shared_queue') :
               \/ i <= Len(shared_queue) /\ shared_queue'[i] = shared_queue[i]
               \/ i = Len(shared_queue) + 1 /\ shared_queue'[i] = n
      BY <1>3, <2>2, <3>1, QueuedSeq
    <3>3. ASSUME NEW i \in 1 .. Len(shared_queue')
          PROVE  \/ i \in 1 .. Len(shared_queue) /\ shared_queue'[i] = shared_queue[i]
                 \/ i = Len(shared_queue) + 1 /\ shared_queue'[i] = n
      BY <1>3, <3>2
    <3>4. ASSUME NEW i \in 1 .. Len(shared_queue'), NEW j \in 1 .. Len(shared_queue'), i < j
          PROVE  shared_queue'[i] < shared_queue'[j]
      <4>1. i \in Nat /\ j \in Nat /\ i < j
        BY <1>3, <3>3, <3>4
      <4>2. i \in 1 .. Len(shared_queue) /\ shared_queue'[i] = shared_queue[i]
        BY <1>3, <3>3, <4>1
      <4>3. shared_queue[i] < n /\ shared_queue[i] \in Nat
        BY <1>2, <1>3, <4>2
      <4>4. CASE j \in 1 .. Len(shared_queue) /\ shared_queue'[j] = shared_queue[j]
        BY <4>1, <4>2, <4>4 DEF AnswerInv, QueueInv
      <4>5. CASE shared_queue'[j] = n
        BY <4>2, <4>3, <4>5
      <4> QED
        BY <3>3, <4>4, <4>5
    <3>5. ASSUME NEW i \in 1 .. Len(shared_queue')
          PROVE  targetMacAddress < shared_queue'[i] /\ routerMacAddress < shared_queue'[i]
      BY <1>2, <1>3, <1>4, <3>3 DEF AnswerInv, QueueInv
    <3> QED
      BY <1>5, <3>4, <3>5 DEF QueueInv
  <2> QED
    BY <1>2, <2>1, <2>2 DEF Arrive
<1>7. KnownInv' /\ AnswersDiffer'
  BY <1>5 DEF AnswerInv, KnownInv, AnswersDiffer
<1>8. AnswersAreReplies'
  BY <1>2, <1>4, <1>5 DEF AnswerInv, AnswersAreReplies
<1> QED
  BY <1>6, <1>7, <1>8 DEF AnswerInv

(* Learned addresses stay behind the head of the queue, case by action.    *)
LEMMA AnswerStep == IInv /\ [Next]_vars => AnswerInv'
<1> SUFFICES ASSUME IInv, [Next]_vars PROVE AnswerInv'
  OBVIOUS
<1> USE DEF IInv
<1>1. /\ shared_queue \in Seq(1 .. Len(arrived)) /\ Len(shared_queue) \in Nat
      /\ \A i \in 1 .. Len(shared_queue) : shared_queue[i] \in 1 .. Len(arrived)
      /\ Len(arrived) \in Nat
  BY LenProperties, ElementOfSeq DEF TypeOK
<1>0. targetMacAddress \in 0 .. Len(arrived) /\ routerMacAddress \in 0 .. Len(arrived)
  BY DEF TypeOK
<1>2. ASSUME UNCHANGED << shared_queue, targetMacAddress, routerMacAddress, arrived >>,
             \/ main' = main
             \/ main' = "exited"
             \/ main' \in {"send target", "send router"} /\ main \in {"send target", "send router"}
             \/ main' \in {"create", "ask target", "await target"}
                /\ main \in {"start", "create", "ask target"}
             \/ main' = "await router" /\ main = "ask router"
      PROVE  AnswerInv'
  BY <1>2 DEF AnswerInv, QueueInv, KnownInv, AnswersAreReplies, AnswersDiffer
(* What is left of the queue lies behind its head.                         *)
<1>3. ASSUME shared_queue # << >>, shared_queue' = Tail(shared_queue)
      PROVE  /\ Head(shared_queue) \in 1 .. Len(arrived)
             /\ targetMacAddress < Head(shared_queue) /\ routerMacAddress < Head(shared_queue)
             /\ \A i \in 1 .. Len(shared_queue') :
                  /\ i + 1 \in 1 .. Len(shared_queue)
                  /\ shared_queue'[i] = shared_queue[i + 1]
                  /\ Head(shared_queue) < shared_queue'[i]
  <2>1. /\ Head(shared_queue) = shared_queue[1] /\ Len(shared_queue) \in Nat \ {0}
        /\ Head(shared_queue) \in 1 .. Len(arrived)
        /\ Len(Tail(shared_queue)) = Len(shared_queue) - 1
        /\ \A i \in 1 .. Len(Tail(shared_queue)) : Tail(shared_queue)[i] = shared_queue[i + 1]
    BY <1>1, <1>3, TailSeq
  <2>2. 1 \in 1 .. Len(shared_queue)
    BY <2>1
  <2>3. ASSUME NEW i \in 1 .. Len(shared_queue')
        PROVE  /\ i + 1 \in 1 .. Len(shared_queue) /\ 1 < i + 1
               /\ shared_queue'[i] = shared_queue[i + 1]
    BY <1>3, <2>1
  <2> QED
    BY <2>1, <2>2, <2>3 DEF AnswerInv, QueueInv
<1>4. ASSUME shared_queue # << >>, shared_queue' = Tail(shared_queue),
             targetMacAddress' \in {targetMacAddress, Head(shared_queue)},
             routerMacAddress' \in {routerMacAddress, Head(shared_queue)}
      PROVE  QueueInv'
  <2>1. targetMacAddress \in Int /\ routerMacAddress \in Int
    BY <1>0, <1>1
  <2>2. ASSUME NEW i \in 1 .. Len(shared_queue')
        PROVE  /\ i + 1 \in 1 .. Len(shared_queue) /\ i \in Nat
               /\ shared_queue'[i] = shared_queue[i + 1]
               /\ Head(shared_queue) < shared_queue'[i]
               /\ shared_queue'[i] \in Nat
    BY <1>1, <1>3, <1>4
  <2>3. ASSUME NEW i \in 1 .. Len(shared_queue'), NEW j \in 1 .. Len(shared_queue'), i < j
        PROVE  shared_queue'[i] < shared_queue'[j]
    <3>1. i + 1 \in 1 .. Len(shared_queue) /\ j + 1 \in 1 .. Len(shared_queue) /\ i + 1 < j + 1
      BY <2>2, <2>3
    <3>2. shared_queue[i + 1] < shared_queue[j + 1]
      BY <3>1 DEF AnswerInv, QueueInv
    <3> QED
      BY <2>2, <3>2
  <2>4. ASSUME NEW i \in 1 .. Len(shared_queue')
        PROVE  targetMacAddress' < shared_queue'[i] /\ routerMacAddress' < shared_queue'[i]
    <3>1. Head(shared_queue) \in Int /\ targetMacAddress < Head(shared_queue)
          /\ routerMacAddress < Head(shared_queue)
      BY <1>1, <1>3, <1>4
    <3> QED
      BY <1>4, <2>1, <2>2, <3>1
  <2> QED
    BY <2>3, <2>4 DEF QueueInv
<1>5. ASSUME Head(shared_queue) \in 1 .. Len(arrived), IsReply(arrived[Head(shared_queue)])
      PROVE  arrived[Head(shared_queue)] = [ethertype |-> "arp", operation |-> "reply"]
  <2>1. arrived[Head(shared_queue)] \in Frame
    BY <1>5, ElementOfSeq DEF TypeOK
  <2> QED
    BY <1>5, <2>1 DEF IsReply, Frame
<1>6. ASSUME AwaitTarget PROVE AnswerInv'
  <2>1. /\ main = "await target" /\ shared_queue # << >>
        /\ shared_queue' = Tail(shared_queue)
        /\ UNCHANGED << routerMacAddress, arrived >>
        /\ \/ /\ main' = "ask router" /\ targetMacAddress' = Head(shared_queue)
              /\ IsReply(arrived[Head(shared_queue)])
           \/ UNCHANGED << main, targetMacAddress >>
    BY <1>6 DEF AwaitTarget
  <2>2. QueueInv'
    BY <1>4, <2>1
  <2>3. Head(shared_queue) \in 1 .. Len(arrived) /\ Head(shared_queue) # 0
    <3>1. Head(shared_queue) \in 1 .. Len(arrived)
      BY <1>3, <2>1
    <3> QED
      BY <1>1, <3>1
  <2>4. KnownInv' /\ AnswersDiffer'
    BY <2>1, <2>3 DEF AnswerInv, KnownInv, AnswersDiffer
  <2>5. AnswersAreReplies'
    BY <1>5, <2>1, <2>3 DEF AnswerInv, AnswersAreReplies
  <2> QED
    BY <2>2, <2>4, <2>5 DEF AnswerInv
<1>7. ASSUME AwaitRouter PROVE AnswerInv'
  <2>1. /\ main = "await router" /\ shared_queue # << >>
        /\ shared_queue' = Tail(shared_queue)
        /\ UNCHANGED << targetMacAddress, arrived >>
        /\ \/ /\ main' = "send target" /\ routerMacAddress' = Head(shared_queue)
              /\ IsReply(arrived[Head(shared_queue)])
           \/ UNCHANGED << main, routerMacAddress >>
    BY <1>7 DEF AwaitRouter
  <2>2. QueueInv'
    BY <1>4, <2>1
  <2>3. /\ Head(shared_queue) \in 1 .. Len(arrived)
        /\ targetMacAddress < Head(shared_queue)
    BY <1>3, <2>1
  <2>4. KnownInv'
    <3>1. Head(shared_queue) # 0
      BY <1>1, <2>3
    <3> QED
      BY <2>1, <3>1 DEF AnswerInv, KnownInv
  <2>5. AnswersDiffer'
    <3>1. targetMacAddress \in Nat /\ targetMacAddress # 0
      <4>1. targetMacAddress # 0
        BY <2>1 DEF AnswerInv, KnownInv
      <4> QED
        BY <1>0, <1>1, <4>1
    <3>2. Head(shared_queue) \in Nat
      BY <1>1, <2>3
    <3>3. CASE routerMacAddress' = Head(shared_queue)
      <4>1. targetMacAddress \in 1 .. Head(shared_queue) - 1
        BY <2>3, <3>1, <3>2
      <4> QED
        BY <2>1, <3>3, <4>1 DEF AnswersDiffer
    <3>4. CASE routerMacAddress' = routerMacAddress
      BY <2>1, <3>4 DEF AnswerInv, AnswersDiffer
    <3> QED
      BY <2>1, <3>3, <3>4
  <2>6. AnswersAreReplies'
    BY <1>5, <2>1, <2>3 DEF AnswerInv, AnswersAreReplies
  <2> QED
    BY <2>2, <2>4, <2>5, <2>6 DEF AnswerInv
<1>8. CASE InitSharedSocket \/ CreateThread \/ AskTarget \/ AskRouter \/ SendToTarget
           \/ SendToRouter \/ Fail
  BY <1>2, <1>8 DEF InitSharedSocket, CreateThread, AskTarget, AskRouter, SendToTarget,
     SendToRouter, Fail
<1>9. CASE OpenRaw \/ ArpSnifferLoop \/ ReceiveFails \/ UNCHANGED vars
  BY <1>2, <1>9 DEF OpenRaw, ArpSnifferLoop, ReceiveFails, main_vars, vars
<1> QED
  BY <1>6, <1>7, <1>8, <1>9, AnswerArrive DEF Next, MainStep

(* A package is sent to an address that main keeps from then on.           *)
LEMMA LoopStep == IInv /\ [Next]_vars => LoopInv'
<1> SUFFICES ASSUME IInv, [Next]_vars PROVE LoopInv'
  OBVIOUS
<1> USE DEF IInv
<1>1. ASSUME UNCHANGED << wire, targetMacAddress, routerMacAddress >>,
             \/ main' = main \/ main' = "exited"
             \/ main \in {"start", "create", "ask target", "await target", "ask router", "await router"}
      PROVE  LoopInv'
  BY <1>1 DEF LoopInv
<1>2. ASSUME NEW p \in Packages, NEW mac, sendArpPackage(p, mac),
             UNCHANGED << targetMacAddress, routerMacAddress >>,
             \/ p \in {"initialPackage", "routerInitialPackage"}
                /\ main \in {"ask target", "ask router"}
             \/ /\ main' \in {"send target", "send router"} /\ routerMacAddress # 0
                /\ \/ p = "maliciousPackage" /\ mac = targetMacAddress
                   \/ p = "maliciousRouterPackage" /\ mac = routerMacAddress
      PROVE  LoopInv'
  <2> DEFINE r == [package |-> p, order |-> Swap(order[p]), to |-> mac]
  <2>1. wire' = wire \union {r} /\ r.package = p /\ r.to = mac
    BY <1>2 DEF sendArpPackage
  <2> HIDE DEF r
  <2> QED
    BY <1>2, <2>1 DEF LoopInv
<1>3. CASE AskTarget \/ AskRouter
  BY <1>2, <1>3 DEF AskTarget, AskRouter, Packages
<1>4. CASE SendToTarget \/ SendToRouter
  BY <1>2, <1>4 DEF SendToTarget, SendToRouter, Packages, AnswerInv, KnownInv
<1>5. CASE AwaitTarget \/ AwaitRouter
  <2>1. main \in {"await target", "await router"} /\ UNCHANGED wire
    BY <1>5 DEF AwaitTarget, AwaitRouter
  <2>2. \A s \in wire : s.package \notin {"maliciousPackage", "maliciousRouterPackage"}
    BY <2>1 DEF LoopInv
  <2> QED
    BY <2>1, <2>2 DEF LoopInv
<1>6. CASE \/ InitSharedSocket \/ CreateThread \/ Fail \/ OpenRaw \/ ArpSnifferLoop
           \/ ReceiveFails \/ (\E f \in Traffic : Arrive(f)) \/ UNCHANGED vars
  BY <1>1, <1>6 DEF InitSharedSocket, CreateThread, Fail, OpenRaw, ArpSnifferLoop,
     ReceiveFails, Arrive, vars, main_vars
<1> QED
  BY <1>3, <1>4, <1>5, <1>6 DEF Next, MainStep

(* IInv holds in every state.                                              *)
THEOREM Invariance == Spec => []IInv
<1>1. IInv /\ [Next]_vars => IInv'
  BY TypeStep, OrderStep, ThreadStep, AnswerStep, LoopStep DEF IInv
<1> QED
  BY InitIInv, <1>1, PTL DEF Spec

(* The variables keep their types; the background thread is in its loop    *)
(* exactly while its socket is open, and one that a failed initialisation  *)
(* left open is behind a thread that has ended.                            *)
THEOREM TypeCorrect == Spec => []TypeOK
<1>1. IInv => TypeOK
  BY DEF IInv
<1> QED
  BY Invariance, <1>1, PTL

(* However often main goes round its endless loop, what it sends is in     *)
(* network order.                                                          *)
THEOREM SendsInNetworkOrder == Spec => []WireInNetworkOrder
<1>1. IInv => WireInNetworkOrder
  BY DEF IInv, OrderInv
<1> QED
  BY Invariance, <1>1, PTL

(* Every round of the endless loop sends to the senders of two ARP         *)
(* replies, the target's before the router's.                              *)
THEOREM LoopReachesAnswers == Spec => []LoopSendsToAnswers
<1>1. IInv => LoopSendsToAnswers
  <2> SUFFICES ASSUME IInv, NEW s \in wire, NEW t \in wire,
                      s.package = "maliciousPackage", t.package = "maliciousRouterPackage"
               PROVE  /\ \A n \in {s.to, t.to} :
                           /\ n \in 1 .. Len(arrived)
                           /\ arrived[n] = [ethertype |-> "arp", operation |-> "reply"]
                      /\ s.to < t.to
    BY DEF LoopSendsToAnswers
  <2>1. s.to = targetMacAddress /\ t.to = routerMacAddress /\ routerMacAddress # 0
    BY DEF IInv, LoopInv
  <2>2. /\ targetMacAddress \in 1 .. routerMacAddress - 1
        /\ routerMacAddress \in 0 .. Len(arrived)
        /\ Len(arrived) \in Nat
    BY <2>1, LenProperties DEF IInv, AnswerInv, AnswersDiffer, TypeOK
  <2>3. /\ targetMacAddress \in 1 .. Len(arrived) /\ routerMacAddress \in 1 .. Len(arrived)
        /\ targetMacAddress < routerMacAddress /\ targetMacAddress # 0
    BY <2>1, <2>2
  <2> QED
    BY <2>1, <2>3 DEF IInv, AnswerInv, AnswersAreReplies
<1> QED
  BY Invariance, <1>1, PTL

(* The router's answer came after the target's: it is another frame.       *)
THEOREM LearnsFromTwoReplies == Spec => []AnswersDiffer
<1>1. IInv => AnswersDiffer
  BY DEF IInv, AnswerInv
<1> QED
  BY Invariance, <1>1, PTL
==============================================================================
