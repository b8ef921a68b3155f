-------------------------------- MODULE ArpTool ------------------------------
(***************************************************************************)
(* The ARP tool of the first assignment (T1/Old).  The main thread asks    *)
(* for the hardware address of a target and then of the router, on a raw   *)
(* socket that sees every frame of the interface, and then sends a package *)
(* to each of them in turn, forever.  A background thread with a raw       *)
(* socket of its own is to print the ARP packages it sees.                 *)
(*                                                                         *)
(* The frames that arrive are numbered; a frame's number stands for the    *)
(* sender's hardware address in it, and 0 for a frame of this program.     *)
(***************************************************************************)
EXTENDS Integers, Sequences

CONSTANTS
  Traffic,     \* the frames that may arrive: [ethertype, operation]
  MaxFrames,   \* bound: frames that arrive
  QueueCap     \* frames the kernel keeps for a socket

(* The Ethernet types the code can tell apart: that of ARP, the same two   *)
(* bytes swapped, and any other.                                           *)
Frame == [ethertype : {"arp", "swapped", "other"}, operation : {"request", "reply", "none"}]

ASSUME ArpAssumption ==
  /\ Traffic \subseteq Frame
  /\ MaxFrames \in Nat
  /\ QueueCap \in Nat \ {0}

Packages == { "initialPackage", "routerInitialPackage",
              "maliciousPackage", "maliciousRouterPackage" }

VARIABLES
  main,           \* where the main thread is
  thread,         \* where the background thread is
  shared_queue,   \* frames that wait on sharedSocket
  raw,            \* the background thread's socket: "none", "open" or "leaked"
  raw_queue,      \* frames that wait on it
  order,          \* byte order of each package's fields
  targetMacAddress, routerMacAddress,
  arrived,        \* history: the frames that arrived
  wire,           \* history: what was sent, in which order, to whom
  taken,          \* history: frames the background thread received
  printed         \* history: those it printed

main_vars == << main, shared_queue, order, targetMacAddress, routerMacAddress, wire >>
thread_vars == << thread, raw, taken, printed >>
vars == << main_vars, thread_vars, raw_queue, arrived >>

Init ==
  /\ main = "start"
  /\ thread = "none"
  /\ shared_queue = << >>
  /\ raw = "none"
  /\ raw_queue = << >>
  /\ order = [p \in Packages |-> "host"]
  /\ targetMacAddress = 0
  /\ routerMacAddress = 0
  /\ arrived = << >>
  /\ wire = {}
  /\ taken = {}
  /\ printed = {}

-----------------------------------------------------------------------------
(* The network                                                             *)

Queued(queue, n) == IF Len(queue) < QueueCap THEN Append(queue, n) ELSE queue

(* A raw socket sees every frame from the moment it exists.                *)
Arrive(f) ==
  /\ Len(arrived) < MaxFrames
  /\ arrived' = Append(arrived, f)
  /\ shared_queue' = IF main \in {"start", "exited"} THEN shared_queue
                     ELSE Queued(shared_queue, Len(arrived'))
  /\ raw_queue' = IF raw # "none" THEN Queued(raw_queue, Len(arrived')) ELSE raw_queue
  /\ UNCHANGED << main, order, targetMacAddress, routerMacAddress, wire, thread_vars >>

-----------------------------------------------------------------------------
(* main                                                                    *)

(* initSharedSocketWithInterfaceName: on success the socket is open.       *)
InitSharedSocket ==
  /\ main = "start"
  /\ main' = "create"
  /\ UNCHANGED << shared_queue, order, targetMacAddress, routerMacAddress, wire,
                  thread_vars, raw_queue, arrived >>

(* initArpSnifferWithInterfaceName.                                        *)
CreateThread ==
  /\ main = "create"
  /\ main' = "ask target"
  /\ thread' = "open"
  /\ UNCHANGED << shared_queue, order, targetMacAddress, routerMacAddress, wire,
                  raw, taken, printed, raw_queue, arrived >>

(* htonArpPackage and ntohArpPackage swap the bytes of three fields.       *)
Swap(o) == IF o = "host" THEN "network" ELSE "host"

(* Slip: the package is not converted back.                                *)
sendArpPackage_NoUndo(p, mac) ==
  /\ wire' = wire \union {[package |-> p, order |-> Swap(order[p]), to |-> mac]}
  /\ order' = [order EXCEPT ![p] = Swap(@)]
  /\ raw_queue' = IF raw # "none" THEN Queued(raw_queue, 0) ELSE raw_queue

(* sendArpPackage: convert the package in place, send it, convert it back. *)
(* The other raw socket sees what is sent.                                 *)
sendArpPackage(p, mac) ==
  /\ wire' = wire \union {[package |-> p, order |-> Swap(order[p]), to |-> mac]}
  /\ order' = [order EXCEPT ![p] = Swap(Swap(@))]
  /\ raw_queue' = IF raw # "none" THEN Queued(raw_queue, 0) ELSE raw_queue

(* Slip: the Ethernet type is compared in network order.                   *)
IsReply_NoConversion(f) == f.ethertype = "swapped" /\ f.operation = "reply"

(* receiveArpPackage: the frame it waits for.                              *)
IsReply(f) == f.ethertype = "arp" /\ f.operation = "reply"

AskTarget ==
  /\ main = "ask target"
  /\ sendArpPackage("initialPackage", 0)
  /\ main' = "await target"
  /\ UNCHANGED << shared_queue, targetMacAddress, routerMacAddress, thread_vars, arrived >>

(* Slip: the answer is looked at but stays in the queue.                   *)
AwaitTarget_Peeks ==
  /\ main = "await target"
  /\ shared_queue # << >>
  /\ IF IsReply(arrived[Head(shared_queue)])
     THEN /\ main' = "ask router" /\ targetMacAddress' = Head(shared_queue)
          /\ UNCHANGED shared_queue
     ELSE UNCHANGED << main, targetMacAddress >> /\ shared_queue' = Tail(shared_queue)
  /\ UNCHANGED << order, routerMacAddress, wire, thread_vars, raw_queue, arrived >>

(* Frames that are not replies are dropped.                                *)
AwaitTarget ==
  /\ main = "await target"
  /\ shared_queue # << >>
  /\ shared_queue' = Tail(shared_queue)
  /\ IF IsReply(arrived[Head(shared_queue)])
     THEN main' = "ask router" /\ targetMacAddress' = Head(shared_queue)
     ELSE UNCHANGED << main, targetMacAddress >>
  /\ UNCHANGED << order, routerMacAddress, wire, thread_vars, raw_queue, arrived >>

AskRouter ==
  /\ main = "ask router"
  /\ sendArpPackage("routerInitialPackage", 0)
  /\ main' = "await router"
  /\ UNCHANGED << shared_queue, targetMacAddress, routerMacAddress, thread_vars, arrived >>

AwaitRouter ==
  /\ main = "await router"
  /\ shared_queue # << >>
  /\ shared_queue' = Tail(shared_queue)
  /\ IF IsReply(arrived[Head(shared_queue)])
     THEN main' = "send target" /\ routerMacAddress' = Head(shared_queue)
     ELSE UNCHANGED << main, routerMacAddress >>
  /\ UNCHANGED << order, targetMacAddress, wire, thread_vars, raw_queue, arrived >>

(* The endless loop: a package to the target, one to the router, a pause.  *)
SendToTarget ==
  /\ main = "send target"
  /\ sendArpPackage("maliciousPackage", targetMacAddress)
  /\ main' = "send router"
  /\ UNCHANGED << shared_queue, targetMacAddress, routerMacAddress, thread_vars, arrived >>

(* Slip: the router's package goes to the target as well.                  *)
SendToRouter_Target ==
  /\ main = "send router"
  /\ sendArpPackage("maliciousRouterPackage", targetMacAddress)
  /\ main' = "send target"
  /\ UNCHANGED << shared_queue, targetMacAddress, routerMacAddress, thread_vars, arrived >>

SendToRouter ==
  /\ main = "send router"
  /\ sendArpPackage("maliciousRouterPackage", routerMacAddress)
  /\ main' = "send target"
  /\ UNCHANGED << shared_queue, targetMacAddress, routerMacAddress, thread_vars, arrived >>

(* Every call of the main thread may fail, and then the process exits (the *)
(* package of a failing send is not converted back, and nobody uses it).   *)
Fail ==
  /\ main # "exited"
  /\ main' = "exited"
  /\ thread' = "exited"
  /\ raw' = "none"
  /\ UNCHANGED << shared_queue, order, targetMacAddress, routerMacAddress, wire,
                  taken, printed, raw_queue, arrived >>

-----------------------------------------------------------------------------
(* The background thread                                                   *)

(* initSocketWithInterfaceName: a call that fails after the socket was     *)
(* made returns without closing it.                                        *)
OpenRaw ==
  /\ thread = "open"
  /\ \/ thread' = "recv" /\ raw' = "open"
     \/ thread' = "ended" /\ raw' \in {"none", "leaked"}
  /\ UNCHANGED << main_vars, raw_queue, taken, printed, arrived >>

(* The Ethernet type of frame n as it is in memory; 0 is a frame that this *)
(* program sent, which sendArpPackage puts in network order.               *)
EthertypeOf(n) == IF n = 0 THEN "arp" ELSE arrived[n].ethertype

(* One round of arpSnifferLoop.  The Ethernet type is compared as it came: *)
(* the value of ARP_ETHERTYPE is found where the bytes are swapped.        *)
ArpSnifferLoop ==
  /\ thread = "recv"
  /\ raw_queue # << >>
  /\ raw_queue' = Tail(raw_queue)
  /\ taken' = taken \union {Head(raw_queue)}
  /\ printed' = IF EthertypeOf(Head(raw_queue)) = "swapped"
                THEN printed \union {Head(raw_queue)} ELSE printed
  /\ UNCHANGED << main_vars, thread, raw, arrived >>

(* Slip: the socket of a receive that failed stays open.                   *)
ReceiveFails_KeepsSocket ==
  /\ thread = "recv"
  /\ thread' = "ended"
  /\ UNCHANGED << main_vars, raw, raw_queue, taken, printed, arrived >>

(* A receive that fails ends the thread; what waited on the socket goes.   *)
ReceiveFails ==
  /\ thread = "recv"
  /\ thread' = "ended"
  /\ raw' = "none"
  /\ raw_queue' = << >>
  /\ UNCHANGED << main_vars, taken, printed, arrived >>

-----------------------------------------------------------------------------
(* Every step of main except a failing one.                                *)
MainStep ==
  \/ InitSharedSocket
  \/ CreateThread
  \/ AskTarget
  \/ AwaitTarget
  \/ AskRouter
  \/ AwaitRouter
  \/ SendToTarget
  \/ SendToRouter

Next ==
  \/ MainStep
  \/ Fail
  \/ OpenRaw
  \/ ArpSnifferLoop
  \/ ReceiveFails
  \/ \E f \in Traffic : Arrive(f)

Spec == Init /\ [][Next]_vars

(* A runnable main thread runs.                                            *)
FairSpec == Spec /\ WF_vars(MainStep)

-----------------------------------------------------------------------------
(* The types; and the background thread is in its receive loop exactly     *)
(* while it has an open socket to receive on.  A socket that stays open    *)
(* without it is one that initSocketWithInterfaceName left behind when it  *)
(* failed ("leaked"), and the thread has then ended without its loop.      *)
TypeOK ==
  /\ main \in {"start", "create", "ask target", "await target", "ask router",
              "await router", "send target", "send router", "exited"}
  /\ thread \in {"none", "open", "recv", "ended", "exited"}
  /\ raw \in {"none", "open", "leaked"}
  /\ raw = "open" <=> thread = "recv"
  /\ raw = "leaked" => thread = "ended"
  /\ arrived \in Seq(Frame) /\ Len(arrived) <= MaxFrames
  /\ shared_queue \in Seq(1 .. Len(arrived)) /\ Len(shared_queue) <= QueueCap
  /\ raw_queue \in Seq(0 .. Len(arrived)) /\ Len(raw_queue) <= QueueCap
  /\ order \in [Packages -> {"host", "network"}]
  /\ {targetMacAddress, routerMacAddress} \subseteq 0 .. Len(arrived)
  /\ wire \subseteq [package : Packages, order : {"host", "network"}, to : 0 .. Len(arrived)]
  /\ printed \subseteq taken

(* The two packages of the endless loop are sent over and over from the    *)
(* same two structures: whatever the number of rounds, their fields are in *)
(* network order on the wire.                                              *)
WireInNetworkOrder == \A s \in wire : s.order = "network"

(* One reply is never taken for the answer to both questions.              *)
AnswersDiffer ==
  routerMacAddress # 0 => targetMacAddress \in 1 .. routerMacAddress - 1

(* In every round of the endless loop, whatever frames have arrived since, *)
(* the first package goes to the sender of an ARP reply and the second to  *)
(* that of a later one: the frames main saw between its questions and the  *)
(* addresses it keeps for ever after are never mixed up.                   *)
LoopSendsToAnswers ==
  \A s, t \in wire :
    s.package = "maliciousPackage" /\ t.package = "maliciousRouterPackage"
    => /\ \A n \in {s.to, t.to} :
            n \in 1 .. Len(arrived) /\ arrived[n] = [ethertype |-> "arp", operation |-> "reply"]
       /\ s.to < t.to

(* A reply that waits on the socket ends main's wait (or the program       *)
(* fails), however many other frames are in front of it.                   *)
Answered(place) ==
  /\ main = place
  /\ \E i \in 1 .. Len(shared_queue) :
       arrived[shared_queue[i]] = [ethertype |-> "arp", operation |-> "reply"]
AnswerEndsWait ==
  \A place \in {"await target", "await router"} : Answered(place) ~> main # place

(* Arp.h 40-41: the background thread prints "all fields of incoming ARP   *)
(* Messages".  The code prints the frames whose type is swapped instead.   *)
ArpIsPrinted == \A n \in taken : EthertypeOf(n) = "arp" => n \in printed
==============================================================================
