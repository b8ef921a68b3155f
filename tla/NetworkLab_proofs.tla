-------------------------- MODULE NetworkLab_proofs --------------------------
(***************************************************************************)
(* The whole program: each of its parts goes on behaving as its own module *)
(* says, so what was proved of the parts holds of the program; and what    *)
(* only the parts together guarantee: the latest request is in the file,   *)
(* and the file holds nothing but what the parser announced.               *)
(***************************************************************************)
EXTENDS NetworkLab, FrameSniffer_proofs

HandoffT == INSTANCE UrlHandoff_proofs

-----------------------------------------------------------------------------
(* The parts in the program                                                *)

(* The DHCP thread is created late, but takes no other steps than its own, *)
(* for any traffic on the capture device.                                  *)
THEOREM LabImplementsDhcp == LabSpec => Dhcp!Spec
  <1>1. LabInit => Dhcp!Init
    BY DEF LabInit
  <1>2. [LabNext]_lab_vars => [Dhcp!Next]_(Dhcp!vars)
    <2> SUFFICES ASSUME [LabNext]_lab_vars
                 PROVE  Dhcp!Next \/ UNCHANGED dhcp_vars
      BY DEF Dhcp!vars, dhcp_vars
    <2>1. CASE MainThread
      BY <2>1, Zenon DEF MainThread, InitDevice, CreateDhcpThread, MainLocks, CreateUrlThread,
         WaitFrame, InspectFrame, AppendUrl
    <2>2. CASE UrlThread
      BY <2>2, Zenon DEF UrlThread
    <2>3. CASE DhcpThread
      BY <2>3, Zenon DEF DhcpThread, Dhcp!Next
    <2>4. CASE Exit
      BY <2>4, Zenon DEF Exit, Dhcp!Next
    <2>5. CASE Environment
      BY <2>5, Zenon DEF Environment, Dhcp!Next
    <2>6. CASE UNCHANGED lab_vars
      BY <2>6 DEF lab_vars
    <2>. QED  BY <2>1, <2>2, <2>3, <2>4, <2>5, <2>6 DEF LabNext
  <1>. QED  BY <1>1, <1>2, PTL DEF LabSpec, Dhcp!Spec

(* What appending a URL and the other threads leave of the capture loop.   *)
LEMMA SnifferRests ==
  ASSUME \/ CreateDhcpThread \/ MainLocks \/ CreateUrlThread \/ AppendUrl
         \/ UrlThread \/ DhcpThread \/ Exit
  PROVE  UNCHANGED << frame_vars, lst_ip >>
  <1>1. CASE CreateDhcpThread \/ MainLocks \/ CreateUrlThread
    BY <1>1 DEF CreateDhcpThread, MainLocks, CreateUrlThread, Handoff!MainLocks,
       Handoff!CreateUrlThread, Handoff!sniff_vars
  <1>2. CASE AppendUrl
    BY <1>2 DEF AppendUrl, Handoff!CopyHead, Handoff!CopyTail, Handoff!Unlock,
       Handoff!PrintUrl, Handoff!sniff_vars
  <1>3. CASE UrlThread
    BY <1>3 DEF UrlThread, Handoff!UrlStep, Handoff!OpenFile, Handoff!Lock,
       Handoff!FormatAddress, Handoff!ReadPart, Handoff!Flush, Handoff!main_vars,
       Handoff!sniff_vars
  <1>4. CASE DhcpThread \/ Exit
    BY <1>4 DEF DhcpThread, Exit, Handoff!Exit, Handoff!sniff_vars
  <1>. QED  BY <1>1, <1>2, <1>3, <1>4

(* The capture loop takes no other steps than its own, although it stands  *)
(* still while a URL is appended and ends with the process.                *)
THEOREM LabImplementsSniffer == LabSpec => Spec
  <1>1. LabInit => Init
    BY DEF LabInit
  <1>2. [LabNext]_lab_vars => [Next]_vars
    <2> SUFFICES ASSUME [LabNext]_lab_vars
                 PROVE  Next \/ UNCHANGED << frame_vars, lst_ip >>
      BY DEF vars, frame_vars
    <2>1. CASE InitDevice \/ WaitFrame \/ InspectFrame
      BY <2>1, Zenon DEF InitDevice, WaitFrame, InspectFrame, Next, Sniff
    <2>2. CASE Environment
      BY <2>2, Zenon DEF Environment, Next
    <2>3. CASE UNCHANGED lab_vars
      BY <2>3 DEF lab_vars
    <2>. QED  BY <2>1, <2>2, <2>3, SnifferRests DEF LabNext, MainThread
  <1>. QED  BY <1>1, <1>2, PTL DEF LabSpec, Spec

(* What an inspection adds to the log, and when it is saved.               *)
LEMMA InspectLogs ==
  ASSUME IInv, InspectFrame
  PROVE  \/ log' = log /\ main' = "capture"
         \/ \E e : /\ log' = Append(log, e) /\ e.of = frame.of /\ frame.of > 0
                   /\ main' = IF e.saved THEN "head" ELSE "capture"
                   /\ e.saved => frame.kind # "other"
  <1>1. \/ log' = log
        \/ \E url_, b : /\ Inspected(url_, b)
                        /\ b => frame.kind # "other"
    <2>1. CASE InspectHttp
      BY <2>1 DEF InspectHttp
    <2>2. CASE InspectDns
      BY <2>2 DEF InspectDns
    <2>3. CASE InspectOther
      BY <2>3, Zenon DEF InspectOther
    <2>. QED  BY <2>1, <2>2, <2>3 DEF InspectFrame, Inspect
  <1>2. CASE log' = log
    BY <1>2 DEF InspectFrame, Saves
  <1>3. ASSUME NEW url_, NEW b, Inspected(url_, b), b => frame.kind # "other", log' # log
        PROVE  \E e : /\ log' = Append(log, e) /\ e.of = frame.of /\ frame.of > 0
                      /\ main' = IF e.saved THEN "head" ELSE "capture"
                      /\ e.saved => frame.kind # "other"
    <2> DEFINE e == [of |-> frame.of, after |-> frame.after, url |-> url_, saved |-> b]
    <2>1. frame.of # 0 /\ log' = Append(log, e)
      BY <1>3 DEF Inspected
    <2>2. e.of = frame.of /\ e.saved = b
      OBVIOUS
    <2>3. frame.of > 0
      BY <2>1 DEF IInv, BufferInv, KernelInv
    <2>. HIDE DEF e
    <2>4. Len(log') = Len(log) + 1 /\ log'[Len(log) + 1] = e
      <3>1. DOMAIN Append(log, e) = 1 .. Len(log) + 1 /\ Append(log, e)[Len(log) + 1] = e
            /\ Len(log) \in Nat /\ IsSeq(Append(log, e))
        BY AppendToSeq DEF IInv, LogInv
      <3>2. PICK S : Append(log, e) \in Seq(S)
        BY <3>1 DEF IsSeq
      <3>3. Len(Append(log, e)) = Len(log) + 1
        BY <3>1, <3>2
      <3>. QED  BY <2>1, <3>1, <3>3
    <2>5. main' = IF e.saved THEN "head" ELSE "capture"
      BY <1>3, <2>4, Zenon DEF InspectFrame, Saves
    <2>. QED  BY <1>3, <2>1, <2>2, <2>3, <2>5
  <1>. QED  BY <1>1, <1>2, <1>3

(* To the url thread an inspection is a capture, or nothing.               *)
LEMMA InspectCaptures ==
  ASSUME IInv, InspectFrame
  PROVE  Handoff!Capture \/ UNCHANGED << lst_ip, hand_vars >>
  <1>1. /\ pc = "inspect" /\ main = "capture" /\ main' \in {"capture", "head"}
        /\ UNCHANGED << url, mutex, cell, line, lines, rest, posted, announced, woken >>
    BY DEF InspectFrame, Inspect, InspectHttp, InspectDns, InspectOther
  <1>2. CASE frame.kind = "other"
    <2>1. main' = "capture"
      BY <1>2, InspectLogs
    <2>2. lst_ip' = lst_ip
      BY <1>2 DEF InspectFrame, Inspect, InspectHttp, InspectDns, InspectOther
    <2>. QED  BY <1>1, <2>1, <2>2 DEF hand_vars
  <1>3. CASE frame.kind # "other"
    <2>1. lst_ip' = frame.of
      BY <1>3 DEF InspectFrame, Inspect, InspectHttp, InspectDns, InspectOther, IInv, BufferInv, Kinds
    <2>2. /\ frame.of \in 1 .. Len(sent) /\ Len(sent) \in Nat /\ Len(sent) <= MaxFrames
          /\ lst_ip < frame.of /\ lst_ip \in 0 .. Len(sent)
      BY <1>1, <1>3 DEF IInv, KernelInv, BufferInv, SourceInv
    <2>3. lst_ip' \in lst_ip + 1 .. MaxFrames
      BY <2>1, <2>2, SnifferAssumption
    <2>. QED
      BY <1>1, <2>3 DEF Handoff!Capture, Handoff!url_vars, Handoff!file_vars
  <1>. QED  BY <1>2, <1>3

(* The hand-over keeps its protocol: the number of the frame the sniffer   *)
(* is at only grows, although reads fail and bring several packets, so     *)
(* every step of the program is one of UrlHandoff or leaves it as it was.  *)
THEOREM LabImplementsHandoff == LabSpec => ImplementsHandoff
  <1>1. LabInit => Handoff!Init
    BY DEF LabInit
  <1>2. IInv /\ [LabNext]_lab_vars => [Handoff!Next]_(Handoff!vars)
    <2> SUFFICES ASSUME IInv, [LabNext]_lab_vars
                 PROVE  Handoff!Next \/ UNCHANGED << lst_ip, hand_vars >>
      BY DEF Handoff!vars, hand_vars
    <2> USE DEF Handoff!Next, Handoff!MainStep
    <2>1. CASE InitDevice
      BY <2>1 DEF InitDevice, eth_init
    <2>2. CASE WaitFrame
      BY <2>2 DEF WaitFrame, wait_eth_frame, ReadPackets, ReadFails, ReadNothing, ReadUnsized
    <2>3. CASE CreateDhcpThread \/ DhcpThread
      BY <2>3, Zenon DEF CreateDhcpThread, DhcpThread
    <2>4. CASE MainLocks \/ CreateUrlThread \/ AppendUrl \/ UrlThread \/ Exit
      BY <2>4, Zenon DEF MainLocks, CreateUrlThread, AppendUrl, UrlThread, Exit
    <2>5. CASE InspectFrame
      BY <2>5, InspectCaptures
    <2>6. CASE Environment
      BY <2>6 DEF Environment, Arrive
    <2>7. CASE UNCHANGED lab_vars
      BY <2>7 DEF lab_vars
    <2>. QED  BY <2>1, <2>2, <2>3, <2>4, <2>5, <2>6, <2>7 DEF LabNext, MainThread
  <1>. QED
    BY LabImplementsSniffer, SnifferInvariance, <1>1, <1>2, PTL
    DEF LabSpec, ImplementsHandoff, Handoff!Spec

-----------------------------------------------------------------------------
(* The latest request                                                      *)

(* What was proved of the hand-over holds of the program.                  *)
LEMMA HandoffCarries == LabSpec => []HandoffT!IInv /\ []HandoffT!LastUrlSaved
  <1>1. HandoffT!Spec => []HandoffT!IInv /\ []HandoffT!LastUrlSaved
    BY HandoffT!Invariance, HandoffT!UrlLastSaved, SnifferAssumption
  <1> USE DEF Handoff!vars, HandoffT!vars, Handoff!sniff_vars, HandoffT!sniff_vars,
      Handoff!main_vars, HandoffT!main_vars, Handoff!file_vars, HandoffT!file_vars,
      Handoff!url_vars, HandoffT!url_vars
  <1>2. Handoff!Init => HandoffT!Init
    BY DEF Handoff!Init, HandoffT!Init
  <1>3. [Handoff!Next]_(Handoff!vars) => [HandoffT!Next]_(HandoffT!vars)
    <2> SUFFICES ASSUME [Handoff!Next]_(Handoff!vars)
                 PROVE  [HandoffT!Next]_(HandoffT!vars)
      OBVIOUS
    <2> USE DEF HandoffT!Next, HandoffT!MainStep, HandoffT!UrlStep
    <2>1. CASE Handoff!MainStep
      BY <2>1 DEF Handoff!MainStep, Handoff!MainLocks, Handoff!CreateUrlThread, Handoff!CopyHead,
         Handoff!CopyTail, Handoff!Unlock, Handoff!PrintUrl, HandoffT!MainLocks,
         HandoffT!CreateUrlThread, HandoffT!CopyHead, HandoffT!CopyTail, HandoffT!Unlock,
         HandoffT!PrintUrl
    <2>2. CASE Handoff!Capture
      BY <2>2 DEF Handoff!Capture, HandoffT!Capture
    <2>3. CASE Handoff!UrlStep
      BY <2>3, Zenon DEF Handoff!UrlStep, Handoff!OpenFile, Handoff!Lock, Handoff!FormatAddress,
         Handoff!ReadPart, Handoff!Flush, HandoffT!OpenFile, HandoffT!Lock,
         HandoffT!FormatAddress, HandoffT!ReadPart, HandoffT!Flush, Handoff!Parts, HandoffT!Parts
    <2>4. CASE Handoff!Exit
      BY <2>4, Zenon DEF Handoff!Exit, HandoffT!Exit
    <2>. QED  BY <2>1, <2>2, <2>3, <2>4 DEF Handoff!Next
  <1>. QED
    BY LabImplementsHandoff, <1>1, <1>2, <1>3, PTL
    DEF ImplementsHandoff, Handoff!Spec, HandoffT!Spec

(* The URL last posted is the last one saved, or it is being appended.     *)
LatestInv ==
  /\ main \in {"boot", "create", "capture", "print"} =>
       \A i \in Saved : (\A j \in Saved : j <= i) => log[i].of = posted
  /\ main \in {"head", "tail", "unlock"} =>
       Len(log) \in Saved /\ log[Len(log)].of = lst_ip

(* An inspection saves a URL and starts to append it, or saves nothing.    *)
LEMMA InspectLatest ==
  ASSUME IInv, LatestInv, InspectFrame
  PROVE  LatestInv'
  <1>1. main = "capture" /\ posted' = posted
    BY DEF InspectFrame
  <1>2. CASE log' = log /\ main' = "capture"
    BY <1>1, <1>2 DEF LatestInv, Saved
  <1>3. ASSUME NEW e, log' = Append(log, e), e.of = frame.of, frame.of > 0,
               main' = IF e.saved THEN "head" ELSE "capture",
               e.saved => frame.kind # "other"
        PROVE  LatestInv'
    <2>1. /\ Len(log) \in Nat /\ DOMAIN log = 1 .. Len(log)
          /\ DOMAIN log' = 1 .. Len(log) + 1 /\ log'[Len(log) + 1] = e
          /\ \A i \in DOMAIN log : log'[i] = log[i]
      BY <1>3, AppendToSeq DEF IInv, LogInv
    <2>2. CASE e.saved
      <3>1. lst_ip' = e.of
        BY <1>3, <2>2 DEF InspectFrame, Inspect, InspectHttp, InspectDns, InspectOther, IInv,
           BufferInv, Kinds
      <3>2. Len(log') = Len(log) + 1
        <4>1. IsSeq(log')
          BY <1>3, AppendToSeq DEF IInv, LogInv
        <4>2. PICK S : log' \in Seq(S)
          BY <4>1 DEF IsSeq
        <4>. QED  BY <2>1, <4>2
      <3>3. Len(log') \in Saved'
        BY <2>1, <2>2, <3>2 DEF Saved
      <3>. QED  BY <1>3, <2>1, <2>2, <3>1, <3>2, <3>3 DEF LatestInv
    <2>3. CASE ~e.saved
      <3>1. Saved' = Saved
        BY <2>1, <2>3 DEF Saved
      <3>2. \A i \in Saved : log'[i] = log[i]
        BY <2>1 DEF Saved
      <3>. QED  BY <1>1, <1>3, <2>3, <3>1, <3>2 DEF LatestInv
    <2>. QED  BY <2>2, <2>3
  <1>. QED  BY <1>2, <1>3, InspectLogs

(* Appending a URL posts it.                                               *)
LEMMA AppendLatest ==
  ASSUME IInv, LatestInv, AppendUrl
  PROVE  LatestInv'
  <1>1. UNCHANGED << log, lst_ip >>
    BY SnifferRests DEF frame_vars
  <1> USE DEF Handoff!sniff_vars
  <1>2. CASE Handoff!CopyHead \/ Handoff!CopyTail
    <2>1. main \in {"head", "tail"} /\ main' \in {"tail", "unlock"}
      BY <1>2 DEF Handoff!CopyHead, Handoff!CopyTail
    <2>. QED  BY <1>1, <2>1 DEF LatestInv, Saved
  <1>3. CASE Handoff!Unlock
    <2>1. main = "unlock" /\ main' = "print" /\ posted' = lst_ip
      BY <1>3 DEF Handoff!Unlock
    <2>2. Len(log) \in Saved /\ log[Len(log)].of = lst_ip
      BY <2>1 DEF LatestInv
    <2>3. Len(log) \in Nat /\ DOMAIN log = 1 .. Len(log)
      BY AppendToSeq DEF IInv, LogInv
    <2>4. ASSUME NEW i \in Saved, \A j \in Saved : j <= i
          PROVE  i = Len(log)
      BY <2>2, <2>3, <2>4 DEF Saved
    <2>. QED  BY <1>1, <2>1, <2>2, <2>4 DEF LatestInv, Saved
  <1>4. CASE Handoff!PrintUrl
    <2>1. main = "print" /\ main' = "capture" /\ posted' = posted
      BY <1>4 DEF Handoff!PrintUrl
    <2>. QED  BY <1>1, <2>1 DEF LatestInv, Saved
  <1>. QED  BY <1>2, <1>3, <1>4 DEF AppendUrl

(* No other step touches the log, or the URL that is being appended.       *)
LEMMA LatestStep ==
  ASSUME IInv, LatestInv, [LabNext]_lab_vars
  PROVE  LatestInv'
  <1>1. CASE InitDevice \/ WaitFrame \/ Environment
    <2>1. UNCHANGED << log, main, posted, lst_ip >>
      <3> USE DEF hand_vars, frame_vars
      <3>1. CASE InitDevice
        BY <3>1 DEF InitDevice, eth_init
      <3>2. CASE WaitFrame
        BY <3>2 DEF WaitFrame, wait_eth_frame, ReadPackets, ReadFails, ReadNothing, ReadUnsized
      <3>3. CASE Environment
        BY <3>3 DEF Environment, Arrive
      <3>. QED  BY <1>1, <3>1, <3>2, <3>3
    <2>. QED  BY <2>1 DEF LatestInv, Saved
  <1>2. CASE \/ CreateDhcpThread \/ MainLocks \/ CreateUrlThread
             \/ UrlThread \/ DhcpThread \/ Exit
    <2>1. UNCHANGED << log, lst_ip >>
      BY <1>2, SnifferRests DEF frame_vars
    <2>2. /\ posted' = posted
          /\ \/ main' = main
             \/ main' = "exited"
             \/ main \in {"boot", "create"} /\ main' \in {"create", "capture"}
      <3> USE DEF Handoff!sniff_vars, Handoff!main_vars, hand_vars
      <3>1. CASE CreateDhcpThread
        BY <3>1 DEF CreateDhcpThread
      <3>4. CASE MainLocks
        BY <3>4 DEF MainLocks, Handoff!MainLocks
      <3>5. CASE CreateUrlThread
        BY <3>5 DEF CreateUrlThread, Handoff!CreateUrlThread
      <3>2. CASE UrlThread
        BY <3>2 DEF UrlThread, Handoff!UrlStep, Handoff!OpenFile, Handoff!Lock,
           Handoff!FormatAddress, Handoff!ReadPart, Handoff!Flush
      <3>3. CASE DhcpThread \/ Exit
        BY <3>3 DEF DhcpThread, Exit, Handoff!Exit
      <3>. QED  BY <1>2, <3>1, <3>2, <3>3, <3>4, <3>5
    <2>. QED  BY <2>1, <2>2 DEF LatestInv, Saved
  <1>3. CASE UNCHANGED lab_vars
    BY <1>3 DEF lab_vars, frame_vars, hand_vars, LatestInv, Saved
  <1>. QED  BY <1>1, <1>2, <1>3, InspectLatest, AppendLatest DEF LabNext, MainThread

(* The invariants of the capture loop and of the URLs posted.              *)
LEMMA LatestInvariance == LabSpec => []IInv /\ []LatestInv
  <1>1. LabInit => LatestInv
    BY DEF LabInit, Init, Handoff!Init, LatestInv, Saved
  <1>2. IInv /\ LatestInv /\ [LabNext]_lab_vars => LatestInv'
    BY LatestStep
  <1>3. LabSpec => []IInv
    BY LabImplementsSniffer, SnifferInvariance, PTL
  <1>. QED  BY <1>1, <1>2, <1>3, PTL DEF LabSpec

(* Between two frames, when the url thread waits, the last line of the     *)
(* file is the last URL the parser announced: for any traffic, any number  *)
(* of frames, whatever reads return or fail, and any interleaving of the   *)
(* three threads.                                                          *)
THEOREM LabLatestRequestSaved == LabSpec => []LatestRequestSaved
  <1>1. IInv /\ LatestInv /\ HandoffT!LastUrlSaved => LatestRequestSaved
    <2> SUFFICES ASSUME IInv, LatestInv, HandoffT!LastUrlSaved, Handoff!AtRest,
                        NEW i \in Saved, \A j \in Saved : j <= i
                 PROVE  /\ lines # << >>
                        /\ \A p \in Handoff!UrlParts : lines[Len(lines)].parts[p] = log[i].of
      BY DEF LatestRequestSaved
    <2>1. log[i].of = posted
      BY DEF LatestInv, Handoff!AtRest
    <2>2. log[i].of \in 1 .. Len(sent) /\ Len(sent) \in Nat
      BY DEF Saved, IInv, LogInv, KernelInv
    <2>3. posted > 0
      BY <2>1, <2>2
    <2>. QED
      BY <2>1, <2>3 DEF HandoffT!LastUrlSaved, HandoffT!AtRest, Handoff!AtRest,
         Handoff!UrlParts, HandoffT!UrlParts
  <1>. QED  BY HandoffCarries, LatestInvariance, <1>1, PTL

-----------------------------------------------------------------------------
(* What is in the file                                                     *)

(* The URLs announced, and the IP frames delivered.                        *)
Urls == { log[i].of : i \in Saved }
Ips == { n \in DOMAIN sent : sent[n].kind # "other" }
Holds(parts) ==
  \A p \in DOMAIN parts : parts[p] \in IF p \in Handoff!UrlParts THEN Urls ELSE Ips

(* What the url thread reads, has read and has written is announced.       *)
FileInv ==
  /\ {cell.head, cell.tail} \subseteq Urls \union {0}
  /\ cell.ip \in Ips \union {0}
  /\ Holds(line)
  /\ \A i \in DOMAIN lines : Holds(lines[i].parts)
  /\ Holds(rest)

(* A length below five, and the one after it.                              *)
LEMMA BelowFive ==
  /\ \A k \in Nat : k < 5 => k \in 0 .. 4
  /\ \A k \in 0 .. 4 : k + 1 \in 1 .. 5
  OBVIOUS

(* What the invariant of the hand-over says of the variables read here.    *)
LEMMA HandoffFacts ==
  ASSUME HandoffT!IInv
  PROVE  /\ DOMAIN cell = {"head", "tail", "ip"}
         /\ IsSeq(line) /\ IsSeq(lines)
         /\ url = "read" => /\ Len(line) \in 0 .. 4
                            /\ cell.head # 0 /\ cell.tail # 0 /\ cell.ip # 0
  <1>1. HandoffT!Frame \subseteq Nat
    BY SnifferAssumption DEF HandoffT!Frame
  <1>2. /\ cell \in [head : HandoffT!Frame, tail : HandoffT!Frame, ip : HandoffT!Frame]
        /\ line \in Seq(HandoffT!Frame) /\ lines \in Seq(HandoffT!Line)
        /\ woken \in Nat /\ posted \in Nat
    BY <1>1 DEF HandoffT!IInv, HandoffT!TypeOK
  <1>3. cell.head \in Nat /\ cell.tail \in Nat /\ cell.ip \in Nat
    <2>1. cell.head \in HandoffT!Frame /\ cell.tail \in HandoffT!Frame /\ cell.ip \in HandoffT!Frame
      BY <1>2
    <2>. QED  BY <1>1, <2>1
  <1>4. Len(line) \in Nat /\ DOMAIN cell = {"head", "tail", "ip"}
    BY <1>2
  <1>5. ASSUME url = "read"
        PROVE  /\ Len(line) \in 0 .. 4
               /\ cell.head # 0 /\ cell.tail # 0 /\ cell.ip # 0
    <2>1. woken > 0 /\ Len(line) < 5 /\ cell.ip >= woken
      BY <1>5 DEF HandoffT!IInv, HandoffT!LineInv, HandoffT!Parts
    <2>2. woken <= posted /\ posted <= cell.tail /\ cell.tail <= cell.head
      BY DEF HandoffT!IInv, HandoffT!CopyInv
    <2>3. cell.head # 0 /\ cell.tail # 0 /\ cell.ip # 0
      BY <1>2, <1>3, <2>1, <2>2
    <2>4. Len(line) \in 0 .. 4
      BY <1>4, <2>1, BelowFive, Zenon
    <2>. QED  BY <2>3, <2>4
  <1>6. IsSeq(line) /\ IsSeq(lines)
    BY <1>2, Zenon DEF IsSeq
  <1>. QED  BY <1>4, <1>5, <1>6

(* What was announced or delivered stays so.                               *)
LEMMA AnnouncedStays ==
  ASSUME IInv, [LabNext]_lab_vars
  PROVE  Urls \subseteq Urls' /\ Ips \subseteq Ips'
  <1>1. log' = log \/ \E e : log' = Append(log, e)
    <2>1. CASE InitDevice \/ WaitFrame \/ Environment
      BY <2>1 DEF InitDevice, eth_init, WaitFrame, wait_eth_frame, ReadPackets, ReadFails,
         ReadNothing, ReadUnsized, Environment, Arrive, frame_vars
    <2>2. CASE InspectFrame
      BY <2>2, InspectLogs, Zenon
    <2>3. CASE UNCHANGED lab_vars
      BY <2>3 DEF lab_vars, frame_vars
    <2>. QED  BY <2>1, <2>2, <2>3, SnifferRests DEF LabNext, MainThread, frame_vars
  <1>2. sent' = sent \/ \E f \in Traffic : sent' = Append(sent, f)
    <2>1. CASE InitDevice \/ WaitFrame \/ Environment
      BY <2>1 DEF InitDevice, eth_init, WaitFrame, wait_eth_frame, ReadPackets, ReadFails,
         ReadNothing, ReadUnsized, Environment, Arrive, frame_vars, kernel_vars
    <2>2. CASE InspectFrame
      BY <2>2 DEF InspectFrame, Inspect, InspectHttp, InspectDns, InspectOther, kernel_vars
    <2>3. CASE UNCHANGED lab_vars
      BY <2>3 DEF lab_vars, frame_vars
    <2>. QED  BY <2>1, <2>2, <2>3, SnifferRests DEF LabNext, MainThread, frame_vars
  <1>3. Urls \subseteq Urls'
    <2>1. CASE log' = log
      BY <2>1 DEF Urls, Saved
    <2>2. ASSUME NEW e, log' = Append(log, e)
          PROVE  Urls \subseteq Urls'
      <3>1. \A i \in DOMAIN log : i \in DOMAIN log' /\ log'[i] = log[i]
        BY <2>2, AppendToSeq DEF IInv, LogInv
      <3>. QED  BY <3>1 DEF Urls, Saved
    <2>. QED  BY <1>1, <2>1, <2>2
  <1>4. Ips \subseteq Ips'
    <2>1. sent \in Seq(Traffic)
      BY DEF IInv, KernelInv
    <2>2. ASSUME NEW f \in Traffic, sent' = Append(sent, f)
          PROVE  \A n \in DOMAIN sent : n \in DOMAIN sent' /\ sent'[n] = sent[n]
      BY <2>1, <2>2
    <2>3. \A n \in DOMAIN sent : n \in DOMAIN sent' /\ sent'[n] = sent[n]
      BY <1>2, <2>2
    <2>. QED  BY <2>3 DEF Ips
  <1>. QED  BY <1>3, <1>4

(* The url thread writes what it reads, and it never reads the zeros that  *)
(* its buffers start with.                                                 *)
LEMMA UrlFile ==
  ASSUME IInv, HandoffT!IInv, FileInv, UrlThread
  PROVE  FileInv'
  <1>1. UNCHANGED << log, sent, lst_ip >>
    BY SnifferRests DEF frame_vars
  <1>2. Urls' = Urls /\ Ips' = Ips /\ lst_ip \in Ips \union {0}
    BY <1>1 DEF Urls, Saved, Ips, IInv, SourceInv, KernelInv
  <1> USE DEF Handoff!main_vars, Handoff!sniff_vars, Handoff!file_vars
  <1>3. CASE Handoff!OpenFile \/ Handoff!Lock
    <2>1. UNCHANGED << cell, line, lines, rest >>
      BY <1>3 DEF Handoff!OpenFile, Handoff!Lock
    <2>. QED  BY <1>2, <2>1 DEF FileInv, Holds
  <1>4. CASE Handoff!FormatAddress
    <2>1. /\ cell'.head = cell.head /\ cell'.tail = cell.tail /\ cell'.ip = lst_ip
          /\ line' = << >> /\ UNCHANGED << lines, rest >>
      BY <1>4, HandoffFacts DEF Handoff!FormatAddress
    <2>. QED  BY <1>2, <2>1 DEF FileInv, Holds
  <1>5. CASE Handoff!ReadPart
    <2> DEFINE n == Len(line) + 1
               v == cell[Handoff!Parts[n]]
    <2>1. url = "read" /\ line' = Append(line, v) /\ UNCHANGED << cell, lines, rest >>
      BY <1>5 DEF Handoff!ReadPart
    <2>2. n \in 1 .. 5
      BY <2>1, HandoffFacts, BelowFive, Zenon
    <2>3. v \in IF n \in Handoff!UrlParts THEN Urls ELSE Ips
      <3>1. /\ n \in 1 .. 4 => Handoff!Parts[n] \in {"head", "tail"}
            /\ n = 5 => Handoff!Parts[n] = "ip"
        BY <2>2 DEF Handoff!Parts
      <3>2. /\ cell.head \in Urls /\ cell.tail \in Urls /\ cell.ip \in Ips
        BY <2>1, HandoffFacts DEF FileInv
      <3>3. n \in 1 .. 4 => v \in Urls
        BY <3>1, <3>2
      <3>4. n = 5 => v \in Ips
        BY <3>1, <3>2
      <3>. QED  BY <2>2, <3>3, <3>4 DEF Handoff!UrlParts
    <2>. HIDE DEF v
    <2>5. /\ DOMAIN line' = 1 .. n /\ line'[n] = v
          /\ \A p \in 1 .. n : p = n \/ (p \in DOMAIN line /\ line'[p] = line[p])
      BY <2>1, HandoffFacts, AppendToSeq
    <2>6. Holds(line)'
      BY <1>2, <2>3, <2>5 DEF FileInv, Holds
    <2>. QED  BY <1>2, <2>1, <2>6 DEF FileInv, Holds
  <1>6. CASE Handoff!Flush
    <2> DEFINE l == [parts |-> line, woken |-> woken]
    <2>1. lines' = Append(lines, l) /\ UNCHANGED << cell, line, rest >>
      BY <1>6 DEF Handoff!Flush
    <2>3. \A i \in DOMAIN lines' :
            lines'[i] = l \/ (i \in DOMAIN lines /\ lines'[i] = lines[i])
      BY <2>1, HandoffFacts, AppendToSeq
    <2>4. l.parts = line
      OBVIOUS
    <2>. HIDE DEF l
    <2>5. \A i \in DOMAIN lines' : Holds(lines'[i].parts)
      BY <2>3, <2>4 DEF FileInv
    <2>. QED  BY <1>2, <2>1, <2>5 DEF FileInv, Holds
  <1>. QED  BY <1>3, <1>4, <1>5, <1>6 DEF UrlThread, Handoff!UrlStep

(* The sniffer copies the URL it has just announced.                       *)
LEMMA AppendFile ==
  ASSUME IInv, LatestInv, HandoffT!IInv, FileInv, AppendUrl
  PROVE  FileInv'
  <1>1. UNCHANGED << log, sent, lst_ip >>
    BY SnifferRests DEF frame_vars
  <1>2. /\ Urls' = Urls /\ Ips' = Ips /\ lst_ip \in Ips \union {0}
        /\ main \in {"head", "tail"} => lst_ip \in Urls
    BY <1>1 DEF Urls, Saved, Ips, IInv, SourceInv, KernelInv, LatestInv
  <1>3. UNCHANGED << line, lines, rest >>
    BY DEF AppendUrl, Handoff!CopyHead, Handoff!CopyTail, Handoff!Unlock, Handoff!PrintUrl,
       Handoff!url_vars, Handoff!file_vars
  <1>4. /\ cell'.head \in {cell.head, lst_ip} /\ (cell'.head = cell.head \/ main = "head")
        /\ cell'.tail \in {cell.tail, lst_ip} /\ (cell'.tail = cell.tail \/ main = "tail")
        /\ cell'.ip \in {cell.ip, lst_ip}
    BY HandoffFacts DEF AppendUrl, Handoff!CopyHead, Handoff!CopyTail, Handoff!Unlock,
       Handoff!PrintUrl
  <1>. QED  BY <1>2, <1>3, <1>4 DEF FileInv, Holds

(* No other step touches the buffers or the file, but for the exit, which  *)
(* may cut off the line being written.                                     *)
LEMMA FileStep ==
  ASSUME IInv, LatestInv, HandoffT!IInv, FileInv, [LabNext]_lab_vars
  PROVE  FileInv'
  <1>1. Urls \subseteq Urls' /\ Ips \subseteq Ips'
    BY AnnouncedStays
  <1>2. ASSUME UNCHANGED << cell, line, lines >>, rest' \in {rest, line, << >>}
        PROVE  FileInv'
    <2>1. Holds(line)' /\ Holds(rest)' /\ \A i \in DOMAIN lines : Holds(lines[i].parts)'
      BY <1>1, <1>2 DEF FileInv, Holds
    <2>. QED  BY <1>1, <1>2, <2>1 DEF FileInv
  <1> USE DEF hand_vars
  <1>3. CASE InitDevice \/ WaitFrame \/ InspectFrame \/ Environment
             \/ CreateDhcpThread \/ DhcpThread
    BY <1>2, <1>3, Zenon DEF InitDevice, WaitFrame, InspectFrame, Environment, CreateDhcpThread,
       DhcpThread
  <1>4. CASE MainLocks \/ CreateUrlThread
    BY <1>2, <1>4 DEF MainLocks, CreateUrlThread, Handoff!MainLocks, Handoff!CreateUrlThread,
       Handoff!url_vars, Handoff!file_vars
  <1>5. CASE Exit
    BY <1>2, <1>5 DEF Exit, Handoff!Exit
  <1>6. CASE UNCHANGED lab_vars
    BY <1>2, <1>6 DEF lab_vars
  <1>. QED
    BY <1>3, <1>4, <1>5, <1>6, UrlFile, AppendFile DEF LabNext, MainThread

(* What the file holds are requests and addresses of IP frames, for any    *)
(* traffic, any interleaving and an exit at any point: the parser's        *)
(* searches find nothing in a frame without a request, and only what they  *)
(* found gets to the file.                                                 *)
THEOREM LabFileHoldsRequests == LabSpec => []OnlyRequestsInFile
  <1>1. LabInit => FileInv
    BY DEF LabInit, Init, Handoff!Init, FileInv, Holds
  <1>2. IInv /\ LatestInv /\ HandoffT!IInv /\ FileInv /\ [LabNext]_lab_vars => FileInv'
    BY FileStep
  <1>3. FileInv /\ NothingGivesNoUrl => OnlyRequestsInFile
    <2> SUFFICES ASSUME FileInv, NothingGivesNoUrl PROVE OnlyRequestsInFile
      OBVIOUS
    <2>1. \A n \in Urls : \E i \in Saved : log[i].of = n /\ ~NoRequest(Continued(log[i]))
      BY DEF Urls, Saved, NothingGivesNoUrl
    <2>. QED  BY <2>1 DEF OnlyRequestsInFile, FileInv, Holds, Ips
  <1>4. LabSpec => []NothingGivesNoUrl
    BY LabImplementsSniffer, SnifferNothingGivesNoUrl, PTL
  <1>. QED
    BY HandoffCarries, LatestInvariance, <1>1, <1>2, <1>3, <1>4, PTL DEF LabSpec
==============================================================================
