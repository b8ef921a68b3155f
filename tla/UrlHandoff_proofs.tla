-------------------------- MODULE UrlHandoff_proofs --------------------------
(***************************************************************************)
(* The inductive invariant of the URL hand-over, and what follows from it: *)
(* the safety properties of UrlHandoff for any number of frames, and the   *)
(* refinement of UrlMailbox.                                               *)
(***************************************************************************)
EXTENDS UrlHandoff, TLAPS

(* The two halves of url_to_file move from one URL to the next, head       *)
(* first, and the announcement comes last.                                 *)
CopyInv ==
  /\ woken <= posted
  /\ posted <= cell.tail
  /\ cell.tail <= cell.head
  /\ cell.head <= lst_ip
  /\ cell.ip <= lst_ip
  /\ main \in {"head", "tail", "unlock"} => posted < lst_ip
  /\ main = "tail" => cell.head = lst_ip
  /\ main = "unlock" => cell.tail = lst_ip
  /\ main \in {"boot", "create", "print", "capture"} => cell.head = posted

(* The mutex is free exactly while an announcement has not been taken.     *)
MutexInv ==
  /\ main \in {"boot", "create"} => url = "none" /\ posted = 0
  /\ main = "boot" => mutex = "free"
  /\ main = "create" => mutex = "locked"
  /\ url = "none" => main \in {"boot", "create"}
  /\ url \in {"none", "open"} => woken = 0
  /\ mutex = "locked" => woken = posted
  /\ mutex = "free" /\ url \notin {"none", "exited"} => woken < posted

(* The line being written.                                                 *)
LineInv ==
  /\ url \in {"addr", "read", "flush"} => woken > 0
  /\ url = "read" => Len(line) < Len(Parts) /\ cell.ip >= woken
  /\ url = "flush" => Len(line) = Len(Parts)
  /\ url \in {"read", "flush"} =>
       \A p \in 1 .. Len(line) :
         /\ line[p] >= woken
         /\ line[p] <= lst_ip
         /\ p \in UrlParts => line[p] <= cell.head

(* The file.                                                               *)
FileInv ==
  /\ \A i \in DOMAIN lines :
       /\ lines[i].woken > 0
       /\ lines[i].woken <= woken
       /\ url \in {"addr", "read", "flush"} => lines[i].woken < woken
       /\ \A p \in DOMAIN Parts : lines[i].parts[p] >= lines[i].woken
       /\ \A p \in UrlParts : lines[i].parts[p] <= cell.head
  /\ OneLinePerWake
  /\ url = "wait" /\ woken > 0 =>
       lines # << >> /\ lines[Len(lines)].woken = woken

(* What an exit may leave behind the lines.                                *)
RestInv ==
  /\ main = "exited" <=> url = "exited"
  /\ rest # << >> => /\ main = "exited"
                     /\ \A i \in DOMAIN lines : lines[i].woken < woken
                     /\ \A p \in DOMAIN rest : rest[p] >= woken

IInv == TypeOK /\ CopyInv /\ MutexInv /\ LineInv /\ FileInv /\ RestInv

(* What the five parts of a line are.                                      *)
LEMMA PartsFacts ==
  /\ Len(Parts) = 5
  /\ DOMAIN Parts = 1 .. 5
  /\ \A p \in 1 .. 5 : Parts[p] \in {"head", "tail", "ip"}
  /\ \A p \in 1 .. 4 : Parts[p] \in {"head", "tail"}
  BY DEF Parts

(* A sequence of length five is a function on its parts.                   *)
LEMMA SeqOfFive ==
  ASSUME NEW S, NEW s \in Seq(S), Len(s) = 5
  PROVE  s \in [1 .. 5 -> S]
  OBVIOUS

(* What TypeOK says of the numbers in the state.                           *)
LEMMA TypeFacts ==
  ASSUME TypeOK
  PROVE  /\ {lst_ip, posted, woken, cell.head, cell.tail, cell.ip} \subseteq Nat
         /\ Len(line) \in Nat /\ DOMAIN line = 1 .. Len(line)
         /\ \A p \in 1 .. Len(line) : line[p] \in Nat
         /\ Len(lines) \in Nat /\ DOMAIN lines = 1 .. Len(lines)
         /\ \A i \in 1 .. Len(lines) : /\ lines[i].woken \in Nat
                                       /\ \A p \in 1 .. 5 : lines[i].parts[p] \in Nat
  <1>1. Frame \subseteq Nat
    BY MaxFramesAssumption DEF Frame
  <1>2. {lst_ip, posted, woken, cell.head, cell.tail, cell.ip} \subseteq Nat
    BY <1>1 DEF TypeOK
  <1>3. /\ Len(line) \in Nat /\ DOMAIN line = 1 .. Len(line)
        /\ Len(lines) \in Nat /\ DOMAIN lines = 1 .. Len(lines)
    BY DEF TypeOK
  <1>4. \A p \in 1 .. Len(line) : line[p] \in Frame
    BY DEF TypeOK
  <1>5. \A i \in 1 .. Len(lines) : lines[i] \in Line
    BY DEF TypeOK
  <1>6. \A l \in Line : l.woken \in Frame /\ \A p \in 1 .. 5 : l.parts[p] \in Frame
    BY PartsFacts DEF Line
  <1>. QED  BY <1>1, <1>2, <1>3, <1>4, <1>5, <1>6

(* Both threads start in the invariant.                                    *)
LEMMA InitInv == Init => IInv
  BY MaxFramesAssumption, PartsFacts
  DEF Init, IInv, TypeOK, CopyInv, MutexInv, LineInv, FileInv, RestInv, OneLinePerWake, Frame, Line

(* The process ends as a whole, and what it leaves of a line is what had   *)
(* been read of it.                                                        *)
LEMMA RestStep ==
  ASSUME IInv, Next
  PROVE  RestInv' /\ rest' \in Seq(Frame)
  <1> USE DEF file_vars, url_vars, sniff_vars, main_vars
  <1>1. CASE Exit
    <2>1. /\ main' = "exited" /\ url' = "exited" /\ UNCHANGED << lines, line, woken >>
          /\ rest' = << >> \/ (rest' = line /\ url \in {"read", "flush"})
      BY <1>1, SMT DEF Exit
    <2>2. rest' \in Seq(Frame)
      <3>1. << >> \in Seq(Frame) /\ line \in Seq(Frame)
        BY DEF IInv, TypeOK
      <3>. QED  BY <2>1, <3>1, Zenon
    <2>3. ASSUME rest' = line, url \in {"read", "flush"}
          PROVE  /\ \A i \in DOMAIN lines : lines[i].woken < woken
                 /\ \A p \in DOMAIN rest' : rest'[p] >= woken
      BY <2>3, TypeFacts DEF IInv, LineInv, FileInv
    <2>. QED  BY <2>1, <2>2, <2>3 DEF RestInv
  <1>2. CASE MainStep \/ Capture
    <2>1. main # "exited" /\ main' # "exited" /\ UNCHANGED rest
      BY <1>2 DEF MainStep, MainLocks, CreateUrlThread, CopyHead, CopyTail, Unlock, PrintUrl, Capture
    <2>2. url' \in {url, "open", "gone"}
      BY <1>2 DEF MainStep, MainLocks, CreateUrlThread, CopyHead, CopyTail, Unlock, PrintUrl, Capture
    <2>. QED  BY <2>1, <2>2 DEF IInv, RestInv, TypeOK
  <1>3. CASE UrlStep
    <2>1. url # "exited" /\ url' # "exited" /\ UNCHANGED << main, rest >>
      BY <1>3 DEF UrlStep, OpenFile, Lock, FormatAddress, ReadPart, Flush
    <2>. QED  BY <2>1 DEF IInv, RestInv, TypeOK
  <1>. QED  BY <1>1, <1>2, <1>3 DEF Next

(* The steps of main and the exit leave the line and the file alone and    *)
(* never move url_to_file backwards.                                       *)
LEMMA MainInv ==
  ASSUME IInv, MainStep \/ Capture \/ Exit
  PROVE  IInv'
  <1> USE MaxFramesAssumption DEF IInv, Frame, file_vars
  <1>1. /\ UNCHANGED << line, lines, woken >>
        /\ lst_ip' >= lst_ip /\ cell'.head >= cell.head
        /\ url' = "read" => url = "read"
        /\ url' = "read" => cell'.ip >= woken
        /\ url' \in {"addr", "read", "flush", "wait", "exited", "gone", "open", "none"}
        /\ url' \in {"addr", "read", "flush", "wait"} => url' = url
        /\ cell' \in [head : Frame, tail : Frame, ip : Frame]
    <2> USE DEF TypeOK, url_vars, sniff_vars
    <2>1. CASE MainLocks \/ CreateUrlThread \/ Exit
      BY <2>1, SMTT(30) DEF CopyInv, LineInv, MainLocks, CreateUrlThread, Exit
    <2>2. CASE Capture
      <3>1. /\ UNCHANGED << line, lines, woken, cell, url >>
            /\ lst_ip' \in lst_ip + 1 .. MaxFrames
        BY <2>2, Zenon DEF Capture
      <3>2. {lst_ip, cell.head, cell.ip, woken} \subseteq Nat
        BY TypeFacts
      <3>. QED  BY <3>1, <3>2, SMTT(30) DEF LineInv
    <2>3. CASE CopyHead \/ CopyTail
      BY <2>3, SMTT(30) DEF CopyInv, LineInv, CopyHead, CopyTail
    <2>4. CASE Unlock
      <3>1. UNCHANGED << line, lines, woken, cell, url, lst_ip >>
        BY <2>4, Zenon DEF Unlock
      <3>2. {lst_ip, cell.head, cell.ip, woken} \subseteq Nat
        BY TypeFacts
      <3>. QED  BY <3>1, <3>2, SMTT(30) DEF LineInv
    <2>5. CASE PrintUrl
      <3>1. /\ UNCHANGED << line, lines, woken, url, lst_ip >>
            /\ cell' = [cell EXCEPT !.ip = lst_ip]
        BY <2>5, Zenon DEF PrintUrl
      <3>2. {lst_ip, cell.head, cell.ip, woken} \subseteq Nat
        BY TypeFacts
      <3>3. woken <= lst_ip
        BY TypeFacts DEF CopyInv
      <3>. QED  BY <3>1, <3>2, <3>3, SMTT(30)
    <2>. HIDE DEF IInv, TypeOK, Frame
    <2>. QED  BY <2>1, <2>2, <2>3, <2>4, <2>5, Zenon DEF MainStep
  <1>7. RestInv' /\ rest' \in Seq(Frame)
    BY RestStep DEF Next
  <1>2. TypeOK'
    <2>1. /\ main' \in {"boot", "create", "capture", "head", "tail", "unlock", "print", "exited"}
          /\ url' \in {"none", "open", "wait", "addr", "read", "flush", "gone", "exited"}
          /\ mutex' \in {"free", "locked"}
      <3> USE DEF TypeOK, url_vars, sniff_vars
      <3>1. CASE MainLocks \/ CreateUrlThread \/ Exit
        BY <3>1 DEF MainLocks, CreateUrlThread, Exit
      <3>2. CASE Capture \/ CopyHead \/ CopyTail
        BY <3>2 DEF Capture, CopyHead, CopyTail
      <3>3. CASE Unlock \/ PrintUrl
        BY <3>3 DEF Unlock, PrintUrl
      <3>. QED  BY <3>1, <3>2, <3>3 DEF MainStep
    <2>2. lst_ip' \in Frame /\ posted' \in Frame /\ announced' \subseteq Frame
      <3>1. lst_ip \in Frame /\ posted \in Frame /\ announced \subseteq Frame
        BY DEF TypeOK
      <3> USE DEF sniff_vars
      <3>2. CASE MainLocks \/ CreateUrlThread \/ Exit
        BY <3>1, <3>2 DEF MainLocks, CreateUrlThread, Exit
      <3>3. CASE Capture
        BY <3>1, <3>3 DEF Capture
      <3>4. CASE CopyHead \/ CopyTail \/ PrintUrl
        BY <3>1, <3>4 DEF CopyHead, CopyTail, PrintUrl
      <3>5. CASE Unlock
        BY <3>1, <3>5 DEF Unlock
      <3>. QED  BY <3>2, <3>3, <3>4, <3>5 DEF MainStep
    <2>3. line' \in Seq(Frame) /\ Len(line') <= Len(Parts) /\ lines' \in Seq(Line) /\ woken' \in Frame
      BY <1>1 DEF TypeOK
    <2>. QED  BY <1>1, <1>7, <2>1, <2>2, <2>3, Zenon DEF TypeOK
  <1>3. CopyInv'
    <2> USE TypeFacts DEF CopyInv, url_vars, sniff_vars
    <2>1. CASE MainLocks \/ CreateUrlThread \/ Exit
      BY <2>1 DEF MutexInv, MainLocks, CreateUrlThread, Exit
    <2>2. CASE Capture
      BY <2>2 DEF Capture
    <2>3. CASE CopyHead
      BY <2>3 DEF CopyHead, TypeOK
    <2>4. CASE CopyTail
      BY <2>4 DEF CopyTail, TypeOK
    <2>5. CASE Unlock
      BY <2>5 DEF Unlock
    <2>6. CASE PrintUrl
      BY <2>6 DEF PrintUrl, TypeOK
    <2>. QED  BY <2>1, <2>2, <2>3, <2>4, <2>5, <2>6 DEF MainStep
  <1>4. MutexInv'
    <2>1. {lst_ip, posted, woken} \subseteq Nat /\ MutexInv /\ woken' = woken
      BY <1>1, TypeFacts
    <2> USE DEF MutexInv, url_vars, sniff_vars
    <2>2. CASE MainLocks \/ CreateUrlThread
      BY <2>1, <2>2 DEF MainLocks, CreateUrlThread
    <2>3. CASE Exit
      <3>1. main' = "exited" /\ url' = "exited" /\ UNCHANGED << mutex, posted >>
        BY <2>3 DEF Exit
      <3>. QED  BY <2>1, <3>1
    <2>4. CASE Capture \/ CopyHead \/ CopyTail \/ PrintUrl
      <3>1. /\ main \notin {"boot", "create"} /\ main' \notin {"boot", "create"}
            /\ UNCHANGED << mutex, posted, url >>
        BY <2>4 DEF Capture, CopyHead, CopyTail, PrintUrl
      <3>. QED  BY <2>1, <3>1
    <2>5. CASE Unlock
      <3>1. /\ main \notin {"boot", "create"} /\ main' \notin {"boot", "create"}
            /\ mutex' = "free" /\ posted' = lst_ip /\ url' = url
        BY <2>5 DEF Unlock
      <3>2. woken < lst_ip
        BY <2>1, <2>5 DEF CopyInv, Unlock
      <3>. QED  BY <2>1, <3>1, <3>2
    <2>. QED  BY <2>2, <2>3, <2>4, <2>5 DEF MainStep
  <1>5. LineInv'
    <2>1. {lst_ip, lst_ip', cell.head, cell'.head} \subseteq Nat
      BY <1>2, MaxFramesAssumption DEF TypeOK
    <2>2. /\ Len(line) \in Nat /\ DOMAIN line = 1 .. Len(line) /\ woken \in Nat
          /\ \A p \in 1 .. Len(line) : line[p] \in Nat
      BY TypeFacts
    <2>3. LineInv /\ UNCHANGED << line, woken >>
      BY <1>1
    <2>4. /\ lst_ip' >= lst_ip /\ cell'.head >= cell.head
          /\ url' \in {"addr", "read", "flush", "wait"} => url' = url
          /\ url' = "read" => cell'.ip >= woken
      BY <1>1
    <2>. HIDE DEF IInv, Frame
    <2>. QED  BY <2>1, <2>2, <2>3, <2>4, SMTT(30) DEF LineInv
  <1>6. FileInv'
    <2>1. {cell.head, cell'.head} \subseteq Nat
      BY <1>2, MaxFramesAssumption DEF TypeOK
    <2>2. \A i \in DOMAIN lines, p \in UrlParts : lines[i].parts[p] <= cell'.head
      <3> TAKE i \in DOMAIN lines, p \in UrlParts
      <3>1. lines[i].parts[p] <= cell.head
        BY DEF FileInv
      <3>2. lines[i].parts[p] \in Nat /\ cell.head \in Nat /\ cell'.head \in Nat
        <4>1. p \in 1 .. 5 /\ i \in 1 .. Len(lines)
          BY TypeFacts DEF UrlParts
        <4>2. lines[i].parts[p] \in Nat
          BY <4>1, TypeFacts
        <4>. QED  BY <2>1, <4>2, Zenon
      <3>. QED  BY <1>1, <3>1, <3>2
    <2>. QED  BY <1>1, <2>2 DEF FileInv, OneLinePerWake
  <1>. QED  BY <1>2, <1>3, <1>4, <1>5, <1>6, <1>7

(* The steps of the url thread.                                            *)
LEMMA UrlInv ==
  ASSUME IInv, UrlStep
  PROVE  IInv'
  <1> USE MaxFramesAssumption DEF IInv, Frame, main_vars, sniff_vars, file_vars
  <1>6. RestInv'
    BY RestStep DEF Next
  <1>1. CASE OpenFile
    BY <1>1, <1>6, PartsFacts DEF OpenFile, TypeOK, CopyInv, MutexInv, LineInv, FileInv, OneLinePerWake
  <1>2. CASE Lock
    <2>1. woken < posted
      BY <1>2 DEF Lock, MutexInv
    <2>2. TypeOK'
      <3>1. /\ mutex' = "locked" /\ woken' = posted /\ url' = "addr"
            /\ UNCHANGED << main, lst_ip, posted, announced, cell, line, lines, rest >>
        BY <1>2, Zenon DEF Lock
      <3>. QED  BY <3>1, SMTT(30) DEF TypeOK
    <2>3. CopyInv' /\ MutexInv' /\ LineInv'
      BY <1>2, <2>1, TypeFacts DEF Lock, CopyInv, MutexInv, LineInv
    <2>4. FileInv'
      BY <1>2, <2>1, TypeFacts DEF Lock, FileInv, OneLinePerWake
    <2>. QED  BY <1>6, <2>2, <2>3, <2>4
  <1>3. CASE FormatAddress
    <2>1. TypeOK'
      <3>1. /\ line' = << >> /\ url' = "read" /\ cell' = [cell EXCEPT !.ip = lst_ip]
            /\ UNCHANGED << main, lst_ip, posted, announced, mutex, lines, rest, woken >>
        BY <1>3, Zenon DEF FormatAddress
      <3>2. << >> \in Seq(Frame) /\ Len(<< >>) = 0 /\ 0 <= Len(Parts)
        BY PartsFacts
      <3>3. cell' \in [head : Frame, tail : Frame, ip : Frame]
        BY <3>1 DEF TypeOK
      <3>4. /\ main \in {"boot", "create", "capture", "head", "tail", "unlock", "print", "exited"}
            /\ mutex \in {"free", "locked"}
            /\ {lst_ip, posted, woken} \subseteq Frame
            /\ announced \subseteq Frame /\ lines \in Seq(Line) /\ rest \in Seq(Frame)
        BY DEF TypeOK
      <3>. HIDE DEF Frame, IInv
      <3>. QED  BY <3>1, <3>2, <3>3, <3>4, SMTT(30) DEF TypeOK
    <2>2. CopyInv' /\ MutexInv' /\ LineInv'
      BY <1>3, TypeFacts, PartsFacts DEF FormatAddress, TypeOK, CopyInv, MutexInv, LineInv
    <2>3. FileInv'
      <3>1. cell'.head = cell.head /\ UNCHANGED << lines, woken >> /\ url = "addr" /\ url' = "read"
        BY <1>3 DEF FormatAddress, TypeOK
      <3>. QED  BY <3>1 DEF FileInv, OneLinePerWake
    <2>. QED  BY <1>6, <2>1, <2>2, <2>3
  <1>4. CASE ReadPart
    <2> DEFINE n == Len(line) + 1
               v == cell[Parts[n]]
    <2>1. n \in 1 .. 5
      <3>1. url = "read" /\ Len(line) < 5 /\ Len(line) \in Nat
        BY <1>4, TypeFacts, PartsFacts DEF ReadPart, LineInv
      <3>. QED  BY <3>1
    <2>2. /\ v \in Frame /\ v >= woken /\ v <= lst_ip
          /\ n \in UrlParts => v <= cell.head
      <3>1. Parts[n] \in {"head", "tail", "ip"}
        BY <2>1, PartsFacts
      <3>2. n \in UrlParts => Parts[n] \in {"head", "tail"}
        BY <2>1, PartsFacts DEF UrlParts
      <3>3. cell.head >= woken /\ cell.tail >= woken /\ cell.ip >= woken
        BY <1>4, TypeFacts DEF ReadPart, CopyInv, LineInv
      <3>4. cell.head <= lst_ip /\ cell.tail <= lst_ip /\ cell.ip <= lst_ip /\ cell.tail <= cell.head
        BY TypeFacts DEF CopyInv
      <3>5. cell.head \in Frame /\ cell.tail \in Frame /\ cell.ip \in Frame
        BY DEF TypeOK
      <3>. QED  BY <3>1, <3>2, <3>3, <3>4, <3>5, TypeFacts
    <2>3. /\ line' \in Seq(Frame)
          /\ Len(line') = n
          /\ \A p \in 1 .. n : line'[p] = IF p = n THEN v ELSE line[p]
      <3>1. line \in Seq(Frame) /\ line' = Append(line, v)
        BY <1>4 DEF ReadPart, TypeOK
      <3>. HIDE DEF v
      <3>. QED  BY <2>2, <3>1, SMTT(30)
    <2>4. TypeOK' /\ CopyInv' /\ MutexInv'
      <3>1. /\ UNCHANGED << main, lst_ip, posted, announced, mutex, cell, lines, rest, woken >>
            /\ url = "read" /\ url' \in {"read", "flush"}
        BY <1>4 DEF ReadPart
      <3>2. Len(line') <= Len(Parts)
        BY <2>1, <2>3, PartsFacts
      <3>3. TypeOK'
        BY <2>3, <3>1, <3>2, Zenon DEF TypeOK
      <3>4. CopyInv' /\ MutexInv'
        BY <3>1 DEF CopyInv, MutexInv
      <3>. QED  BY <3>3, <3>4
    <2>5. LineInv'
      <3>1. url = "read" /\ url' \in {"read", "flush"} /\ (url' = "flush" <=> n = 5)
        BY <1>4, PartsFacts DEF ReadPart
      <3>2. UNCHANGED << woken, lst_ip, cell >>
        BY <1>4 DEF ReadPart
      <3>3. \A p \in 1 .. n : /\ line'[p] >= woken
                              /\ line'[p] <= lst_ip
                              /\ p \in UrlParts => line'[p] <= cell.head
        <4> TAKE p \in 1 .. n
        <4>1. CASE p = n
          BY <4>1, <2>2, <2>3
        <4>2. CASE p # n
          <5>1. p \in 1 .. Len(line) /\ line'[p] = line[p]
            BY <4>2, <2>1, <2>3, TypeFacts
          <5>. QED  BY <5>1, <3>1 DEF LineInv
        <4>. QED  BY <4>1, <4>2
      <3>. QED  BY <2>1, <2>3, <3>1, <3>2, <3>3, PartsFacts DEF LineInv
    <2>6. FileInv'
      BY <1>4 DEF ReadPart, FileInv, OneLinePerWake
    <2>. QED  BY <1>6, <2>4, <2>5, <2>6
  <1>5. CASE Flush
    <2> DEFINE l == [parts |-> line, woken |-> woken]
    <2>1. Len(line) = 5 /\ line \in [1 .. 5 -> 0 .. MaxFrames]
      <3>1. Len(line) = 5 /\ line \in Seq(0 .. MaxFrames)
        BY <1>5, PartsFacts DEF Flush, LineInv, TypeOK
      <3>. QED  BY <3>1, SeqOfFive
    <2>2. l \in Line
      BY <2>1, PartsFacts DEF Line, TypeOK
    <2>3. /\ lines' \in Seq(Line)
          /\ Len(lines') = Len(lines) + 1
          /\ DOMAIN lines' = 1 .. Len(lines) + 1
          /\ lines'[Len(lines) + 1] = l
          /\ \A i \in DOMAIN lines : lines'[i] = lines[i]
          /\ DOMAIN lines = 1 .. Len(lines) /\ Len(lines) \in Nat
      BY <1>5, <2>2 DEF Flush, TypeOK
    <2>4. TypeOK' /\ CopyInv' /\ MutexInv' /\ LineInv'
      BY <1>5, <2>3 DEF Flush, TypeOK, CopyInv, MutexInv, LineInv
    <2>5. /\ url = "flush" /\ url' = "wait" /\ woken' = woken /\ cell' = cell
          /\ woken \in Nat /\ woken > 0
      BY <1>5 DEF Flush, TypeOK, LineInv
    <2>6. \A p \in 1 .. 5 : /\ line[p] >= woken
                            /\ p \in UrlParts => line[p] <= cell.head
      BY <2>1, <2>5 DEF LineInv
    <2>7. \A i \in DOMAIN lines' :
            /\ lines'[i].woken > 0
            /\ lines'[i].woken <= woken
            /\ \A p \in DOMAIN Parts : lines'[i].parts[p] >= lines'[i].woken
            /\ \A p \in UrlParts : lines'[i].parts[p] <= cell.head
      <3> TAKE i \in DOMAIN lines'
      <3>1. CASE i \in DOMAIN lines
        BY <3>1, <2>3 DEF FileInv
      <3>2. CASE i = Len(lines) + 1
        BY <3>2, <2>3, <2>5, <2>6, PartsFacts DEF UrlParts
      <3>. QED  BY <3>1, <3>2, <2>3
    <2>8. OneLinePerWake'
      <3> SUFFICES ASSUME NEW i \in DOMAIN lines', NEW j \in DOMAIN lines', i < j
                   PROVE  lines'[i].woken < lines'[j].woken
        BY DEF OneLinePerWake
      <3>1. i \in DOMAIN lines
        BY <2>3
      <3>2. CASE j \in DOMAIN lines
        BY <3>1, <3>2, <2>3 DEF FileInv, OneLinePerWake
      <3>3. CASE j = Len(lines) + 1
        BY <3>1, <3>3, <2>3, <2>5 DEF FileInv
      <3>. QED  BY <3>2, <3>3, <2>3
    <2>9. FileInv'
      BY <2>3, <2>5, <2>7, <2>8 DEF FileInv
    <2>. QED  BY <1>6, <2>4, <2>9
  <1>. QED  BY <1>1, <1>2, <1>3, <1>4, <1>5, <1>6 DEF UrlStep

(* Stuttering keeps the invariant.                                         *)
LEMMA StutterInv == IInv /\ UNCHANGED vars => IInv'
  BY DEF IInv, TypeOK, CopyInv, MutexInv, LineInv, FileInv, RestInv, OneLinePerWake, vars

(* The invariant holds of every behaviour.                                 *)
THEOREM Invariance == Spec => []IInv
  <1>1. IInv /\ [Next]_vars => IInv'
    BY MainInv, UrlInv, StutterInv DEF Next
  <1>. QED  BY InitInv, <1>1, PTL DEF Spec

(* Every variable of the hand-over has its type, for any number of frames. *)
THEOREM UrlTypeCorrect == Spec => []TypeOK
  <1>1. IInv => TypeOK
    BY DEF IInv
  <1>. QED  BY Invariance, <1>1, PTL

(* No line is written for a URL that was never captured, and none of its   *)
(* parts is older than the URL it was woken for, whatever the interleaving *)
(* of strcpy, unlock, lock and fprintf.                                    *)
THEOREM UrlLinesFresh == Spec => []LinesFresh
  <1>1. IInv => LinesFresh
    BY DEF IInv, FileInv, RestInv, LinesFresh
  <1>. QED  BY Invariance, <1>1, PTL

(* No URL wakes the url thread twice.                                      *)
THEOREM UrlOneLinePerWake == Spec => []OneLinePerWake
  <1>1. IInv => OneLinePerWake
    BY DEF IInv, FileInv
  <1>. QED  BY Invariance, <1>1, PTL

(* When both threads are at rest the last URL is in the last line, whole.  *)
THEOREM UrlLastSaved == Spec => []LastUrlSaved
  <1>1. IInv => LastUrlSaved
    <2> SUFFICES ASSUME IInv, AtRest, posted > 0
                 PROVE  /\ lines # << >>
                        /\ \A p \in UrlParts : lines[Len(lines)].parts[p] = posted
      BY DEF LastUrlSaved
    <2>1. woken = posted /\ cell.head = posted
      BY DEF IInv, AtRest, MutexInv, CopyInv
    <2>2. lines # << >> /\ lines[Len(lines)].woken = posted
      BY <2>1 DEF IInv, AtRest, FileInv
    <2>3. Len(lines) \in DOMAIN lines
      BY <2>2 DEF IInv, TypeOK
    <2>4. lines[Len(lines)] \in Line
      BY <2>3 DEF IInv, TypeOK
    <2>5. \A p \in UrlParts : /\ lines[Len(lines)].parts[p] >= posted
                              /\ lines[Len(lines)].parts[p] <= posted
                              /\ lines[Len(lines)].parts[p] \in Nat
      BY <2>1, <2>2, <2>3, <2>4, PartsFacts, MaxFramesAssumption
      DEF IInv, FileInv, Line, Frame, UrlParts
    <2>. QED  BY <2>2, <2>5, MaxFramesAssumption DEF IInv, TypeOK, Frame
  <1>. QED  BY Invariance, <1>1, PTL

(* The mutex, the shared buffers and the two threads implement the         *)
(* conflating mailbox: every step of theirs is one of its steps or leaves  *)
(* it as it was.                                                           *)
THEOREM UrlImplementsMailbox == Spec => ImplementsMailbox
  <1> USE DEF Mailbox!mail_vars
  <1>1. Init => Mailbox!Init
    BY DEF Init, Mailbox!Init
  <1>2. IInv /\ [Next]_vars => [Mailbox!Next]_(Mailbox!mail_vars)
    <2> SUFFICES ASSUME IInv, [Next]_vars
                 PROVE  Mailbox!Next \/ UNCHANGED Mailbox!mail_vars
      OBVIOUS
    <2> USE DEF sniff_vars, main_vars, url_vars, file_vars
    <2>1. CASE Capture
      BY <2>1, MaxFramesAssumption DEF Capture, IInv, TypeOK, Frame, Mailbox!Next, Mailbox!See
    <2>2. CASE Unlock
      BY <2>2 DEF Unlock, IInv, CopyInv, Mailbox!Next, Mailbox!Post
    <2>3. CASE Lock
      <3>1. woken < posted
        BY <2>3 DEF Lock, IInv, MutexInv
      <3>2. woken = 0 \/ Mailbox!Recorded
        BY <2>3, MaxFramesAssumption DEF Lock, IInv, FileInv, TypeOK, Frame, Mailbox!Recorded
      <3>. QED  BY <2>3, <3>1, <3>2 DEF Lock, Mailbox!Next, Mailbox!Take
    <2>4. CASE Flush
      <3>1. woken > 0 /\ Len(line) = 5 /\ line \in Seq(Frame)
        BY <2>4, PartsFacts DEF Flush, IInv, LineInv, TypeOK
      <3>2. ~Mailbox!Recorded
        <4> SUFFICES ASSUME lines # << >>
                     PROVE  lines[Len(lines)].woken # woken
          BY DEF Mailbox!Recorded
        <4>1. Len(lines) \in DOMAIN lines
          BY DEF IInv, TypeOK
        <4>2. lines[Len(lines)].woken < woken
          BY <2>4, <4>1 DEF Flush, IInv, FileInv
        <4>3. lines[Len(lines)].woken \in Nat /\ woken \in Nat
          BY <4>1, TypeFacts DEF IInv
        <4>. QED  BY <4>2, <4>3
      <3>3. line \in [DOMAIN Parts -> woken .. lst_ip]
        <4>1. \A p \in 1 .. 5 : line[p] >= woken /\ line[p] <= lst_ip
          BY <2>4, <3>1 DEF Flush, IInv, LineInv
        <4>2. woken \in Nat /\ lst_ip \in Nat /\ \A p \in 1 .. 5 : line[p] \in Nat
          BY <3>1, TypeFacts DEF IInv
        <4>3. DOMAIN line = 1 .. 5 /\ line = [p \in 1 .. 5 |-> line[p]]
          BY <3>1
        <4>4. \A p \in 1 .. 5 : line[p] \in woken .. lst_ip
          BY <4>1, <4>2
        <4>. QED  BY <4>3, <4>4, PartsFacts
      <3>4. lines' = Append(lines, [parts |-> line, woken |-> woken])
            /\ UNCHANGED << lst_ip, posted, woken >>
        BY <2>4 DEF Flush
      <3>. QED  BY <3>1, <3>2, <3>3, <3>4 DEF Mailbox!Next, Mailbox!Record
    <2>5. CASE MainLocks \/ CreateUrlThread \/ CopyHead \/ CopyTail \/ PrintUrl \/ Exit
      BY <2>5 DEF MainLocks, CreateUrlThread, CopyHead, CopyTail, PrintUrl, Exit
    <2>6. CASE OpenFile \/ FormatAddress \/ ReadPart
      BY <2>6 DEF OpenFile, FormatAddress, ReadPart
    <2>7. CASE UNCHANGED vars
      BY <2>7 DEF vars
    <2>. QED  BY <2>1, <2>2, <2>3, <2>4, <2>5, <2>6, <2>7 DEF Next, MainStep, UrlStep
  <1>. QED  BY Invariance, <1>1, <1>2, PTL DEF Spec, ImplementsMailbox, Mailbox!Spec
==============================================================================
