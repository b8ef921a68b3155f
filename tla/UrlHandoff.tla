------------------------------ MODULE UrlHandoff -----------------------------
(***************************************************************************)
(* How a URL gets from the sniffer (the main thread) to the file urls.htm  *)
(* (the url thread): Application.c's url_to_file, lst_ip and               *)
(* url_file_mutex.                                                         *)
(*                                                                         *)
(* The mutex is used as a binary semaphore: main takes it once before the  *)
(* url thread exists, the url thread locks it before every line, and the   *)
(* sniffer, which does not own it, unlocks it after every URL.  Unlocking  *)
(* leaves a normal mutex free whoever held it and whether or not it was    *)
(* held.                                                                   *)
(*                                                                         *)
(* The frames of the interface are numbered; lst_ip holds the number of    *)
(* the last IP frame, which stands for its source address and its URL.  A  *)
(* URL is copied and read in two halves, so the race on url_to_file can    *)
(* tear it.  inet_ntoa keeps its result in one static buffer that both     *)
(* threads overwrite (the BSD C library).                                  *)
(***************************************************************************)
EXTENDS Integers, Sequences

CONSTANT MaxFrames    \* bound: frames the interface delivers

ASSUME MaxFramesAssumption == MaxFrames \in Nat

VARIABLES
  main,       \* where the main thread is
  url,        \* where the url thread is
  mutex,      \* url_file_mutex
  lst_ip,     \* the last IP frame: its source address, and its URL
  cell,       \* url_to_file in two halves, and inet_ntoa's buffer
  line,       \* what fprintf has read of the line so far
  lines,      \* the lines of urls.htm, with the URL each was woken for
  rest,       \* what follows them: a line that exit cut off
  posted,     \* history: the last URL unlocked for
  announced,  \* history: every URL unlocked for
  woken       \* history: the last URL posted when the url thread locked

vars == << main, url, mutex, lst_ip, cell, line, lines, rest, posted,
           announced, woken >>
sniff_vars == << lst_ip, posted, announced >>
main_vars == << main, sniff_vars >>
file_vars == << lines, rest >>
url_vars == << url, line, file_vars, woken >>

Frame == 0 .. MaxFrames

(* The cells fprintf reads, in order: the URL twice, then the address.     *)
Parts == << "head", "tail", "head", "tail", "ip" >>
UrlParts == 1 .. 4

Init ==
  /\ main = "boot"
  /\ url = "none"
  /\ mutex = "free"
  /\ lst_ip = 0
  /\ cell = [head |-> 0, tail |-> 0, ip |-> 0]
  /\ line = << >>
  /\ lines = << >>
  /\ rest = << >>
  /\ posted = 0
  /\ announced = {}
  /\ woken = 0

-----------------------------------------------------------------------------
(* main                                                                    *)

(* Slip: the mutex is initialised but not taken.                           *)
MainLocks_Not ==
  /\ main = "boot"
  /\ main' = "create"
  /\ UNCHANGED << mutex, sniff_vars, cell, url_vars >>

(* main: initialise the mutex and take it.                                 *)
MainLocks ==
  /\ main = "boot"
  /\ mutex = "free"
  /\ mutex' = "locked"
  /\ main' = "create"
  /\ UNCHANGED << sniff_vars, cell, url_vars >>

(* main: create the url thread; if that fails, sniff without it.           *)
CreateUrlThread ==
  /\ main = "create"
  /\ main' = "capture"
  /\ url' \in {"open", "gone"}
  /\ UNCHANGED << mutex, sniff_vars, cell, line, file_vars, woken >>

(* init_sniffer: a later IP frame, with a URL in it or without.            *)
Capture ==
  /\ main = "capture"
  /\ lst_ip' \in lst_ip + 1 .. MaxFrames
  /\ main' \in {"capture", "head"}
  /\ UNCHANGED << mutex, posted, announced, cell, url_vars >>

(* append_url_to_file: the two halves of strcpy.                           *)
CopyHead ==
  /\ main = "head"
  /\ cell' = [cell EXCEPT !.head = lst_ip]
  /\ main' = "tail"
  /\ UNCHANGED << mutex, sniff_vars, url_vars >>

CopyTail ==
  /\ main = "tail"
  /\ cell' = [cell EXCEPT !.tail = lst_ip]
  /\ main' = "unlock"
  /\ UNCHANGED << mutex, sniff_vars, url_vars >>

(* Slip: the url thread is only woken if it waits already.                 *)
Unlock_Signal ==
  /\ main = "unlock"
  /\ mutex' = IF url = "wait" THEN "free" ELSE mutex
  /\ posted' = lst_ip
  /\ announced' = announced \union {lst_ip}
  /\ main' = "print"
  /\ UNCHANGED << lst_ip, cell, url_vars >>

(* append_url_to_file: unlock, whoever holds the mutex.                    *)
Unlock ==
  /\ main = "unlock"
  /\ mutex' = "free"
  /\ posted' = lst_ip
  /\ announced' = announced \union {lst_ip}
  /\ main' = "print"
  /\ UNCHANGED << lst_ip, cell, url_vars >>

(* append_url_to_file: printf, whose inet_ntoa writes the shared buffer.   *)
PrintUrl ==
  /\ main = "print"
  /\ cell' = [cell EXCEPT !.ip = lst_ip]
  /\ main' = "capture"
  /\ UNCHANGED << mutex, sniff_vars, url_vars >>

-----------------------------------------------------------------------------
(* init_url_thread                                                         *)

(* fopen, which may fail: then the thread ends.                            *)
OpenFile ==
  /\ url = "open"
  /\ url' \in {"wait", "gone"}
  /\ UNCHANGED << mutex, cell, line, file_vars, woken, main_vars >>

(* pthread_mutex_lock.                                                     *)
Lock ==
  /\ url = "wait"
  /\ mutex = "free"
  /\ mutex' = "locked"
  /\ woken' = posted
  /\ url' = "addr"
  /\ UNCHANGED << cell, line, file_vars, main_vars >>

(* The arguments of fprintf: inet_ntoa writes the shared buffer.           *)
FormatAddress ==
  /\ url = "addr"
  /\ cell' = [cell EXCEPT !.ip = lst_ip]
  /\ line' = << >>
  /\ url' = "read"
  /\ UNCHANGED << mutex, file_vars, woken, main_vars >>

(* fprintf reads the next part of the line.                                *)
ReadPart ==
  /\ url = "read"
  /\ line' = Append(line, cell[Parts[Len(line) + 1]])
  /\ url' = IF Len(line) + 1 = Len(Parts) THEN "flush" ELSE "read"
  /\ UNCHANGED << mutex, cell, file_vars, woken, main_vars >>

(* Slip: the thread ends after its first line.                             *)
Flush_Once ==
  /\ url = "flush"
  /\ lines' = Append(lines, [parts |-> line, woken |-> woken])
  /\ url' = "done"
  /\ UNCHANGED << mutex, cell, line, rest, woken, main_vars >>

(* Slip: the thread unlocks what it locked.                                *)
Flush_Unlocks ==
  /\ url = "flush"
  /\ lines' = Append(lines, [parts |-> line, woken |-> woken])
  /\ url' = "wait"
  /\ mutex' = "free"
  /\ UNCHANGED << cell, line, rest, woken, main_vars >>

(* fprintf and fflush have put the line into the file.                     *)
Flush ==
  /\ url = "flush"
  /\ lines' = Append(lines, [parts |-> line, woken |-> woken])
  /\ url' = "wait"
  /\ UNCHANGED << mutex, cell, line, rest, woken, main_vars >>

(* A socket call of the DHCP thread fails and ends the process: what       *)
(* fprintf has put into the file's buffer may still be written.            *)
Exit ==
  /\ main # "exited"
  /\ main' = "exited"
  /\ url' = "exited"
  /\ rest' \in IF url \in {"read", "flush"} THEN { << >>, line } ELSE { << >> }
  /\ UNCHANGED << mutex, sniff_vars, cell, line, lines, woken >>

MainStep == MainLocks \/ CreateUrlThread \/ CopyHead \/ CopyTail \/ Unlock \/ PrintUrl
UrlStep == OpenFile \/ Lock \/ FormatAddress \/ ReadPart \/ Flush
Next == MainStep \/ Capture \/ UrlStep \/ Exit

Spec == Init /\ [][Next]_vars

(* Both threads are scheduled; no frame has to arrive and no exit to come. *)
FairSpec == Spec /\ WF_vars(MainStep) /\ WF_vars(UrlStep)

-----------------------------------------------------------------------------

Line == [parts : [DOMAIN Parts -> Frame], woken : Frame]

(* Every variable has its type.                                            *)
TypeOK ==
  /\ main \in {"boot", "create", "capture", "head", "tail", "unlock", "print", "exited"}
  /\ url \in {"none", "open", "wait", "addr", "read", "flush", "gone", "exited"}
  /\ mutex \in {"free", "locked"}
  /\ lst_ip \in Frame
  /\ cell \in [head : Frame, tail : Frame, ip : Frame]
  /\ line \in Seq(Frame)
  /\ Len(line) <= Len(Parts)
  /\ lines \in Seq(Line)
  /\ rest \in Seq(Frame)
  /\ posted \in Frame
  /\ announced \subseteq Frame
  /\ woken \in Frame

(* No line is written for a URL that was never captured, and no part of a  *)
(* line is older than the URL it was woken for, although the url thread    *)
(* reads url_to_file and inet_ntoa's buffer while the sniffer writes both, *)
(* and although an exit may leave a line cut off at any point.             *)
LinesFresh ==
  /\ \A i \in DOMAIN lines :
       /\ lines[i].woken > 0
       /\ \A p \in DOMAIN Parts : lines[i].parts[p] >= lines[i].woken
  /\ rest # << >> => /\ main = "exited"
                     /\ \A i \in DOMAIN lines : lines[i].woken < woken
                     /\ \A p \in DOMAIN rest : rest[p] >= woken

(* No URL wakes the url thread twice, however the unlocks of a thread that *)
(* does not own the mutex fall between the locks of the one that does.     *)
OneLinePerWake ==
  \A i, j \in DOMAIN lines : i < j => lines[i].woken < lines[j].woken

(* Nobody has a step of a URL left to do: the sniffer is between frames    *)
(* and the url thread waits for the mutex.                                 *)
AtRest == main = "capture" /\ url = "wait" /\ mutex = "locked"

(* When both threads have come to rest the last URL is in the last line,   *)
(* whole: whatever was conflated or torn before it, the wake-up that the   *)
(* sniffer gives after copying it cannot be lost.                          *)
LastUrlSaved ==
  AtRest /\ posted > 0
  => /\ lines # << >>
     /\ \A p \in UrlParts : lines[Len(lines)].parts[p] = posted

(* Every URL announced is followed by a line at least as new as it, unless *)
(* the process exits or the url thread could not start.                    *)
UrlReachesFile ==
  \A u \in 1 .. MaxFrames :
    posted = u ~> \/ main = "exited" \/ url = "gone"
                  \/ \E i \in DOMAIN lines : lines[i].woken >= u

(* The mutex and the shared buffers implement a conflating mailbox.        *)
Mailbox == INSTANCE UrlMailbox WITH
  Parts <- DOMAIN Parts, seen <- lst_ip, taken <- woken
ImplementsMailbox == Mailbox!Spec

-----------------------------------------------------------------------------
(* What Application.c says of the mutex: it is "to be used for writing to  *)
(* the file that contains all urls".                                       *)

(* The file contains all URLs: when both threads are at rest, every URL    *)
(* the sniffer announced is in some line.                                  *)
AllUrlsSaved ==
  AtRest => \A u \in announced : \E i \in DOMAIN lines : \E p \in UrlParts :
              lines[i].parts[p] = u
==============================================================================
