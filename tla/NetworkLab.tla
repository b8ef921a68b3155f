------------------------------ MODULE NetworkLab -----------------------------
(***************************************************************************)
(* The program as a whole: main of Application.c with the threads it       *)
(* starts.  The main thread opens the capture device, starts the DHCP      *)
(* thread and the url thread and then sniffs; its parts share the globals  *)
(* that FrameSniffer, UrlHandoff and DhcpServer model one by one.          *)
(*                                                                         *)
(* The parts meet in three places: lst_ip, which the sniffer writes and    *)
(* the url thread reads; append_url_to_file, which the sniffer calls and   *)
(* which keeps it from the next frame until it returns; and exit(), with   *)
(* which a failing socket call of the DHCP thread ends all three.          *)
(***************************************************************************)
EXTENDS FrameSniffer

CONSTANTS Xids, my_ip, sub_addr, MsgTypes, InboxCap, MaxDatagrams   \* DhcpServer

VARIABLES
  dhcp,      \* the DHCP thread: "none" yet, "running", or "gone"
  dhcp_pc, inbox, i_hdr, cur_ip, ippool, is_valid, datagrams, replies, last,
  main, url, mutex, cell, line, lines, rest, posted, announced, woken

Dhcp == INSTANCE DhcpServer WITH pc <- dhcp_pc
Handoff == INSTANCE UrlHandoff     \* with the sniffer's lst_ip

dhcp_vars == << dhcp_pc, inbox, i_hdr, cur_ip, ippool, is_valid, datagrams,
                replies, last >>
frame_vars == << pc, device, eth_result, sent, store, failures, frame, log >>
hand_vars == << main, url, mutex, cell, line, lines, rest, posted, announced, woken >>
lab_vars == << dhcp, dhcp_vars, frame_vars, lst_ip, hand_vars >>

LabInit ==
  /\ dhcp = "none"
  /\ Dhcp!Init
  /\ Init
  /\ Handoff!Init

-----------------------------------------------------------------------------
(* The main thread                                                         *)

(* init: the capture device, whatever comes of it.                         *)
InitDevice ==
  /\ main = "boot"
  /\ eth_init
  /\ UNCHANGED << dhcp, dhcp_vars, hand_vars >>

(* main: create the DHCP thread; if that fails, go on without it.          *)
CreateDhcpThread ==
  /\ pc = "wait"
  /\ dhcp = "none"
  /\ dhcp' \in {"running", "gone"}
  /\ UNCHANGED << dhcp_vars, frame_vars, lst_ip, hand_vars >>

(* main: the mutex, then the url thread.                                   *)
MainLocks ==
  /\ dhcp # "none"
  /\ Handoff!MainLocks
  /\ UNCHANGED << dhcp, dhcp_vars, frame_vars >>

CreateUrlThread ==
  /\ Handoff!CreateUrlThread
  /\ UNCHANGED << dhcp, dhcp_vars, frame_vars >>

(* init_sniffer: wait for the next frame.                                  *)
WaitFrame ==
  /\ main = "capture"
  /\ wait_eth_frame
  /\ UNCHANGED << dhcp, dhcp_vars, hand_vars >>

Saves == log' # log /\ log'[Len(log')].saved

(* init_sniffer: inspect it, and hand its URL to append_url_to_file.       *)
InspectFrame ==
  /\ main = "capture"
  /\ Inspect
  /\ main' = IF Saves THEN "head" ELSE "capture"
  /\ UNCHANGED << dhcp, dhcp_vars, url, mutex, cell, line, lines, rest, posted,
                  announced, woken >>

(* append_url_to_file, before the next frame is waited for.                *)
AppendUrl ==
  /\ Handoff!CopyHead \/ Handoff!CopyTail \/ Handoff!Unlock \/ Handoff!PrintUrl
  /\ UNCHANGED << dhcp, dhcp_vars, frame_vars >>

MainThread == InitDevice \/ CreateDhcpThread \/ MainLocks \/ CreateUrlThread
              \/ WaitFrame \/ InspectFrame \/ AppendUrl

-----------------------------------------------------------------------------
(* The other threads and the networks                                      *)

UrlThread == Handoff!UrlStep /\ UNCHANGED << dhcp, dhcp_vars, frame_vars >>

DhcpThread ==
  /\ dhcp = "running"
  /\ Dhcp!Server
  /\ UNCHANGED << dhcp, frame_vars, lst_ip, hand_vars >>

(* A socket call of the DHCP thread fails: exit(EXIT_FAILURE), wherever    *)
(* the other two threads are.  (They may run on until the process is gone; *)
(* what they do till then comes before this step.)                         *)
Exit ==
  /\ dhcp = "running"
  /\ Dhcp!Exit
  /\ Handoff!Exit
  /\ UNCHANGED << dhcp, frame_vars >>

Environment ==
  \/ /\ main # "exited"
     /\ \E f \in Traffic : Arrive(f)
     /\ UNCHANGED << dhcp, dhcp_vars, hand_vars >>
  \/ /\ main # "exited"
     /\ dhcp = "running"
     /\ Dhcp!Environment
     /\ UNCHANGED << dhcp, frame_vars, lst_ip, hand_vars >>

LabNext == MainThread \/ UrlThread \/ DhcpThread \/ Exit \/ Environment

LabSpec == LabInit /\ [][LabNext]_lab_vars

(* All three threads are scheduled; nothing has to arrive or to fail.      *)
LabFairSpec ==
  /\ LabSpec
  /\ WF_lab_vars(MainThread) /\ WF_lab_vars(UrlThread) /\ WF_lab_vars(DhcpThread)

-----------------------------------------------------------------------------

Saved == { i \in DOMAIN log : log[i].saved }

(* Every URL in the file, or in a line that an exit cut off, is that of a  *)
(* frame which the parser announced and which, with the header right       *)
(* behind it, held a request; and every address is that of an IP frame,    *)
(* although the url thread reads both from variables that the sniffer goes *)
(* on writing.                                                             *)
OnlyRequestsInFile ==
  LET Announced(n) == \E i \in Saved : log[i].of = n /\ ~NoRequest(Continued(log[i]))
      Holds(parts) ==
        \A p \in DOMAIN parts :
          IF p \in Handoff!UrlParts THEN Announced(parts[p])
          ELSE parts[p] \in DOMAIN sent /\ sent[parts[p]].kind # "other"
  IN  (\A i \in DOMAIN lines : Holds(lines[i].parts)) /\ Holds(rest)

(* Between two frames, when the url thread waits for the mutex, the last   *)
(* line of the file holds the last URL that the parser announced: across   *)
(* the reused frame buffer, url_to_file and the mutex the latest request   *)
(* is never the one that is lost.                                          *)
LatestRequestSaved ==
  Handoff!AtRest =>
    \A i \in Saved :
      (\A j \in Saved : j <= i)
      => /\ lines # << >>
         /\ \A p \in Handoff!UrlParts : lines[Len(lines)].parts[p] = log[i].of

(* Whatever the sniffer, the DHCP thread and the device do, the main       *)
(* thread as the url thread sees it is that of UrlHandoff.                 *)
ImplementsHandoff == Handoff!Spec

(* A whole request that waits first in the kernel's buffer is followed by  *)
(* a line at least as new, unless the process exits, the url thread could  *)
(* not start or the parser leaves its buffer.                              *)
RequestReachesFile ==
  \A n \in 1 .. MaxFrames :
    store # << >> /\ Head(store) = n /\ WholeRequest(sent[n])
    ~> \/ main = "exited" \/ url = "gone" \/ pc = "astray"
       \/ \E i \in DOMAIN lines : lines[i].woken >= n
==============================================================================
