----------------------------- MODULE FrameSniffer ----------------------------
(***************************************************************************)
(* The main thread's capture loop: eth_init and wait_eth_frame             *)
(* (ethernet.c), init_sniffer (Application.c) and set_addr_from_get_buf    *)
(* (http.c).                                                               *)
(*                                                                         *)
(* Every frame is copied over the one before in a single buffer, so what   *)
(* the parser finds depends on the frame, on the bytes the copy brings     *)
(* along after it, and on what earlier frames left behind.  The buffer is  *)
(* a row of cells, each the piece of text that the parser tells apart and  *)
(* the number of the frame it came from, 0 for bytes of no frame.  A       *)
(* parser that leaves the buffer is "astray": what it finds there is not   *)
(* modelled.                                                               *)
(***************************************************************************)
EXTENDS Integers, Sequences, FiniteSetsExt, SequencesExt

CONSTANTS
  Traffic,       \* the frames in play: [kind, text]
  Headers,       \* what may lie between the texts of two packets of a read
  TextCap,       \* cells of text in a frame of maximal size
  MaxFrames,     \* bound: frames the interface delivers
  StoreCap,      \* packets the kernel's buffer holds
  MaxFailures    \* bound: reads that fail although the device is bound

Kinds == { "http",       \* TCP to port 80
           "dns_query",  \* UDP to port 53, a query
           "ip",         \* any other IP frame
           "other" }     \* not IP

(* Pieces of text: NUL, space, end of line, slash, the word "Host:", the   *)
(* length byte of a DNS name's label, and any other character.             *)
LabelLength == [len1 |-> 1, len2 |-> 2]
Symbols == { "NUL", "sp", "nl", "/", "Host:", "char", "." } \union DOMAIN LabelLength

(* Between two texts of a read lie padding, the header of the packet       *)
(* filter, which starts with a time, and the headers of the next frame:    *)
(* bytes of any value, but at least one that is zero, because the time's   *)
(* microseconds leave the last of their bytes unused.                      *)
ASSUME SnifferAssumption ==
  /\ \A f \in Traffic :
       /\ f.kind \in Kinds
       /\ f.text \in Seq(Symbols \ {"."})
       /\ Len(f.text) <= TextCap
  /\ \A h \in Headers :
       /\ h \in Seq(Symbols \ {"."})
       /\ \E k \in DOMAIN h : h[k] = "NUL"
  /\ TextCap \in Nat
  /\ MaxFrames \in Nat
  /\ StoreCap \in Nat \ {0}
  /\ MaxFailures \in Nat

VARIABLES
  pc,            \* "init", "wait", "inspect" or "astray"
  device,        \* what the descriptor bpf refers to, and _buf_size
  eth_result,    \* what eth_init returned, which init() ignores
  sent,          \* history: the frames delivered, in order
  store,         \* the numbers of those that wait in the kernel
  failures,      \* how many reads failed
  frame,         \* the buffer: number, kind and text of the latest frame,
                 \* and (history) the header read after it, up to a NUL
  lst_ip,        \* source of the last IP frame, as the frame's number
  log            \* history: the frames inspected, with the URL announced

vars == << pc, device, eth_result, sent, store, failures, frame, lst_ip, log >>
kernel_vars == << sent, store, failures >>

Cells == 1 .. TextCap + 1
Cell(sym, n) == [sym |-> sym, of |-> n]
NoUrl == << >>
Nul == Cell("NUL", 0)
EmptyFrame == [of |-> 0, kind |-> "other", text |-> [i \in Cells |-> Nul],
               after |-> << >>]

Init ==
  /\ pc = "init"
  /\ device = "none"
  /\ eth_result = 0
  /\ sent = << >>
  /\ store = << >>
  /\ failures = 0
  /\ frame = EmptyFrame
  /\ lst_ip = 0
  /\ log = << >>

-----------------------------------------------------------------------------
(* ethernet.c                                                              *)

(* eth_init: no interface was found; no device opened; binding failed,     *)
(* which the test for a positive result lets pass; a later request failed; *)
(* or all is well.                                                         *)
eth_init ==
  /\ pc = "init"
  /\ \/ device' \in {"stdin", "none", "unsized"} /\ eth_result' = -1
     \/ device' \in {"unbound", "bound"} /\ eth_result' = 0
  /\ pc' = "wait"
  /\ UNCHANGED << kernel_vars, frame, lst_ip, log >>

(* A frame passes the interface.  The kernel drops it when its buffer is   *)
(* full.                                                                   *)
Arrive(f) ==
  /\ device = "bound"
  /\ Len(sent) < MaxFrames
  /\ sent' = Append(sent, f)
  /\ store' = IF Len(store) < StoreCap THEN Append(store, Len(sent')) ELSE store
  /\ UNCHANGED << pc, device, eth_result, failures, frame, lst_ip, log >>

TextOf(n) == [i \in DOMAIN sent[n].text |-> Cell(sent[n].text[i], n)]
HeaderOf(h) == [i \in DOMAIN h |-> Cell(h[i], 0)]

(* What a read of packets ns puts after the header of the first: its text, *)
(* then for each other packet what lies before its text, and its text.     *)
Packets(ns, hs) ==
  TextOf(ns[1])
  \o FlattenSeq([i \in 1 .. Len(ns) - 1 |-> HeaderOf(hs[i]) \o TextOf(ns[i + 1])])

(* The start of the first of some headers, to which a string that is not   *)
(* ended by the text runs on.                                              *)
After(hs) ==
  IF Len(hs) = 0 THEN << >>
  ELSE SubSeq(hs[1], 1, Min({ k \in DOMAIN hs[1] : hs[1][k] = "NUL" }) - 1)

(* Slip: only what was captured is copied.                                 *)
Copied_CapLen(ns, hs) == TextOf(ns[1])

(* The copy is as long as the read, but starts after the first header, so  *)
(* it takes zeros of the cleared buffer along at its end.                  *)
Copied(ns, hs) == Append(Packets(ns, hs), Nul)

(* Slip: the copy is not limited to the buffer.                            *)
Overlaid_Unlimited(new) == new \o SubSeq(frame.text, Len(new) + 1, TextCap + 1)

(* What is copied covers the start of the buffer; the rest of it stays.    *)
Overlaid(new) ==
  SubSeq(new \o SubSeq(frame.text, Len(new) + 1, TextCap + 1), 1, TextCap + 1)

(* Slip: the last packet of a read is taken.                               *)
Taken_Last(n) == n

(* Which of n packets is taken; the others are not looked at.              *)
Taken(n) == 1

(* wait_eth_frame: one read returns any number of the packets that wait.   *)
ReadPackets ==
  /\ pc = "wait"
  /\ device = "bound"
  /\ \E n \in 1 .. Len(store) : \E hs \in [1 .. n - Taken(n) -> Headers] :
       /\ frame' = [of |-> store[Taken(n)], kind |-> sent[store[Taken(n)]].kind,
                    text |-> Overlaid(Copied(SubSeq(store, Taken(n), n), hs)),
                    after |-> After(hs)]
       /\ store' = SubSeq(store, n + 1, Len(store))
  /\ pc' = "inspect"
  /\ UNCHANGED << device, eth_result, sent, failures, lst_ip, log >>

(* Slip: a failed read leaves the buffer as it was.                        *)
FailedRead_Keeps == frame

(* The count -1, as a size_t, is more than any frame: the cleared read     *)
(* buffer is copied, all of it.                                            *)
FailedRead == EmptyFrame

(* wait_eth_frame: the read returns -1.                                    *)
ReadFails ==
  /\ pc = "wait"
  /\ \/ device = "bound" /\ failures < MaxFailures /\ failures' = failures + 1
     \/ device = "unbound" /\ UNCHANGED failures
  /\ frame' = FailedRead
  /\ pc' = "inspect"
  /\ UNCHANGED << device, eth_result, sent, store, lst_ip, log >>

(* wait_eth_frame after an eth_init that found no interface: zero bytes    *)
(* are read from descriptor 0 and the buffer stays as it is.               *)
ReadNothing ==
  /\ pc = "wait"
  /\ device = "stdin"
  /\ pc' = "inspect"
  /\ UNCHANGED << device, eth_result, kernel_vars, frame, lst_ip, log >>

(* wait_eth_frame after an eth_init that did not get to the buffer's size: *)
(* the read fails and what is copied was never written.                    *)
ReadUnsized ==
  /\ pc = "wait"
  /\ device \in {"none", "unsized"}
  /\ pc' = "astray"
  /\ UNCHANGED << device, eth_result, kernel_vars, frame, lst_ip, log >>

-----------------------------------------------------------------------------
(* http.c and the name of a DNS query                                      *)

Beyond == TextCap + 2

(* The first cell from i on that holds one of some symbols.                *)
First(syms, i) ==
  Min({ k \in Cells : k >= i /\ frame.text[k].sym \in syms } \union {Beyond})
NoNul(i, j) == \A k \in i .. j : frame.text[k].sym # "NUL"
Between(i, j) == SubSeq(frame.text, i, j - 1)

(* strstr(buffer, "Host: ") + 6 and strstr(buffer, "/"), Beyond if they    *)
(* are not found.                                                          *)
HostAt ==
  Min({ k + 2 : k \in { k \in 1 .. TextCap : /\ frame.text[k].sym = "Host:"
                                            /\ frame.text[k + 1].sym = "sp"
                                            /\ NoNul(1, k) } } \union {Beyond})
SlashAt ==
  Min({ k \in Cells : frame.text[k].sym = "/" /\ NoNul(1, k) } \union {Beyond})

(* Slip: both scans look for a space.                                      *)
Strays_Space(host, path) ==
  IF Beyond \in {host, path}
  THEN NoNul(1, TextCap + 1)
  ELSE Beyond \in {First({"sp"}, host), First({"sp"}, path)}

(* A search that finds nothing, in a buffer that no NUL ends; or a scan    *)
(* for the end of the host name or of the path that does not find it.      *)
Strays(host, path) ==
  IF Beyond \in {host, path}
  THEN NoNul(1, TextCap + 1)
  ELSE Beyond \in {First({"nl"}, host), First({"sp"}, path)}

(* Slip: the path is taken to end with its line.                           *)
Scanned_ToLineEnd(host, path) ==
  Between(host, First({"nl"}, host)) \o Between(path, First({"nl"}, path))

(* The host name to the end of its line, then the path to the next space.  *)
Scanned(host, path) ==
  Between(host, First({"nl"}, host)) \o Between(path, First({"sp"}, path))

(* Slip: the URL is as long as what was scanned.                           *)
HttpUrl_ByLength(host, path) ==
  IF Beyond \in {host, path} THEN NoUrl ELSE Scanned(host, path)

(* set_addr_from_get_buf: the URL, a C string, which ends at a NUL.        *)
HttpUrl(host, path) ==
  IF Beyond \in {host, path} THEN NoUrl
  ELSE LET cells == Scanned(host, path)
           end == SelectInSeq(cells, LAMBDA c : c.sym = "NUL")
       IN  IF end = 0 THEN cells ELSE SubSeq(cells, 1, end - 1)

(* The labels of a name joined by dots, cell by cell: a length byte after  *)
(* the first becomes the dot before its label.                             *)
DnsUrl ==
  LET n == First({"NUL"}, 1) - 1
  IN  [k \in 1 .. n - 1 |->
         IF frame.text[k + 1].sym \in DOMAIN LabelLength
         THEN Cell(".", frame.text[k + 1].of) ELSE frame.text[k + 1]]

-----------------------------------------------------------------------------
(* Application.c: init_sniffer                                             *)

(* What the branch of a frame's protocol finds, and whether it calls       *)
(* append_url_to_file.                                                     *)
Inspected(url, saved) ==
  log' = IF frame.of = 0 THEN log
         ELSE Append(log, [of |-> frame.of, after |-> frame.after,
                           url |-> url, saved |-> saved])

InspectHttp ==
  /\ pc = "inspect"
  /\ frame.kind = "http"
  /\ lst_ip' = frame.of
  /\ \E host \in {HostAt}, path \in {SlashAt} :
       \/ Strays(host, path) /\ pc' = "astray" /\ UNCHANGED log
       \/ /\ ~Strays(host, path)
          /\ pc' = "wait"
          /\ Inspected(HttpUrl(host, path), Beyond \notin {host, path})
  /\ UNCHANGED << device, eth_result, kernel_vars, frame >>

(* The root's name is empty: its last character, which is cleared, is the  *)
(* byte before the array, which may spoil anything or nothing.  In a name  *)
(* that its frame cuts off, the bytes behind it are taken for lengths, and *)
(* the walk may leave the buffer.                                          *)
InspectDns ==
  /\ pc = "inspect"
  /\ frame.kind = "dns_query"
  /\ lst_ip' = frame.of
  /\ LET nul == First({"NUL"}, 1)
     IN  \/ /\ nul \in {1, Beyond} \/ frame.text[nul].of # frame.of
            /\ pc' = "astray"
            /\ UNCHANGED log
         \/ nul # Beyond /\ pc' = "wait" /\ Inspected(DnsUrl, TRUE)
  /\ UNCHANGED << device, eth_result, kernel_vars, frame >>

(* Other IP frames leave their source behind, other frames nothing.        *)
InspectOther ==
  /\ pc = "inspect"
  /\ frame.kind \in {"ip", "other"}
  /\ lst_ip' = IF frame.kind = "ip" THEN frame.of ELSE lst_ip
  /\ Inspected(NoUrl, FALSE)
  /\ pc' = "wait"
  /\ UNCHANGED << device, eth_result, kernel_vars, frame >>

wait_eth_frame == ReadPackets \/ ReadFails \/ ReadNothing \/ ReadUnsized
Inspect == InspectHttp \/ InspectDns \/ InspectOther
Sniff == eth_init \/ wait_eth_frame \/ Inspect
Next == Sniff \/ \E f \in Traffic : Arrive(f)

Spec == Init /\ [][Next]_vars

(* The main thread is never blocked but in read.                           *)
FairSpec == Spec /\ WF_vars(Sniff)

-----------------------------------------------------------------------------

(* The Host line of a text, and what ends a part of it.                    *)
HasWord(t, i) == i + 1 <= Len(t) /\ t[i] = "Host:" /\ t[i + 1] = "sp"
Closed(t, i, sym) == \E j \in i .. Len(t) : t[j] = sym

(* A request that lies in one frame: text, with a path that a space ends,  *)
(* and a host name that a line end ends.                                   *)
WholeRequest(f) ==
  /\ f.kind = "http"
  /\ \A i \in DOMAIN f.text : f.text[i] # "NUL"
  /\ \E i \in DOMAIN f.text : f.text[i] = "/"
  /\ \E i \in DOMAIN f.text : HasWord(f.text, i)
  /\ \A i \in DOMAIN f.text : f.text[i] = "/" => Closed(f.text, i, "sp")
  /\ \A i \in DOMAIN f.text : HasWord(f.text, i) => Closed(f.text, i, "nl")

(* The frame of a log entry with the start of the header read behind it.   *)
Continued(e) == [kind |-> sent[e.of].kind, text |-> sent[e.of].text \o e.after]

(* A frame in which no request could be found.                             *)
NoRequest(f) ==
  \/ f.kind \notin {"http", "dns_query"}
  \/ f.kind = "http" /\ ~\E i \in DOMAIN f.text : HasWord(f.text, i)
  \/ f.kind = "http" /\ ~\E i \in DOMAIN f.text : f.text[i] = "/"

(* The URL of a request, stated on the frame alone.                        *)
UrlOf(t, n) ==
  LET host == Min({ i \in DOMAIN t : HasWord(t, i) }) + 2
      path == Min({ i \in DOMAIN t : t[i] = "/" })
      UpTo(i, sym) == SubSeq(t, i, Min({ j \in i .. Len(t) : t[j] = sym }) - 1)
      url == UpTo(host, "nl") \o UpTo(path, "sp")
  IN  [k \in DOMAIN url |-> Cell(url[k], n)]

Frames == 0 .. MaxFrames

(* Every variable has its type.                                            *)
TypeOK ==
  /\ pc \in {"init", "wait", "inspect", "astray"}
  /\ device \in {"none", "stdin", "unsized", "unbound", "bound"}
  /\ eth_result \in {0, -1}
  /\ sent \in Seq(Traffic)
  /\ store \in Seq(Frames) /\ Len(store) <= StoreCap
  /\ failures \in 0 .. MaxFailures
  /\ frame.of \in Frames /\ frame.kind \in Kinds
  /\ frame.text \in [Cells -> [sym : Symbols, of : Frames]]
  /\ frame.after \in Seq(Symbols)
  /\ lst_ip \in Frames
  /\ \A i \in DOMAIN log : /\ log[i].of \in DOMAIN sent
                            /\ log[i].saved \in BOOLEAN
                            /\ Len(log[i].url) <= 2 * TextCap

(* The URL announced for a request that lies in one frame is the host and  *)
(* path of that request, character by character of that frame, whatever    *)
(* packets were read with it and whatever earlier frames left behind.      *)
RequestGivesItsUrl ==
  \A i \in DOMAIN log :
    WholeRequest(sent[log[i].of]) =>
      log[i].saved /\ log[i].url = UrlOf(sent[log[i].of].text, log[i].of)

(* A frame without a request announces no URL, although the buffer holds   *)
(* what is left of earlier requests and perhaps a later one.  Only the     *)
(* header right behind it, up to its first NUL, can complete a request.    *)
NothingGivesNoUrl ==
  \A i \in DOMAIN log : NoRequest(Continued(log[i])) => ~log[i].saved

(* Also of a request that its frame cuts off, and of any other, a URL has  *)
(* no piece of another frame: what the scans run over behind the first NUL *)
(* is not announced.                                                       *)
UrlIsOfItsFrame ==
  \A i \in DOMAIN log : \A k \in 1 .. Len(log[i].url) :
    log[i].url[k].of \in {log[i].of, 0}

(* No frame is inspected twice or out of order, whatever reads fail.       *)
FramesInOrder ==
  \A i, j \in DOMAIN log : i < j => log[i].of < log[j].of

(* On a bound device the parser leaves its buffer only for a request that  *)
(* the frame cuts off (and if nothing completes it, only when text and     *)
(* header fill the buffer), or for a query whose name is empty or cut off. *)
StraysOnlyWhenCut ==
  device = "bound" /\ pc = "astray" =>
    LET f == sent[frame.of]
        whole == f.text \o frame.after
    IN  \/ /\ f.kind = "http" /\ ~WholeRequest(f)
           /\ NoRequest([kind |-> f.kind, text |-> whole]) => Len(whole) > TextCap
        \/ f.kind = "dns_query" /\ (~Closed(f.text, 1, "NUL") \/ f.text[1] = "NUL")

(* The first packet that waits is inspected in the end, unless the parser  *)
(* has left its buffer.                                                    *)
FirstIsInspected ==
  \A n \in 1 .. MaxFrames :
    store # << >> /\ Head(store) = n
    ~> (pc = "astray" \/ \E i \in DOMAIN log : log[i].of = n)

-----------------------------------------------------------------------------
(* What ethernet.h says and the code does not do.                          *)

(* ethernet.h: wait_eth_frame in a loop is "so that all ethernet frmaes    *)
(* are captured" -- between two frames, each that the kernel handed over   *)
(* has been inspected.                                                     *)
AllFramesCaptured ==
  pc = "wait" /\ failures = 0 /\ store = << >> /\ Len(sent) <= StoreCap =>
    \A n \in DOMAIN sent : \E i \in DOMAIN log : log[i].of = n
==============================================================================
