----------------------------- MODULE TextReceiver ----------------------------
(***************************************************************************)
(* The two small senders and receivers of text beside the program: the UDP *)
(* example (udp_client.c, udp_server.c) and the raw Ethernet example the   *)
(* course handed out (sender.c, receptor.c).                               *)
(*                                                                         *)
(* Both receivers read into one buffer for ever and print it with "%s", so *)
(* what they print ends at the first NUL, wherever that comes from.  The   *)
(* raw sender sends the NUL of its text along, the UDP client does not.    *)
(* The raw receiver sees every frame of the link and prints those of its   *)
(* own type.                                                               *)
(***************************************************************************)
EXTENDS Integers, Sequences

CONSTANTS
  Size,       \* bytes of the buffer that hold text
  MaxInput,   \* bound: characters of a text a user enters
  MaxSent     \* bound: texts and other frames sent

ASSUME ReceiverAssumption ==
  /\ Size \in Nat \ {0}
  /\ MaxInput \in Nat
  /\ MaxSent \in Nat

VARIABLES
  link,       \* which of the two pairs runs: "udp" or "raw"
  net,        \* what is on its way: [id, len, ours]
  sent,       \* how much was sent
  buffer,     \* the receiver's: what each cell holds and who wrote it
  covers,     \* history: how many cells each reception wrote
  printed,    \* history: the lines printed
  receiver    \* "waiting" or "exited"

vars == << link, net, sent, buffer, covers, printed, receiver >>

Cells == 1 .. Size
Cell(sym, n) == [sym |-> sym, of |-> n]
(* Slip: a reception counts as long as the text it was sent.               *)
Bounded_Sent(n) == n

(* How much of n characters fits.                                          *)
Bounded(n) == IF n < Size THEN n ELSE Size

(* The buffer is on the stack and never cleared.                           *)
Init ==
  /\ link \in {"udp", "raw"}
  /\ net = {}
  /\ sent = 0
  /\ buffer \in [Cells -> { Cell(s, 0) : s \in {"char", "NUL"} }]
  /\ covers = << >>
  /\ printed = << >>
  /\ receiver = "waiting"

(* The longest text the sender takes: udp_client refuses more than ECHOMAX *)
(* characters, which is the server's buffer; the raw sender's own buffer   *)
(* is smaller than the receiver's.  (scanf does not keep it to that.)      *)
LongestText == IF link = "udp" THEN Size ELSE Size - 1

(* main of either sender: one text, if it is not too long.  (For an empty  *)
(* line the raw sender reads nothing and sends what its stack holds: a     *)
(* text of some length all the same.)                                      *)
Send(len) ==
  /\ sent < MaxSent
  /\ len <= LongestText
  /\ net' = net \union {[id |-> sent + 1, len |-> len, ours |-> TRUE]}
  /\ sent' = sent + 1
  /\ UNCHANGED << link, buffer, covers, printed, receiver >>

(* Other traffic of the link, which only the raw receiver gets.            *)
SendOther(len) ==
  /\ link = "raw"
  /\ sent < MaxSent
  /\ net' = net \union {[id |-> sent + 1, len |-> len, ours |-> FALSE]}
  /\ sent' = sent + 1
  /\ UNCHANGED << link, buffer, covers, printed, receiver >>

(* The networks lose, and deliver in any order.                            *)
Lose(m) ==
  /\ net' = net \ {m}
  /\ UNCHANGED << link, sent, buffer, covers, printed, receiver >>

(* Slip: the raw sender leaves the NUL of its text out too.                *)
Text_NoEnd(m) == [i \in 1 .. m.len |-> "char"]

(* The text that is sent: strlen of it, and the NUL from the raw sender.   *)
(* (Frames are padded with more NULs, behind that one.)                    *)
Text(m) ==
  [i \in 1 .. m.len + (IF link = "raw" /\ m.ours THEN 1 ELSE 0) |->
     IF i <= m.len THEN "char" ELSE "NUL"]

(* Slip: the text is put behind the one before it.                         *)
Overlaid_Behind(m) ==
  LET n == Len(covers) + 1
      at == IF covers = << >> THEN 0 ELSE covers[Len(covers)]
  IN  [k \in Cells |-> IF k > at /\ k - at <= Len(Text(m)) THEN Cell(Text(m)[k - at], n)
                       ELSE buffer[k]]

(* recvfrom, recv: the start of the buffer is overwritten, what does not   *)
(* fit is dropped, and the rest of the buffer stays.                       *)
Overlaid(m) ==
  [k \in Cells |-> IF k <= Len(Text(m)) THEN Cell(Text(m)[k], Len(covers) + 1) ELSE buffer[k]]

(* Slip: every frame of the link is printed.                               *)
Shown_All(m) == TRUE

(* receptor.c prints frames of its own type; udp_server.c all it gets.     *)
Shown(m) == link = "udp" \/ m.ours

(* printf("%s"): the cells before the first NUL; without one in the buffer *)
(* it goes on behind it.                                                   *)
Line(b) ==
  LET ends == { k \in Cells : b[k].sym = "NUL" }
      last == IF ends = {} THEN Size ELSE (CHOOSE k \in ends : \A j \in ends : k <= j) - 1
  IN  [text |-> [k \in 1 .. last |-> b[k]], strays |-> ends = {}]

(* One turn of the receiver's loop.                                        *)
Receive(m) ==
  /\ receiver = "waiting"
  /\ net' = net \ {m}
  /\ buffer' = Overlaid(m)
  /\ covers' = Append(covers, Bounded(Len(Text(m))))
  /\ printed' = IF Shown(m)
                THEN Append(printed, [of |-> Len(covers'), len |-> m.len, ours |-> m.ours,
                                      line |-> Line(buffer')])
                ELSE printed
  /\ UNCHANGED << link, sent, receiver >>

(* recvfrom or recv fails.                                                 *)
ReceiveFails ==
  /\ receiver = "waiting"
  /\ receiver' = "exited"
  /\ UNCHANGED << link, net, sent, buffer, covers, printed >>

Next ==
  \/ \E len \in 0 .. MaxInput : Send(len) \/ SendOther(len)
  \/ \E m \in net : Lose(m) \/ Receive(m)
  \/ ReceiveFails

Spec == Init /\ [][Next]_vars

-----------------------------------------------------------------------------

Messages == [id : Nat, len : Nat, ours : BOOLEAN]
Contents == [sym : {"char", "NUL"}, of : Nat]
Lines == [of : Nat, len : Nat, ours : BOOLEAN,
          line : [text : Seq(Contents), strays : BOOLEAN]]

(* Every variable has its type.                                            *)
TypeOK ==
  /\ link \in {"udp", "raw"}
  /\ net \subseteq Messages
  /\ sent \in 0 .. MaxSent
  /\ buffer \in [Cells -> Contents]
  /\ covers \in Seq(0 .. Size)
  /\ printed \in Seq(Lines)
  /\ receiver \in {"waiting", "exited"}

(* Reception r is the last of the first n that wrote cell k; 0 is none.    *)
LastToWrite(k, n, r) ==
  /\ r = 0 \/ covers[r] >= k
  /\ \A q \in r + 1 .. n : covers[q] < k

(* What is printed is, cell by cell, what the latest text that reached so  *)
(* far left there: the text just received comes first and whole, and what  *)
(* follows it are the ends of ever older, ever longer ones.                *)
LineIsLatestTexts ==
  \A i \in DOMAIN printed :
    LET p == printed[i]
    IN  /\ \A k \in DOMAIN p.line.text : LastToWrite(k, p.of, p.line.text[k].of)
        /\ Bounded(p.len) <= Len(p.line.text)

(* What the raw receiver prints is the text that was sent, no more and no  *)
(* less, whatever other frames of the link have left in the buffer or the  *)
(* stack held before.                                                      *)
RawPrintsTheText ==
  link = "raw" =>
    \A i \in DOMAIN printed :
      /\ ~printed[i].line.strays
      /\ Len(printed[i].line.text) = printed[i].len
      /\ printed[i].ours
==============================================================================
