------------------------- MODULE TextReceiver_proofs -------------------------
(* Proofs about the text receivers, for any size of the buffer, any length *)
(* of texts and any number of them.                                        *)
EXTENDS TextReceiver, Lemmas

(* What is on its way was taken by a sender, and the UDP server gets only  *)
(* that.  The receiver waits for it until it exits.                        *)
NetInv ==
  /\ link \in {"udp", "raw"}
  /\ sent \in 0 .. MaxSent
  /\ receiver \in {"waiting", "exited"}
  /\ \A m \in net : /\ m \in Messages
                    /\ m.ours => m.len <= LongestText
                    /\ link = "udp" => m.ours

(* Each cell holds what the last reception to reach it left there.         *)
BufferInv ==
  /\ covers \in Seq(0 .. Size)
  /\ buffer \in [Cells -> Contents]
  /\ \A k \in Cells : /\ buffer[k].of <= Len(covers)
                      /\ LastToWrite(k, Len(covers), buffer[k].of)

(* One line as the two properties want it, given what was received.        *)
LineRight(p, cs) ==
  /\ p.of \in 0 .. Len(cs)
  /\ \A k \in DOMAIN p.line.text :
       /\ p.line.text[k].of = 0 \/ cs[p.line.text[k].of] >= k
       /\ \A q \in p.line.text[k].of + 1 .. p.of : cs[q] < k
       /\ p.line.text[k].of \in 0 .. p.of
  /\ Bounded(p.len) <= Len(p.line.text)
  /\ link = "raw" => ~p.line.strays /\ Len(p.line.text) = p.len /\ p.ours

PrintedInv ==
  /\ printed \in Seq(Lines)
  /\ \A i \in DOMAIN printed : LineRight(printed[i], covers)

IInv == NetInv /\ BufferInv /\ PrintedInv

(* What printf shows of a buffer whose first n cells hold characters.      *)
LEMMA LineFacts ==
  ASSUME NEW b \in [Cells -> Contents], NEW n \in 0 .. Size,
         \A k \in 1 .. n : b[k].sym = "char"
  PROVE  /\ Line(b) \in [text : Seq(Contents), strays : BOOLEAN]
         /\ Len(Line(b).text) \in n .. Size
         /\ DOMAIN Line(b).text = 1 .. Len(Line(b).text)
         /\ \A k \in DOMAIN Line(b).text : k \in Cells /\ Line(b).text[k] = b[k]
         /\ n + 1 \in Cells /\ b[n + 1].sym = "NUL"
              => ~Line(b).strays /\ Len(Line(b).text) = n
<1> DEFINE ends == { k \in Cells : b[k].sym = "NUL" }
           last == IF ends = {} THEN Size
                   ELSE (CHOOSE k \in ends : \A j \in ends : k <= j) - 1
<1>1. Line(b) = [text |-> [k \in 1 .. last |-> b[k]], strays |-> ends = {}]
  BY DEF Line
<1>2. Size \in Nat /\ \A k \in Cells : k \in Nat /\ k <= Size
  BY ReceiverAssumption DEF Cells
<1>3. \A k \in ends : k > n
  BY <1>2 DEF Cells
<1>4. last \in n .. Size /\ (n + 1 \in ends => last = n)
  <2>1. CASE ends = {}
    BY <1>2, <2>1
  <2>2. CASE ends # {}
    <3>1. \E k \in ends : \A j \in ends : k <= j
      BY <1>2, <2>2, LeastOf
    <3>2. DEFINE e == CHOOSE k \in ends : \A j \in ends : k <= j
    <3>3. e \in ends /\ \A j \in ends : e <= j
      BY <3>1
    <3>4. last = e - 1
      BY <2>2
    <3> HIDE DEF e, last
    <3> QED
      BY <1>2, <1>3, <3>3, <3>4
  <2> QED
    BY <2>1, <2>2
<1> HIDE DEF last
<1>5. 1 .. last \subseteq Cells
  BY <1>2, <1>4 DEF Cells
<1>6. [k \in 1 .. last |-> b[k]] \in [1 .. last -> Contents]
  BY <1>5
<1>7. /\ [k \in 1 .. last |-> b[k]] \in Seq(Contents)
      /\ Len([k \in 1 .. last |-> b[k]]) = last
  <2>1. last \in Nat
    BY <1>4
  <2> QED
    BY <1>6, <2>1, SeqDef, LenProperties
<1>8. DOMAIN Line(b).text = 1 .. last /\ Line(b).strays = (ends = {})
  BY <1>1
<1>9. \A k \in 1 .. last : Line(b).text[k] = b[k]
  BY <1>1
<1>10. Line(b) \in [text : Seq(Contents), strays : BOOLEAN] /\ Len(Line(b).text) = last
  <2>1. Line(b).text = [k \in 1 .. last |-> b[k]]
    BY <1>1
  <2>2. Line(b).text \in Seq(Contents) /\ Len(Line(b).text) = last
    BY <1>7, <2>1
  <2>3. \A x \in Seq(Contents), y \in BOOLEAN :
          [text |-> x, strays |-> y] \in [text : Seq(Contents), strays : BOOLEAN]
    OBVIOUS
  <2>4. [text |-> [k \in 1 .. last |-> b[k]], strays |-> ends = {}]
          \in [text : Seq(Contents), strays : BOOLEAN]
    BY <1>7, <2>3
  <2> QED
    BY <1>1, <2>2, <2>4
<1>11. n + 1 \in Cells /\ b[n + 1].sym = "NUL" => n + 1 \in ends /\ ends # {}
  OBVIOUS
<1> HIDE DEF ends
<1> QED
  BY <1>4, <1>5, <1>8, <1>9, <1>10, <1>11

(* What a reception leaves in the buffer.                                  *)
LEMMA OverlaidFacts ==
  ASSUME NetInv, BufferInv, NEW m \in net
  PROVE  LET n == Bounded(Len(Text(m)))
         IN  /\ n \in 0 .. Size /\ Bounded(m.len) \in 0 .. Size
             /\ Overlaid(m) \in [Cells -> Contents]
             /\ \A k \in Cells :
                  Overlaid(m)[k].of = IF k <= n THEN Len(covers) + 1 ELSE buffer[k].of
             /\ \A k \in 1 .. Bounded(m.len) : Overlaid(m)[k].sym = "char"
             /\ link = "raw" /\ m.ours
                  => /\ m.len + 1 \in Cells /\ Overlaid(m)[m.len + 1].sym = "NUL"
                     /\ Bounded(m.len) = m.len
<1> DEFINE t == m.len + (IF link = "raw" /\ m.ours THEN 1 ELSE 0)
<1>1. m.len \in Nat /\ t \in Nat /\ t >= m.len /\ Size \in Nat
  BY ReceiverAssumption DEF NetInv, Messages
<1>2. Text(m) = [i \in 1 .. t |-> IF i <= m.len THEN "char" ELSE "NUL"]
  BY DEF Text
<1>3. Len(Text(m)) = t
  BY <1>1, <1>2
<1>4. \A i \in 1 .. t : Text(m)[i] = IF i <= m.len THEN "char" ELSE "NUL"
  BY <1>2
<1>5. Len(covers) \in Nat
  BY DEF BufferInv
<1>6. \A k \in Cells :
        Overlaid(m)[k] = IF k <= t
                         THEN [sym |-> IF k <= m.len THEN "char" ELSE "NUL",
                               of |-> Len(covers) + 1]
                         ELSE buffer[k]
  <2> SUFFICES ASSUME NEW k \in Cells
               PROVE  Overlaid(m)[k] = IF k <= t
                                       THEN [sym |-> IF k <= m.len THEN "char" ELSE "NUL",
                                             of |-> Len(covers) + 1]
                                       ELSE buffer[k]
    OBVIOUS
  <2>1. k \in Nat /\ k >= 1
    BY DEF Cells
  <2>2. CASE k <= t
    <3>1. Text(m)[k] = IF k <= m.len THEN "char" ELSE "NUL"
      BY <1>1, <1>4, <2>1, <2>2
    <3> QED
      BY <1>3, <2>2, <3>1 DEF Overlaid, Cell
  <2>3. CASE ~(k <= t)
    BY <1>3, <2>3 DEF Overlaid
  <2> QED
    BY <2>2, <2>3
<1> HIDE DEF t
<1>7. ASSUME NEW k \in Cells
      PROVE  /\ k <= t => /\ Overlaid(m)[k].of = Len(covers) + 1
                          /\ Overlaid(m)[k].sym = IF k <= m.len THEN "char" ELSE "NUL"
             /\ ~(k <= t) => Overlaid(m)[k].of = buffer[k].of
  <2>1. CASE k <= t
    <3>1. Overlaid(m)[k] = [sym |-> IF k <= m.len THEN "char" ELSE "NUL",
                            of |-> Len(covers) + 1]
      BY <1>6, <2>1
    <3> QED
      BY <2>1, <3>1
  <2>2. CASE ~(k <= t)
    <3>1. Overlaid(m)[k] = buffer[k]
      BY <1>6, <2>2
    <3> QED
      BY <2>2, <3>1
  <2> QED
    BY <2>1, <2>2
<1>8. Overlaid(m) \in [Cells -> Contents]
  <2>1. Overlaid(m) = [k \in Cells |-> Overlaid(m)[k]]
    BY DEF Overlaid
  <2>2. ASSUME NEW k \in Cells  PROVE  Overlaid(m)[k] \in Contents
    <3>1. buffer[k] \in Contents
      BY DEF BufferInv
    <3>2. [sym |-> IF k <= m.len THEN "char" ELSE "NUL", of |-> Len(covers) + 1] \in Contents
      BY <1>5 DEF Contents
    <3> QED
      BY <1>6, <3>1, <3>2
  <2> QED
    BY <2>1, <2>2
<1>9. /\ Bounded(t) \in 0 .. Size /\ Bounded(m.len) \in 0 .. Size
      /\ \A k \in Cells : k <= Bounded(t) <=> k <= t
      /\ 1 .. Bounded(m.len) \subseteq Cells
      /\ \A k \in 1 .. Bounded(m.len) : k <= t /\ k <= m.len
  BY <1>1 DEF Bounded, Cells
<1>10. \A k \in Cells :
        Overlaid(m)[k].of = IF k <= Bounded(t) THEN Len(covers) + 1 ELSE buffer[k].of
  BY <1>9, <1>7
<1>11. \A k \in 1 .. Bounded(m.len) : Overlaid(m)[k].sym = "char"
  BY <1>9, <1>7
<1>12. ASSUME link = "raw", m.ours
       PROVE  /\ m.len + 1 \in Cells /\ Overlaid(m)[m.len + 1].sym = "NUL"
              /\ Bounded(m.len) = m.len
  <2>1. m.len <= Size - 1
    BY <1>12 DEF NetInv, LongestText
  <2>2. m.len + 1 \in Cells /\ Bounded(m.len) = m.len /\ ~(m.len + 1 <= m.len)
    BY <1>1, <2>1 DEF Cells, Bounded
  <2>3. m.len + 1 <= t
    BY <1>1, <1>12 DEF t
  <2> QED
    BY <1>7, <2>2, <2>3
<1> QED
  BY <1>3, <1>8, <1>9, <1>10, <1>11, <1>12

-----------------------------------------------------------------------------

(* The history of receptions grows at its end, so a line stays right.      *)
LEMMA LineStaysRight ==
  ASSUME NEW cs \in Seq(0 .. Size), NEW n \in 0 .. Size, NEW p \in Lines, LineRight(p, cs)
  PROVE  LineRight(p, Append(cs, n))
<1> DEFINE ds == Append(cs, n)
<1>1. Len(cs) \in Nat /\ Len(ds) = Len(cs) + 1 /\ \A i \in 1 .. Len(cs) : ds[i] = cs[i]
  OBVIOUS
<1>2. p.of \in 0 .. Len(cs)
  BY DEF LineRight
<1>3. ASSUME NEW k \in DOMAIN p.line.text
      PROVE  /\ p.line.text[k].of = 0 \/ ds[p.line.text[k].of] >= k
             /\ \A q \in p.line.text[k].of + 1 .. p.of : ds[q] < k
             /\ p.line.text[k].of \in 0 .. p.of
  <2> DEFINE r == p.line.text[k].of
  <2>1. r \in 0 .. p.of /\ (r = 0 \/ cs[r] >= k) /\ \A q \in r + 1 .. p.of : cs[q] < k
    BY DEF LineRight
  <2> HIDE DEF r, ds
  <2>2. r = 0 \/ r \in 1 .. Len(cs)
    BY <1>1, <1>2, <2>1
  <2>3. \A q \in r + 1 .. p.of : q \in 1 .. Len(cs)
    BY <1>1, <1>2, <2>1
  <2>4. r = 0 \/ ds[r] >= k
    BY <1>1, <2>1, <2>2
  <2>5. \A q \in r + 1 .. p.of : ds[q] < k
    BY <1>1, <2>1, <2>3
  <2> QED
    BY <2>1, <2>4, <2>5 DEF r
<1>4. p.of \in 0 .. Len(ds)
  BY <1>1, <1>2
<1> QED
  BY <1>3, <1>4 DEF LineRight

(* A reception keeps the buffer's cells dated.                             *)
LEMMA ReceiveBuffer ==
  ASSUME NetInv, BufferInv, NEW m \in net, Receive(m)
  PROVE  BufferInv'
<1> DEFINE n == Bounded(Len(Text(m)))
<1>1. covers \in Seq(0 .. Size) /\ Len(covers) \in Nat /\ n \in 0 .. Size
  BY OverlaidFacts DEF BufferInv
<1>2. covers' = Append(covers, n) /\ buffer' = Overlaid(m)
  BY DEF Receive
<1>3. /\ \A k \in Cells : buffer'[k].of = IF k <= n THEN Len(covers) + 1 ELSE buffer[k].of
      /\ buffer' \in [Cells -> Contents]
  BY <1>2, OverlaidFacts
<1> HIDE DEF n
<1>4. /\ covers' \in Seq(0 .. Size) /\ Len(covers') = Len(covers) + 1
      /\ covers'[Len(covers) + 1] = n
      /\ \A i \in 1 .. Len(covers) : covers'[i] = covers[i]
  BY <1>1, <1>2
<1>5. ASSUME NEW k \in Cells
      PROVE  /\ buffer'[k].of <= Len(covers')
             /\ buffer'[k].of = 0 \/ covers'[buffer'[k].of] >= k
             /\ \A q \in buffer'[k].of + 1 .. Len(covers') : covers'[q] < k
  <2> DEFINE r == buffer[k].of
  <2>1. /\ r \in Nat /\ r <= Len(covers) /\ (r = 0 \/ covers[r] >= k)
        /\ \A q \in r + 1 .. Len(covers) : covers[q] < k
    BY DEF BufferInv, LastToWrite, Contents
  <2>2. k \in Nat
    BY DEF Cells
  <2>3. CASE k <= n
    <3>1. buffer'[k].of = Len(covers) + 1
      BY <1>3, <2>3
    <3> QED
      BY <1>1, <1>4, <2>2, <2>3, <3>1
  <2>4. CASE ~(k <= n)
    <3>1. buffer'[k].of = r
      BY <1>3, <2>4
    <3> HIDE DEF r
    <3>2. r = 0 \/ covers'[r] >= k
      BY <1>1, <1>4, <2>1
    <3>3. ASSUME NEW q \in r + 1 .. Len(covers')  PROVE  covers'[q] < k
      <4>1. CASE q = Len(covers) + 1
        BY <1>1, <1>4, <2>2, <2>4, <4>1
      <4>2. CASE q # Len(covers) + 1
        <5>1. q \in r + 1 .. Len(covers) /\ q \in 1 .. Len(covers)
          BY <1>1, <1>4, <2>1, <4>2
        <5> QED
          BY <1>4, <2>1, <5>1
      <4> QED
        BY <4>1, <4>2
    <3> QED
      BY <1>1, <1>4, <2>1, <3>1, <3>2, <3>3
  <2> QED
    BY <2>3, <2>4
<1> QED
  BY <1>3, <1>4, <1>5 DEF BufferInv, LastToWrite

(* The line a reception prints is right.                                   *)
LEMMA ReceivePrints ==
  ASSUME NetInv, BufferInv, NEW m \in net, Receive(m), BufferInv', Shown(m)
  PROVE  LET p == [of |-> Len(covers'), len |-> m.len, ours |-> m.ours, line |-> Line(buffer')]
         IN  p \in Lines /\ LineRight(p, covers')
<1> DEFINE p == [of |-> Len(covers'), len |-> m.len, ours |-> m.ours, line |-> Line(buffer')]
           n == Bounded(m.len)
<1>1. /\ n \in 0 .. Size /\ buffer' = Overlaid(m)
      /\ \A k \in 1 .. n : buffer'[k].sym = "char"
      /\ link = "raw" /\ m.ours
           => n + 1 \in Cells /\ buffer'[n + 1].sym = "NUL" /\ n = m.len
  BY OverlaidFacts DEF Receive
<1>2. buffer' \in [Cells -> Contents] /\ Len(covers') \in Nat
  BY DEF BufferInv
<1> HIDE DEF n
<1>3. /\ Line(buffer') \in [text : Seq(Contents), strays : BOOLEAN]
      /\ Len(Line(buffer').text) \in n .. Size
      /\ DOMAIN Line(buffer').text = 1 .. Len(Line(buffer').text)
      /\ \A k \in DOMAIN Line(buffer').text : k \in Cells /\ Line(buffer').text[k] = buffer'[k]
      /\ n + 1 \in Cells /\ buffer'[n + 1].sym = "NUL"
           => ~Line(buffer').strays /\ Len(Line(buffer').text) = n
  BY <1>1, <1>2, LineFacts
<1>4. m.len \in Nat /\ m.ours \in BOOLEAN
  BY DEF NetInv, Messages
<1>5. p \in Lines
  BY <1>2, <1>3, <1>4 DEF Lines
<1>6. p.of = Len(covers') /\ p.len = m.len /\ p.ours = m.ours /\ p.line = Line(buffer')
  OBVIOUS
<1> HIDE DEF p
<1>7. ASSUME NEW k \in DOMAIN p.line.text
      PROVE  /\ p.line.text[k].of = 0 \/ covers'[p.line.text[k].of] >= k
             /\ \A q \in p.line.text[k].of + 1 .. p.of : covers'[q] < k
             /\ p.line.text[k].of \in 0 .. p.of
  <2>1. k \in Cells /\ p.line.text[k] = buffer'[k]
    BY <1>3, <1>6
  <2>2. /\ buffer'[k].of \in Nat /\ buffer'[k].of <= Len(covers')
        /\ buffer'[k].of = 0 \/ covers'[buffer'[k].of] >= k
        /\ \A q \in buffer'[k].of + 1 .. Len(covers') : covers'[q] < k
    BY <2>1 DEF BufferInv, LastToWrite, Contents
  <2> QED
    BY <1>2, <1>6, <2>1, <2>2
<1>8. p.of \in 0 .. Len(covers') /\ Bounded(p.len) <= Len(p.line.text)
  <2>1. Bounded(p.len) = n
    BY <1>6 DEF n
  <2> QED
    BY <1>1, <1>2, <1>3, <1>6, <2>1
<1>9. link' = link
  BY DEF Receive
<1>10. ASSUME link = "raw"
       PROVE  ~p.line.strays /\ Len(p.line.text) = p.len /\ p.ours
  <2>1. m.ours
    BY <1>10 DEF Shown
  <2> QED
    BY <1>1, <1>3, <1>6, <1>10, <2>1
<1> QED
  BY <1>5, <1>7, <1>8, <1>10 DEF LineRight, p

(* A reception keeps every line right, the one it prints included.         *)
LEMMA ReceivePrinted ==
  ASSUME IInv, NEW m \in net, Receive(m), BufferInv'
  PROVE  PrintedInv'
<1> DEFINE p == [of |-> Len(covers'), len |-> m.len, ours |-> m.ours, line |-> Line(buffer')]
           n == Bounded(Len(Text(m)))
<1>1. /\ covers \in Seq(0 .. Size) /\ n \in 0 .. Size /\ covers' = Append(covers, n)
      /\ printed' = IF Shown(m) THEN Append(printed, p) ELSE printed
      /\ link' = link
  BY OverlaidFacts DEF IInv, BufferInv, Receive
<1>2. printed \in Seq(Lines) /\ Len(printed) \in Nat
      /\ \A i \in 1 .. Len(printed) : printed[i] \in Lines /\ LineRight(printed[i], covers)
  BY DEF IInv, PrintedInv
<1>3. Shown(m) => p \in Lines /\ LineRight(p, covers')
  BY ReceivePrints DEF IInv
<1> HIDE DEF p, n
<1>4. \A i \in 1 .. Len(printed) : LineRight(printed[i], covers')
  BY <1>1, <1>2, LineStaysRight
<1>5. CASE Shown(m)
  <2>1. /\ printed' = Append(printed, p) /\ printed' \in Seq(Lines)
        /\ DOMAIN printed' = 1 .. Len(printed) + 1
    BY <1>1, <1>2, <1>3, <1>5
  <2>2. \A i \in 1 .. Len(printed) + 1 : printed'[i] = IF i <= Len(printed) THEN printed[i] ELSE p
    BY <1>2, <2>1
  <2>3. ASSUME NEW i \in DOMAIN printed'  PROVE  LineRight(printed'[i], covers')
    <3>1. i \in 1 .. Len(printed) \/ printed'[i] = p
      BY <1>2, <2>1, <2>2
    <3> QED
      BY <1>2, <1>3, <1>4, <1>5, <2>1, <2>2, <3>1
  <2> QED
    BY <1>1, <2>1, <2>3 DEF PrintedInv, LineRight
<1>6. CASE ~Shown(m)
  <2>1. printed' = printed
    BY <1>1, <1>6
  <2>2. \A i \in DOMAIN printed' : LineRight(printed'[i], covers')
    BY <1>2, <1>4, <2>1
  <2> QED
    BY <1>1, <1>2, <2>1, <2>2 DEF PrintedInv, LineRight
<1> QED
  BY <1>5, <1>6

(* The invariant holds at the start.                                       *)
LEMMA InitIInv == Init => IInv
<1> SUFFICES ASSUME Init  PROVE  IInv
  OBVIOUS
<1>1. NetInv
  BY ReceiverAssumption DEF Init, NetInv
<1>2. BufferInv
  <2>1. covers = << >> /\ Len(covers) = 0
    BY DEF Init
  <2>2. \A s \in {"char", "NUL"} : Cell(s, 0) \in Contents /\ Cell(s, 0).of = 0
    BY DEF Cell, Contents
  <2>3. \A k \in Cells : buffer[k] \in Contents /\ buffer[k].of = 0
    BY <2>2 DEF Init
  <2>4. buffer \in [Cells -> Contents]
    BY <2>3 DEF Init
  <2> QED
    BY <2>1, <2>3, <2>4 DEF BufferInv, LastToWrite
<1>3. PrintedInv
  BY DEF Init, PrintedInv
<1> QED
  BY <1>1, <1>2, <1>3 DEF IInv

(* Steps that leave the receiver alone keep what is said about it.         *)
LEMMA ReceiverAlone ==
  ASSUME IInv, UNCHANGED << link, buffer, covers, printed >>, NetInv'
  PROVE  IInv'
<1>1. BufferInv'
  BY DEF IInv, BufferInv, LastToWrite
<1>2. PrintedInv'
  BY DEF IInv, PrintedInv, LineRight
<1> QED
  BY <1>1, <1>2 DEF IInv

(* Every step keeps the invariant.                                         *)
LEMMA NextIInv == IInv /\ [Next]_vars => IInv'
<1> SUFFICES ASSUME IInv, [Next]_vars  PROVE  IInv'
  OBVIOUS
<1>1. ASSUME NEW len \in 0 .. MaxInput, Send(len)  PROVE  IInv'
  <2> DEFINE new == [id |-> sent + 1, len |-> len, ours |-> TRUE]
  <2>1. sent + 1 \in 1 .. MaxSent /\ MaxSent \in Nat
    BY <1>1, ReceiverAssumption DEF IInv, NetInv, Send
  <2>2. new \in Messages /\ new.ours = TRUE /\ new.len = len
    BY <2>1, ReceiverAssumption DEF Messages
  <2>3. net' = net \union {new} /\ link' = link /\ sent' = sent + 1 /\ receiver' = receiver /\ len <= LongestText
    BY <1>1 DEF Send
  <2> HIDE DEF new
  <2>4. LongestText' = LongestText
    BY <2>3 DEF LongestText
  <2>5. NetInv'
    BY <2>1, <2>2, <2>3, <2>4 DEF IInv, NetInv
  <2> QED
    BY <1>1, <2>5, ReceiverAlone DEF Send
<1>2. ASSUME NEW len \in 0 .. MaxInput, SendOther(len)  PROVE  IInv'
  <2> DEFINE new == [id |-> sent + 1, len |-> len, ours |-> FALSE]
  <2>1. sent + 1 \in 1 .. MaxSent /\ MaxSent \in Nat
    BY <1>2, ReceiverAssumption DEF IInv, NetInv, SendOther
  <2>2. new \in Messages /\ new.ours = FALSE /\ new.len = len
    BY <2>1, ReceiverAssumption DEF Messages
  <2>3. net' = net \union {new} /\ link' = link /\ sent' = sent + 1 /\ receiver' = receiver /\ link = "raw"
    BY <1>2 DEF SendOther
  <2> HIDE DEF new
  <2>4. LongestText' = LongestText
    BY <2>3 DEF LongestText
  <2>5. NetInv'
    BY <2>1, <2>2, <2>3, <2>4 DEF IInv, NetInv
  <2> QED
    BY <1>2, <2>5, ReceiverAlone DEF SendOther
<1>3. ASSUME NEW m \in net, Lose(m)  PROVE  IInv'
  <2>1. NetInv'
    BY <1>3 DEF IInv, NetInv, Lose, LongestText
  <2> QED
    BY <1>3, <2>1, ReceiverAlone DEF Lose
<1>4. ASSUME NEW m \in net, Receive(m)  PROVE  IInv'
  <2>1. NetInv'
    BY <1>4 DEF IInv, NetInv, Receive, LongestText
  <2>2. BufferInv'
    BY <1>4, ReceiveBuffer DEF IInv
  <2>3. PrintedInv'
    BY <1>4, <2>2, ReceivePrinted
  <2> QED
    BY <2>1, <2>2, <2>3 DEF IInv
<1>5. CASE ReceiveFails
  <2>1. NetInv'
    BY <1>5 DEF IInv, NetInv, ReceiveFails, LongestText
  <2> QED
    BY <1>5, <2>1, ReceiverAlone DEF ReceiveFails
<1>6. CASE UNCHANGED vars
  <2>1. NetInv'
    BY <1>6 DEF IInv, NetInv, vars, LongestText
  <2> QED
    BY <1>6, <2>1, ReceiverAlone DEF vars
<1> QED
  BY <1>1, <1>2, <1>3, <1>4, <1>5, <1>6 DEF Next

(* The invariant holds in every behaviour.                                 *)
THEOREM ReceiverInvariance == Spec => []IInv
  BY InitIInv, NextIInv, PTL DEF Spec

(* The receivers' state keeps its types (udp_server.c, receptor.c).        *)
THEOREM ReceiverTypeCorrect == Spec => []TypeOK
<1>1. IInv => TypeOK
  BY DEF IInv, NetInv, BufferInv, PrintedInv, TypeOK
<1> QED
  BY <1>1, ReceiverInvariance, PTL

(* Whatever a receiver prints is cell by cell from the latest text that    *)
(* reached so far, for any buffer, any texts and any order of delivery     *)
(* (udp_server.c, receptor.c).                                             *)
THEOREM ReceiverLatestTexts == Spec => []LineIsLatestTexts
<1>1. IInv => LineIsLatestTexts
  <2> SUFFICES ASSUME IInv, NEW i \in DOMAIN printed
               PROVE  LET p == printed[i]
                      IN  /\ \A k \in DOMAIN p.line.text : LastToWrite(k, p.of, p.line.text[k].of)
                          /\ Bounded(p.len) <= Len(p.line.text)
    BY DEF LineIsLatestTexts
  <2>1. LineRight(printed[i], covers)
    BY DEF IInv, PrintedInv
  <2> QED
    BY <2>1 DEF LineRight, LastToWrite
<1> QED
  BY <1>1, ReceiverInvariance, PTL

(* The raw receiver prints the texts it is sent and nothing else, however  *)
(* long the frames of others that its buffer held before (receptor.c).     *)
THEOREM ReceiverRawPrintsTheText == Spec => []RawPrintsTheText
<1>1. IInv => RawPrintsTheText
  BY DEF IInv, PrintedInv, LineRight, RawPrintsTheText
<1> QED
  BY <1>1, ReceiverInvariance, PTL
==============================================================================
