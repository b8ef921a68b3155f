-------------------------- MODULE DhcpOptions_proofs --------------------------
(***************************************************************************)
(* The reader and the writer of DHCP options agree, for option lists of    *)
(* any length and values of any bytes.                                     *)
(*                                                                         *)
(* The field is the options' bytes joined, so the first part is about      *)
(* where the bytes of the i-th option lie (Layout) and what the last value *)
(* of a code is (LastAppended).  The invariant says how many options the   *)
(* reader has read (IsAfter) and what the struct then holds (Holds); one   *)
(* turn of the loop reads one option more, or one byte of an option that   *)
(* has no case (Turn).  The last part is about the lists that the program  *)
(* writes itself (WrittenOptions).                                         *)
(***************************************************************************)
EXTENDS DhcpOptions, Lemmas

(* An option as it can be sent: a code and any bytes.                      *)
OptionSet == [code : Byte, value : Seq(Byte)]

(* The bytes of one option.                                                *)
LEMMA BytesFacts ==
  ASSUME NEW o \in OptionSet
  PROVE  /\ Bytes(o) \in Seq(Byte)
         /\ Len(o.value) \in Nat
         /\ Len(Bytes(o)) = Len(o.value) + 2
         /\ Bytes(o)[1] = o.code /\ Bytes(o)[2] = Len(o.value) % 256
         /\ \A k \in 1 .. Len(o.value) : Bytes(o)[2 + k] = o.value[k]
  <1> DEFINE h == << o.code, Len(o.value) % 256 >>
             v == o.value
  <1>1. v \in Seq(Byte) /\ Len(v) \in Nat /\ o.code \in Byte
    BY DEF OptionSet
  <1>2. Len(v) % 256 \in Byte
    <2>1. \A n \in Nat : n % 256 \in 0 .. 255
      OBVIOUS
    <2>. QED  BY <1>1, <2>1, Zenon DEF Byte
  <1>3. h \in Seq(Byte) /\ Len(h) = 2 /\ h[1] = o.code /\ h[2] = Len(v) % 256
    <2>1. \A x, y \in Byte : << x, y >> \in Seq(Byte)
      OBVIOUS
    <2>2. \A x, y : Len(<< x, y >>) = 2 /\ << x, y >>[1] = x /\ << x, y >>[2] = y
      OBVIOUS
    <2>. QED  BY <1>1, <1>2, <2>1, <2>2, Zenon
  <1>4. Bytes(o) = h \o v
    BY DEF Bytes
  <1>. HIDE DEF h, v
  <1>5. /\ h \o v \in Seq(Byte) /\ Len(h \o v) = 2 + Len(v)
        /\ (h \o v)[1] = h[1] /\ (h \o v)[2] = h[2]
        /\ \A k \in 1 .. Len(v) : (h \o v)[2 + k] = v[k]
    <2>1. 1 \in 1 .. Len(h) /\ 2 \in 1 .. Len(h)
      BY <1>3
    <2>2. \A x, y \in Seq(Byte) :
            /\ x \o y \in Seq(Byte) /\ Len(x \o y) = Len(x) + Len(y)
            /\ \A k \in 1 .. Len(x) : (x \o y)[k] = x[k]
            /\ \A k \in 1 .. Len(y) : (x \o y)[Len(x) + k] = y[k]
      BY JoinTwo
    <2>3. h \in Seq(Byte) /\ v \in Seq(Byte)
      BY <1>1, <1>3
    <2>4. /\ h \o v \in Seq(Byte) /\ Len(h \o v) = Len(h) + Len(v)
          /\ \A k \in 1 .. Len(h) : (h \o v)[k] = h[k]
          /\ \A k \in 1 .. Len(v) : (h \o v)[Len(h) + k] = v[k]
      BY <2>2, <2>3, Zenon
    <2>5. Len(h) = 2
      BY <1>3
    <2>. QED  BY <2>1, <2>4, <2>5, Zenon
  <1>. QED  BY <1>1, <1>3, <1>4, <1>5 DEF v

(* An option is at least two bytes long.                                   *)
LEMMA BytesLength ==
  ASSUME NEW o \in OptionSet
  PROVE  Bytes(o) \in Seq(Byte) /\ Len(Bytes(o)) \in Nat /\ Len(Bytes(o)) >= 2
  <1>1. Bytes(o) \in Seq(Byte) /\ Len(Bytes(o)) = Len(o.value) + 2 /\ Len(o.value) \in Nat
    BY BytesFacts
  <1>. QED  BY <1>1

(* Joining one more.                                                       *)
LEMMA FlattenStep ==
  ASSUME NEW S, NEW ss \in Seq(Seq(S)), NEW n \in 0 .. Len(ss)
  PROVE  /\ FlattenSeq(SubSeq(ss, 1, n)) \in Seq(S)
         /\ n < Len(ss) =>
              /\ ss[n + 1] \in Seq(S)
              /\ FlattenSeq(SubSeq(ss, 1, n + 1)) = FlattenSeq(SubSeq(ss, 1, n)) \o ss[n + 1]
  <1>1. SubSeq(ss, 1, n) \in Seq(Seq(S))
    OBVIOUS
  <1>2. n < Len(ss) => /\ ss[n + 1] \in Seq(S)
                       /\ SubSeq(ss, 1, n + 1) = Append(SubSeq(ss, 1, n), ss[n + 1])
    OBVIOUS
  <1>3. FlattenSeq(SubSeq(ss, 1, n)) \in Seq(S)
    <2>1. << >> \in Seq(S)
      OBVIOUS
    <2>. QED  BY <1>1, <2>1, FlattenAppend, Zenon
  <1>. QED  BY <1>1, <1>2, <1>3, FlattenAppend, Zenon

(* Three sequences after each other.                                       *)
LEMMA JoinThree ==
  ASSUME NEW S, NEW a \in Seq(S), NEW b \in Seq(S), NEW c \in Seq(S),
         NEW w, w = (a \o b) \o c
  PROVE  /\ w \in Seq(S)
         /\ Len(a) \in Nat /\ Len(b) \in Nat /\ Len(c) \in Nat
         /\ Len(w) = Len(a) + Len(b) + Len(c)
         /\ \A k \in 1 .. Len(a) : w[k] = a[k]
         /\ \A k \in 1 .. Len(b) : w[Len(a) + k] = b[k]
         /\ \A k \in 1 .. Len(c) : w[Len(a) + Len(b) + k] = c[k]
  <1> DEFINE p == a \o b
  <1>1. /\ p \in Seq(S) /\ Len(p) = Len(a) + Len(b) /\ Len(a) \in Nat /\ Len(b) \in Nat
        /\ \A k \in 1 .. Len(a) : p[k] = a[k]
        /\ \A k \in 1 .. Len(b) : p[Len(a) + k] = b[k]
    BY JoinTwo
  <1>2. w = p \o c
    OBVIOUS
  <1>. HIDE DEF p
  <1>3. /\ w \in Seq(S) /\ Len(w) = Len(p) + Len(c) /\ Len(c) \in Nat
        /\ \A k \in 1 .. Len(p) : w[k] = p[k]
        /\ \A k \in 1 .. Len(c) : w[Len(p) + k] = c[k]
    <2>1. \A x, y \in Seq(S) :
            /\ x \o y \in Seq(S) /\ Len(x \o y) = Len(x) + Len(y) /\ Len(y) \in Nat
            /\ \A k \in 1 .. Len(x) : (x \o y)[k] = x[k]
            /\ \A k \in 1 .. Len(y) : (x \o y)[Len(x) + k] = y[k]
      BY JoinTwo
    <2>2. p \in Seq(S)
      BY <1>1
    <2>3. /\ p \o c \in Seq(S) /\ Len(p \o c) = Len(p) + Len(c) /\ Len(c) \in Nat
          /\ \A k \in 1 .. Len(p) : (p \o c)[k] = p[k]
          /\ \A k \in 1 .. Len(c) : (p \o c)[Len(p) + k] = c[k]
      BY <2>1, <2>2, Zenon
    <2>. QED  BY <1>2, <2>3, Zenon
  <1>. QED  BY <1>1, <1>3

(* The field is what the sender's list comes to.                           *)
ListInv ==
  /\ options \in Seq(OptionSet)
  /\ field = Field(options)
  /\ Len(field) <= OPT_MAX_L

(* The options' bytes.                                                     *)
Pieces == [j \in DOMAIN options |-> Bytes(options[j])]
(* What the first i of them come to.                                       *)
Joined(i) == FlattenSeq(SubSeq(Pieces, 1, i))

(* The bytes of the options one by one.                                    *)
LEMMA PiecesFacts ==
  ASSUME options \in Seq(OptionSet)
  PROVE  /\ Len(options) \in Nat /\ DOMAIN options = 1 .. Len(options)
         /\ Pieces \in Seq(Seq(Byte)) /\ Len(Pieces) = Len(options)
         /\ \A i \in 1 .. Len(options) : /\ options[i] \in OptionSet
                                         /\ Pieces[i] = Bytes(options[i])
                                         /\ Bytes(options[i]) \in Seq(Byte)
  <1>1. /\ Len(options) \in Nat /\ DOMAIN options = 1 .. Len(options)
        /\ \A i \in 1 .. Len(options) : options[i] \in OptionSet
    OBVIOUS
  <1>2. \A i \in 1 .. Len(options) : Bytes(options[i]) \in Seq(Byte)
    BY <1>1, BytesFacts
  <1>3. \A i \in 1 .. Len(options) : Pieces[i] = Bytes(options[i])
    BY <1>1 DEF Pieces
  <1>4. Pieces = [j \in 1 .. Len(options) |-> Bytes(options[j])]
    BY <1>1 DEF Pieces
  <1>5. Pieces \in Seq(Seq(Byte)) /\ Len(Pieces) = Len(options)
    BY <1>1, <1>2, <1>4
  <1>. QED  BY <1>1, <1>2, <1>3, <1>5

(* The first options alone.                                                *)
LEMMA PassedField ==
  ASSUME options \in Seq(OptionSet), NEW i \in 0 .. Len(options)
  PROVE  /\ Field(Passed(i)) = (MAGIC_COOKIE \o Joined(i)) \o << DHCP_END_OP >>
         /\ EndOf(i) = 4 + Len(Joined(i))
         /\ Joined(i) \in Seq(Byte) /\ Len(Joined(i)) \in Nat
         /\ i < Len(options) => Joined(i + 1) = Joined(i) \o Bytes(options[i + 1])
  <1>1. /\ Len(options) \in Nat /\ DOMAIN options = 1 .. Len(options)
        /\ Pieces \in Seq(Seq(Byte)) /\ Len(Pieces) = Len(options)
        /\ \A j \in 1 .. Len(options) : Pieces[j] = Bytes(options[j])
    BY PiecesFacts
  <1>2. /\ DOMAIN Passed(i) = 1 .. i
        /\ \A j \in 1 .. i : Passed(i)[j] = options[j]
    BY DEF Passed
  <1>3. [j \in DOMAIN Passed(i) |-> Bytes(Passed(i)[j])] = [j \in 1 .. i |-> Bytes(options[j])]
    BY <1>2
  <1>4. SubSeq(Pieces, 1, i) = [j \in 1 .. i |-> Bytes(options[j])]
    <2>1. SubSeq(Pieces, 1, i) = [j \in 1 .. i |-> Pieces[j]]
      BY <1>1
    <2>. QED  BY <1>1, <2>1
  <1>5. Field(Passed(i)) = (MAGIC_COOKIE \o Joined(i)) \o << DHCP_END_OP >>
    BY <1>3, <1>4 DEF Field, Joined
  <1>6. /\ Joined(i) \in Seq(Byte)
        /\ i < Len(options) => Joined(i + 1) = Joined(i) \o Pieces[i + 1]
    BY <1>1, FlattenStep, Zenon DEF Joined
  <1>7. i < Len(options) => Joined(i + 1) = Joined(i) \o Bytes(options[i + 1])
    <2>1. i < Len(options) => i + 1 \in 1 .. Len(options)
      BY <1>1
    <2>. QED  BY <1>1, <1>6, <2>1, Zenon
  <1>8. EndOf(i) = 4 + Len(Joined(i)) /\ Len(Joined(i)) \in Nat
    <2> DEFINE b == Joined(i)
               w == (MAGIC_COOKIE \o b) \o << DHCP_END_OP >>
    <2>1. EndOf(i) = Len(w) - 1
      BY <1>5 DEF EndOf, Passed
    <2>2. /\ MAGIC_COOKIE \in Seq(Byte) /\ b \in Seq(Byte)
          /\ << DHCP_END_OP >> \in Seq(Byte)
      BY <1>6 DEF MAGIC_COOKIE, DHCP_END_OP, Byte
    <2>4. Len(MAGIC_COOKIE) = 4 /\ Len(<< DHCP_END_OP >>) = 1
      BY DEF MAGIC_COOKIE
    <2>. HIDE DEF b
    <2>3. Len(w) = Len(MAGIC_COOKIE) + Len(b) + Len(<< DHCP_END_OP >>) /\ Len(b) \in Nat
      <3>1. w = (MAGIC_COOKIE \o b) \o << DHCP_END_OP >>
        OBVIOUS
      <3>. HIDE DEF w
      <3>. QED  BY <2>2, <3>1, JoinThree
    <2>. HIDE DEF w
    <2>. QED  BY <2>1, <2>3, <2>4 DEF b
  <1>. QED  BY <1>5, <1>6, <1>7, <1>8

(* Later options end later.                                                *)
LEMMA EndsGrow ==
  ASSUME options \in Seq(OptionSet), NEW i \in 0 .. Len(options), NEW j \in 0 .. Len(options),
         i < j
  PROVE  EndOf(i) + 2 <= EndOf(j)
  <1>1. Pieces \in Seq(Seq(Byte)) /\ Len(Pieces) = Len(options) /\ Len(options) \in Nat
    BY PiecesFacts
  <1>2. i + 1 \in 0 .. Len(options) /\ i < Len(options) /\ i + 1 \in 1 .. Len(options)
    BY <1>1
  <1> DEFINE p == SubSeq(Pieces, 1, j)
  <1>3. p \in Seq(Seq(Byte)) /\ Len(p) = j /\ i + 1 \in 0 .. Len(p)
        /\ SubSeq(p, 1, i + 1) = SubSeq(Pieces, 1, i + 1)
    BY <1>1, <1>2
  <1>4. PICK t \in Seq(Byte) : Joined(j) = Joined(i + 1) \o t
    <2>. HIDE DEF p
    <2>1. \E t \in Seq(Byte) : FlattenSeq(p) = FlattenSeq(SubSeq(p, 1, i + 1)) \o t
      BY <1>3, FlattenPrefix
    <2>. QED  BY <1>3, <2>1, Zenon DEF Joined, p
  <1>5. /\ EndOf(i) = 4 + Len(Joined(i)) /\ EndOf(j) = 4 + Len(Joined(j))
        /\ Joined(i) \in Seq(Byte) /\ Joined(i + 1) \in Seq(Byte)
        /\ Joined(i + 1) = Joined(i) \o Bytes(options[i + 1])
    BY <1>2, PassedField
  <1>6. Bytes(options[i + 1]) \in Seq(Byte) /\ Len(Bytes(options[i + 1])) >= 2
    <2>1. options[i + 1] \in OptionSet
      BY <1>2, PiecesFacts
    <2>. QED  BY <2>1, BytesLength
  <1>7. ASSUME NEW x \in Seq(Byte), NEW y \in Seq(Byte), NEW z \in Seq(Byte), Len(y) >= 2
        PROVE  Len((x \o y) \o z) >= Len(x) + 2 /\ Len(x) \in Nat /\ Len((x \o y) \o z) \in Nat
    BY <1>7
  <1>8. Len(Joined(j)) >= Len(Joined(i)) + 2 /\ Len(Joined(i)) \in Nat /\ Len(Joined(j)) \in Nat
    BY <1>4, <1>5, <1>6, <1>7
  <1>. QED  BY <1>5, <1>8

(* Where the bytes of an option lie in the field.                          *)
LEMMA Layout ==
  ASSUME ListInv, NEW i \in 0 .. Len(options)
  PROVE  /\ field \in Seq(Byte)
         /\ EndOf(i) \in Nat /\ EndOf(i) >= 4 /\ EndOf(i) < Len(field)
         /\ i < Len(options) =>
              /\ EndOf(i + 1) = EndOf(i) + Len(Bytes(options[i + 1]))
              /\ EndOf(i + 1) < Len(field)
              /\ \A k \in 1 .. Len(Bytes(options[i + 1])) :
                   field[EndOf(i) + k] = Bytes(options[i + 1])[k]
         /\ i = Len(options) => field[EndOf(i) + 1] = DHCP_END_OP
  <1>1. /\ Pieces \in Seq(Seq(Byte)) /\ Len(Pieces) = Len(options) /\ Len(options) \in Nat
        /\ options \in Seq(OptionSet)
    BY PiecesFacts DEF ListInv
  <1> DEFINE a == MAGIC_COOKIE
             e == << DHCP_END_OP >>
             all == Joined(Len(options))
  <1>7. a \in Seq(Byte) /\ e \in Seq(Byte)
    BY DEF MAGIC_COOKIE, DHCP_END_OP, Byte
  <1>2. Len(a) = 4 /\ Len(e) = 1 /\ e[1] = DHCP_END_OP
    BY DEF MAGIC_COOKIE, DHCP_END_OP, Byte
  <1>3. field = (a \o all) \o e
    <2>1. Passed(Len(options)) = options
      BY <1>1 DEF Passed
    <2>2. Len(options) \in 0 .. Len(options)
      BY <1>1
    <2>. QED  BY <1>1, <2>1, <2>2, PassedField DEF ListInv
  <1>4. /\ EndOf(i) = 4 + Len(Joined(i))
        /\ Joined(i) \in Seq(Byte) /\ Len(Joined(i)) \in Nat
        /\ i < Len(options) => Joined(i + 1) = Joined(i) \o Bytes(options[i + 1])
    BY <1>1, PassedField
  <1>. HIDE DEF a, e
  <1>5. CASE i = Len(options)
    <2>1. all \in Seq(Byte) /\ EndOf(i) = 4 + Len(all) /\ Len(all) \in Nat
      BY <1>4, <1>5
    <2>3. all \in Seq(Byte)
      BY <2>1
    <2>. HIDE DEF all
    <2>2. /\ field \in Seq(Byte) /\ Len(field) = Len(a) + Len(all) + Len(e)
          /\ \A k \in 1 .. Len(e) : field[Len(a) + Len(all) + k] = e[k]
      BY <1>3, <1>7, <2>3, JoinThree
    <2>. QED  BY <1>2, <1>3, <1>5, <2>1, <2>2
  <1>6. CASE i < Len(options)
    <2>1. i + 1 \in 0 .. Len(options) /\ i + 1 \in 1 .. Len(options)
      BY <1>1, <1>6
    <2>2. PICK t \in Seq(Byte) : all = Joined(i + 1) \o t
      <3>1. \E t \in Seq(Byte) : FlattenSeq(Pieces) = FlattenSeq(SubSeq(Pieces, 1, i + 1)) \o t
        BY <1>1, <2>1, FlattenPrefix
      <3>2. SubSeq(Pieces, 1, Len(options)) = Pieces
        BY <1>1
      <3>. QED  BY <3>1, <3>2, Zenon DEF Joined
    <2> DEFINE b == Joined(i)
               c == Bytes(options[i + 1])
    <2>3. b \in Seq(Byte) /\ c \in Seq(Byte) /\ Len(c) >= 2 /\ Len(c) \in Nat /\ Len(b) \in Nat
      <3>1. options[i + 1] \in OptionSet
        BY <1>1, <2>1, PiecesFacts
      <3>. QED  BY <1>4, <3>1, BytesLength
    <2>4. all = (b \o c) \o t
      BY <1>4, <1>6, <2>2
    <2>5. EndOf(i + 1) = 4 + Len(Joined(i + 1)) /\ Joined(i + 1) = b \o c
      BY <1>1, <1>4, <1>6, <2>1, PassedField
    <2>6. EndOf(i) = 4 + Len(b)
      BY <1>4
    <2>. HIDE DEF b, c, all
    <2>11. b \in Seq(Byte) /\ c \in Seq(Byte) /\ t \in Seq(Byte)
      BY <2>2, <2>3
    <2>12. /\ all \in Seq(Byte) /\ Len(all) = Len(b) + Len(c) + Len(t)
           /\ \A k \in 1 .. Len(c) : all[Len(b) + k] = c[k]
      <3>1. /\ all \in Seq(Byte) /\ Len(all) = Len(b) + Len(c) + Len(t)
            /\ \A k \in 1 .. Len(c) : (b \o c)[Len(b) + k] = c[k]
            /\ \A k \in 1 .. Len(b \o c) : all[k] = (b \o c)[k]
            /\ Len(b \o c) = Len(b) + Len(c)
        BY <2>4, <2>11
      <3>2. \A k \in 1 .. Len(c) : Len(b) + k \in 1 .. Len(b) + Len(c)
        BY <2>3
      <3>. QED  BY <3>1, <3>2, Zenon
    <2>13. all \in Seq(Byte)
      BY <2>12
    <2>7. /\ field \in Seq(Byte) /\ Len(field) = Len(a) + Len(all) + Len(e)
          /\ \A k \in 1 .. Len(all) : field[Len(a) + k] = all[k]
      BY <1>3, <1>7, <2>13, JoinThree
    <2>8. Len(t) \in Nat /\ Len(b \o c) = Len(b) + Len(c)
      BY <2>2, <2>3
    <2>9. EndOf(i + 1) = EndOf(i) + Len(c) /\ EndOf(i + 1) < Len(field) /\ EndOf(i) < Len(field)
      <3>1. EndOf(i + 1) = 4 + Len(b) + Len(c)
        <4>1. Len(Joined(i + 1)) = Len(b) + Len(c)
          BY <2>5, <2>8, Zenon
        <4>2. EndOf(i + 1) = 4 + Len(Joined(i + 1))
          BY <2>5
        <4>. QED  BY <2>3, <4>1, <4>2
      <3>2. Len(field) = 4 + Len(b) + Len(c) + Len(t) + 1
        BY <1>2, <2>7, <2>12
      <3>. QED  BY <2>3, <2>6, <2>8, <3>1, <3>2
    <2>10. ASSUME NEW k \in 1 .. Len(c)  PROVE  field[EndOf(i) + k] = c[k]
      <3> DEFINE x == Len(b) + k
      <3>1. x \in 1 .. Len(all) /\ EndOf(i) + k = Len(a) + x
        BY <1>2, <2>3, <2>6, <2>8, <2>12
      <3>2. all[x] = c[k]
        BY <2>12
      <3>. HIDE DEF x
      <3>. QED  BY <2>7, <3>1, <3>2
    <2>. QED  BY <1>6, <2>3, <2>6, <2>7, <2>9, <2>10 DEF c
  <1>. QED  BY <1>1, <1>5, <1>6

(* The first option begins after the cookie.                               *)
LEMMA FirstOption ==
  ASSUME ListInv
  PROVE  EndOf(0) = 4 /\ 0 \in 0 .. Len(options)
  <1>1. Len(options) \in Nat /\ options \in Seq(OptionSet) /\ 0 \in 0 .. Len(options)
        /\ Pieces \in Seq(Seq(Byte))
    BY PiecesFacts DEF ListInv
  <1>2. Joined(0) = << >>
    <2>1. SubSeq(Pieces, 1, 0) = << >>
      BY <1>1
    <2>. QED  BY <2>1, FlattenEmpty DEF Joined
  <1>3. EndOf(0) = 4 + Len(Joined(0))
    BY <1>1, PassedField
  <1>. QED  BY <1>1, <1>2, <1>3

(* A bounded set of numbers has a greatest.                                *)
LEMMA GreatestOf ==
  ASSUME NEW n \in Nat, NEW S, S \subseteq 0 .. n, S # {}
  PROVE  Max(S) \in S /\ \A j \in S : j <= Max(S)
  <1> DEFINE T == { n - j : j \in S }
  <1>0. \A j \in S : j \in Nat /\ n - j \in Nat
    OBVIOUS
  <1>1. T \subseteq Nat /\ T # {}
    BY <1>0
  <1>2. PICK k \in T : \A j \in T : k <= j
    <2>. HIDE DEF T
    <2>. QED  BY <1>1, LeastOf
  <1>3. PICK m \in S : k = n - m
    BY <1>2
  <1>4. \A j \in S : m >= j
    <2> TAKE j \in S
    <2>1. n - j \in T /\ j \in Nat /\ m \in Nat
      OBVIOUS
    <2>. QED  BY <1>2, <1>3, <2>1
  <1>5. Max(S) \in S /\ \A j \in S : Max(S) >= j
    BY <1>4 DEF Max
  <1>6. Max(S) \in Nat /\ \A j \in S : j \in Nat
    BY <1>0, <1>5
  <1>. QED  BY <1>5, <1>6

(* One more option.                                                        *)
LEMMA LastAppended ==
  ASSUME NEW s \in Seq(OptionSet), NEW o \in OptionSet, NEW codes, NEW d
  PROVE  LastValue(Append(s, o), codes, d)
         = IF o.code \in codes THEN o.value ELSE LastValue(s, codes, d)
  <1> DEFINE n == Len(s)
             t == Append(s, o)
             A == { i \in DOMAIN s : s[i].code \in codes }
             B == { i \in DOMAIN t : t[i].code \in codes }
  <1>1. /\ n \in Nat /\ DOMAIN s = 1 .. n /\ DOMAIN t = 1 .. n + 1
        /\ t[n + 1] = o /\ \A i \in 1 .. n : t[i] = s[i]
    OBVIOUS
  <1>. HIDE DEF n, t
  <1>2. CASE o.code \in codes
    <2>1. n + 1 \in B /\ B \subseteq 0 .. n + 1 /\ n + 1 \in Nat
      BY <1>1, <1>2
    <2>2. Max(B) \in B /\ n + 1 <= Max(B) /\ Max(B) \in 0 .. n + 1
      <3>. HIDE DEF B
      <3>. QED  BY <2>1, GreatestOf
    <2>3. Max(B) = n + 1
      BY <1>1, <2>2
    <2>. QED  BY <1>1, <1>2, <2>1, <2>3, Zenon DEF LastValue, t
  <1>3. CASE o.code \notin codes
    <2>1. A = B
      BY <1>1, <1>3
    <2>2. A # {} => Max(A) \in 1 .. n
      <3>1. A \subseteq 0 .. n /\ A \subseteq 1 .. n
        BY <1>1
      <3>. HIDE DEF A
      <3>. QED  BY <1>1, <3>1, GreatestOf
    <2>3. LastValue(s, codes, d) = IF A = {} THEN d ELSE s[Max(A)].value
      BY DEF LastValue
    <2>4. LastValue(t, codes, d) = IF A = {} THEN d ELSE t[Max(A)].value
      BY <2>1, Zenon DEF LastValue
    <2>. HIDE DEF A
    <2>. QED  BY <1>1, <1>3, <2>2, <2>3, <2>4 DEF t
  <1>. QED  BY <1>2, <1>3

(* The options passed, one after the other.                                *)
LEMMA PassedStep ==
  ASSUME options \in Seq(OptionSet), NEW i \in 0 .. Len(options), i < Len(options),
         NEW o, o = options[i + 1], NEW codes, NEW d
  PROVE  LastValue(Passed(i + 1), codes, d)
         = IF o.code \in codes THEN o.value ELSE LastValue(Passed(i), codes, d)
  <1>1. /\ Passed(i) \in Seq(OptionSet) /\ options[i + 1] \in OptionSet
        /\ Passed(i + 1) = Append(Passed(i), options[i + 1])
    BY DEF Passed
  <1>2. o \in OptionSet /\ Passed(i + 1) = Append(Passed(i), o)
    BY <1>1, Zenon
  <1>3. LastValue(Append(Passed(i), o), codes, d)
        = IF o.code \in codes THEN o.value ELSE LastValue(Passed(i), codes, d)
    BY <1>1, <1>2, LastAppended
  <1>. QED  BY <1>2, <1>3, Zenon

(* No option has been passed at first.                                     *)
LEMMA PassedNone ==
  ASSUME NEW codes, NEW d
  PROVE  LastValue(Passed(0), codes, d) = d
  <1>1. Passed(0) = << >>
    BY DEF Passed
  <1>2. LastValue(<< >>, codes, d) = d
    BY DEF LastValue
  <1>. QED  BY <1>1, <1>2, Zenon

(* The option that follows the i-th, as the reader finds it in the field.  *)
Sees(i, o) ==
  /\ o \in OptionSet /\ Len(o.value) \in Nat
  /\ EndOf(i) \in Nat /\ EndOf(i + 1) = EndOf(i) + 2 + Len(o.value)
  /\ EndOf(i + 1) < Len(field)
  /\ At(EndOf(i)) = o.code /\ At(EndOf(i) + 1) = Len(o.value) % 256
  /\ \A k \in 0 .. Len(o.value) + 1 : At(EndOf(i) + k) = Bytes(o)[k + 1]
  /\ \A n \in 0 .. Len(o.value) : From(EndOf(i) + 2, n) = SubSeq(o.value, 1, n)

(* The reader sees the option as it was written.                           *)
LEMMA ReaderSees ==
  ASSUME ListInv, NEW i \in 0 .. Len(options), i < Len(options),
         NEW o, o = options[i + 1]
  PROVE  Sees(i, o)
  <1>1. o \in OptionSet
    BY PiecesFacts DEF ListInv
  <1>2. /\ Bytes(o) \in Seq(Byte) /\ Len(o.value) \in Nat
        /\ Len(Bytes(o)) = Len(o.value) + 2
        /\ Bytes(o)[1] = o.code /\ Bytes(o)[2] = Len(o.value) % 256
        /\ \A k \in 1 .. Len(o.value) : Bytes(o)[2 + k] = o.value[k]
    BY <1>1, BytesFacts
  <1> DEFINE p == EndOf(i)
             m == Len(o.value)
             q == EndOf(i + 1)
  <1>3. /\ p \in Nat /\ q = p + (m + 2) /\ q < Len(field) /\ Len(field) \in Nat
        /\ \A k \in 1 .. m + 2 : field[p + k] = Bytes(o)[k]
    <2>1. /\ field \in Seq(Byte) /\ p \in Nat
          /\ q = p + Len(Bytes(options[i + 1])) /\ q < Len(field)
          /\ \A k \in 1 .. Len(Bytes(options[i + 1])) : field[p + k] = Bytes(options[i + 1])[k]
      BY Layout
    <2>2. Len(field) \in Nat
      BY <2>1
    <2>. QED  BY <1>2, <2>1, <2>2, Zenon
  <1>4. m \in Nat
    BY <1>2
  <1>. HIDE DEF p, q, m
  <1>5. \A k \in 0 .. m + 1 : At(p + k) = Bytes(o)[k + 1]
    <2> TAKE k \in 0 .. m + 1
    <2>1. k + 1 \in 1 .. m + 2 /\ p + k < Len(field) /\ p + k + 1 = p + (k + 1)
      BY <1>3, <1>4
    <2>. QED  BY <1>3, <2>1, Zenon DEF At
  <1>6. At(p) = o.code /\ At(p + 1) = m % 256
    <2>1. At(p + 0) = Bytes(o)[0 + 1] /\ At(p + 1) = Bytes(o)[1 + 1]
      <3>1. 0 \in 0 .. m + 1 /\ 1 \in 0 .. m + 1
        BY <1>4
      <3>. QED  BY <1>5, <3>1, Zenon
    <2>2. p + 0 = p /\ 0 + 1 = 1 /\ 1 + 1 = 2
      BY <1>3
    <2>. QED  BY <1>2, <2>1, <2>2, Zenon DEF m
  <1>7. ASSUME NEW n \in 0 .. m  PROVE  From(p + 2, n) = SubSeq(o.value, 1, n)
    <2>1. \A k \in 1 .. n : At((p + 2) + k - 1) = o.value[k]
      <3> TAKE k \in 1 .. n
      <3>1. k + 1 \in 0 .. m + 1 /\ (p + 2) + k - 1 = p + (k + 1) /\ (k + 1) + 1 = 2 + k
            /\ k \in 1 .. m
        BY <1>3, <1>4
      <3>2. At(p + (k + 1)) = Bytes(o)[(k + 1) + 1]
        BY <1>5, <3>1, Zenon
      <3>3. Bytes(o)[2 + k] = o.value[k]
        BY <1>2, <3>1 DEF m
      <3>. QED  BY <3>1, <3>2, <3>3, Zenon
    <2>2. From(p + 2, n) = [k \in 1 .. n |-> o.value[k]]
      BY <2>1, Zenon DEF From
    <2>3. o.value \in Seq(Byte) /\ n \in 0 .. Len(o.value)
      BY <1>1, <1>7 DEF OptionSet, m
    <2>4. SubSeq(o.value, 1, n) = [k \in 1 .. n |-> o.value[k]]
      BY <2>3
    <2>. QED  BY <2>2, <2>4
  <1>8. q = p + 2 + m
    BY <1>3, <1>4
  <1>. QED  BY <1>1, <1>3, <1>4, <1>5, <1>6, <1>7, <1>8 DEF Sees, p, q, m

-----------------------------------------------------------------------------

(* The message types of the struct.                                        *)
MsgSet == {"INVALID"} \union { dhcp_msg_t[v] : v \in 1 .. 8 }

(* The struct's fields keep their sizes.                                   *)
OptInv ==
  /\ DOMAIN opt = DOMAIN no_opt
  /\ opt.dhcp_msg \in MsgSet
  /\ Len(opt.hst_name) <= 255
  /\ Len(opt.clt_id) = ETHER_ADDR_L
  /\ Len(opt.sub_msk) = IP_ADDR_L /\ Len(opt.srv_id) = IP_ADDR_L
  /\ Len(opt.rtr_id) = IP_ADDR_L /\ Len(opt.rqt_id) = IP_ADDR_L
  /\ Len(opt.dns_id) = IP_ADDR_L

(* The message type that a byte means.                                     *)
Message(b) == IF b \in 1 .. 8 THEN dhcp_msg_t[b] ELSE "INVALID"
(* An address that options of some codes set, after an option of code c.   *)
IpOf(codes, c, old) == IF c \in codes THEN From(ptr + 2, IP_ADDR_L) ELSE old

(* What an option changes, field by field.                                 *)
IsStored(c, s) ==
  /\ DOMAIN s = DOMAIN no_opt
  /\ s.dhcp_msg = IF c = DHCP_MSG_OP THEN Message(At(ptr + 2)) ELSE opt.dhcp_msg
  /\ s.hst_name = IF c = DHCP_HST_NAME_OP THEN From(ptr + 2, At(ptr + 1)) ELSE opt.hst_name
  /\ s.clt_id = IF c = DHCP_CLT_ID_OP THEN From(ptr + 2, ETHER_ADDR_L) ELSE opt.clt_id
  /\ s.rtr_id = IpOf({DHCP_RTR_ID_OP, DHCP_RNW_TIME_OP}, c, opt.rtr_id)
  /\ s.sub_msk = IpOf({DHCP_SUB_MSK_OP}, c, opt.sub_msk)
  /\ s.srv_id = IpOf({DHCP_SRV_ID_OP}, c, opt.srv_id)
  /\ s.rqt_id = IpOf({DHCP_RQT_ID_OP}, c, opt.rqt_id)
  /\ s.dns_id = IpOf({DHCP_DNS_OP}, c, opt.dns_id)

(* Storing changes the fields of one code only.                            *)
LEMMA StoredFields ==
  ASSUME DOMAIN opt = DOMAIN no_opt, NEW c, NEW s, s = Stored(c)
  PROVE  IsStored(c, s)
  <1>1. DOMAIN opt = {"dhcp_msg", "hst_name", "clt_id", "sub_msk", "rnw_time", "rbn_time",
                      "ip_lease_time", "srv_id", "rtr_id", "rqt_id", "dns_id"}
    BY DEF no_opt
  <1> USE DEF DHCP_MSG_OP, DHCP_HST_NAME_OP, DHCP_CLT_ID_OP, DHCP_SUB_MSK_OP,
          DHCP_RNW_TIME_OP, DHCP_SRV_ID_OP, DHCP_RTR_ID_OP, DHCP_RQT_ID_OP, DHCP_DNS_OP
  <1>2. CASE c = DHCP_MSG_OP
    <2>1. s = [opt EXCEPT !.dhcp_msg = Message(At(ptr + 2))]
      BY <1>2 DEF Stored, Message, IpTarget
    <2>. QED  BY <1>1, <1>2, <2>1 DEF IsStored, IpOf
  <1>3. CASE c = DHCP_HST_NAME_OP
    <2>1. s = [opt EXCEPT !.hst_name = From(ptr + 2, At(ptr + 1))]
      BY <1>3 DEF Stored, IpTarget
    <2>. QED  BY <1>1, <1>3, <2>1 DEF IsStored, IpOf
  <1>4. CASE c = DHCP_CLT_ID_OP
    <2>1. s = [opt EXCEPT !.clt_id = From(ptr + 2, ETHER_ADDR_L)]
      BY <1>4 DEF Stored, IpTarget
    <2>. QED  BY <1>1, <1>4, <2>1 DEF IsStored, IpOf
  <1>5. CASE c \in DOMAIN IpTarget
    <2>1. c \notin {DHCP_MSG_OP, DHCP_HST_NAME_OP, DHCP_CLT_ID_OP}
      BY <1>5 DEF IpTarget
    <2>2. s = [opt EXCEPT ![IpTarget[c]] = From(ptr + 2, IP_ADDR_L)]
      BY <1>5, <2>1 DEF Stored
    <2>3. \/ c \in {DHCP_RTR_ID_OP, DHCP_RNW_TIME_OP} /\ IpTarget[c] = "rtr_id"
          \/ c = DHCP_SUB_MSK_OP /\ IpTarget[c] = "sub_msk"
          \/ c = DHCP_SRV_ID_OP /\ IpTarget[c] = "srv_id"
          \/ c = DHCP_RQT_ID_OP /\ IpTarget[c] = "rqt_id"
          \/ c = DHCP_DNS_OP /\ IpTarget[c] = "dns_id"
      BY <1>5 DEF IpTarget
    <2>. QED  BY <1>1, <2>1, <2>2, <2>3 DEF IsStored, IpOf
  <1>6. CASE /\ c \notin {DHCP_MSG_OP, DHCP_HST_NAME_OP, DHCP_CLT_ID_OP}
             /\ c \notin DOMAIN IpTarget
    <2>1. s = opt
      BY <1>6 DEF Stored
    <2>. QED  BY <1>1, <1>6, <2>1 DEF IsStored, IpOf, IpTarget
  <1>. QED  BY <1>2, <1>3, <1>4, <1>5, <1>6

(* How far the reader moves at an option of a code with n bytes of value.  *)
IsRead(c, n) ==
  /\ n \in 0 .. 253 /\ At(ptr + 1) = n
  /\ dhcp_opt_len(c) = 2 + n
  /\ Reads(c) \in 1 .. 2 + n
  /\ c # DHCP_END_OP
  /\ c = DHCP_MSG_OP => n = 1
  /\ c = DHCP_CLT_ID_OP => n >= ETHER_ADDR_L
  /\ c \in DOMAIN IpTarget => n >= IP_ADDR_L

(* An option of a readable length is read to its end.                      *)
LEMMA StepLength ==
  ASSUME NEW c \in Known, NEW n \in ValueLengths(c), At(ptr + 1) = n % 256
  PROVE  IsRead(c, n)
  <1> USE DEF DHCP_MSG_OP, DHCP_HST_NAME_OP, DHCP_CLT_ID_OP, DHCP_SUB_MSK_OP, DHCP_RNW_TIME_OP,
          DHCP_RBN_TIME_OP, DHCP_IP_LEASE_TIME_OP, DHCP_SRV_ID_OP, DHCP_RTR_ID_OP,
          DHCP_RQT_ID_OP, DHCP_DNS_OP, DHCP_END_OP, ETHER_ADDR_L, IP_ADDR_L
  <1>1. n \in 0 .. 253
    BY DEF ValueLengths
  <1>2. n % 256 = n /\ (2 + n) % 256 = 2 + n
    BY <1>1
  <1>3. At(ptr + 1) = n
    BY <1>2
  <1>4. c \in {53, 12, 61, 1, 58, 59, 51, 54, 3, 50, 6}
    BY DEF Known
  <1>5. DOMAIN IpTarget = {1, 58, 54, 3, 50, 6}
    BY DEF IpTarget
  <1>6. /\ c = 53 => n = 1
        /\ c = 61 => n >= 6
        /\ c \in {1, 54, 50, 59, 51} => n = 4
        /\ c \in {58, 3, 6} => n >= 4
    BY DEF ValueLengths
  <1>7. dhcp_opt_len(c) = 2 + n
    BY <1>1, <1>2, <1>3, <1>4, <1>6 DEF dhcp_opt_len
  <1>8. Reads(c) \in 1 .. 2 + n
    BY <1>1, <1>3, <1>4, <1>5, <1>6 DEF Reads
  <1>. QED  BY <1>1, <1>3, <1>4, <1>5, <1>6, <1>7, <1>8 DEF IsRead

(* At a byte that looks like no option the reader moves on by one byte.    *)
LEMMA StepByte ==
  ASSUME NEW c, c \notin Known \union {DHCP_END_OP}
  PROVE  dhcp_opt_len(c) = 1 /\ Reads(c) = 1 /\ Stored(c) = opt
  BY DEF dhcp_opt_len, Reads, Stored, IpTarget, Known

(* Lengths of what is stored.                                              *)
LEMMA FromLength ==
  ASSUME NEW i, NEW n \in Nat
  PROVE  Len(From(i, n)) = n
  BY DEF From

(* Every option leaves the struct's fields their sizes.                    *)
LEMMA StoredInv ==
  ASSUME ListInv, OptInv, ptr \in Nat, NEW c, opt' = Stored(c)
  PROVE  OptInv'
  <1>1. At(ptr + 1) \in 0 .. 255
    <2>1. \A k \in 1 .. Len(field) : field[k] \in 0 .. 255
      <3>1. field \in Seq(Byte)
        BY FirstOption, Layout
      <3>2. \A k \in 1 .. Len(field) : field[k] \in Byte
        BY <3>1
      <3>. QED  BY <3>2, Zenon DEF Byte
    <2>2. Len(field) \in Nat
      BY FirstOption, Layout
    <2>. QED  BY <2>1, <2>2 DEF At
  <1>2. /\ Len(From(ptr + 2, At(ptr + 1))) <= 255
        /\ Len(From(ptr + 2, ETHER_ADDR_L)) = ETHER_ADDR_L
        /\ Len(From(ptr + 2, IP_ADDR_L)) = IP_ADDR_L
    <2>1. At(ptr + 1) \in Nat /\ ETHER_ADDR_L \in Nat /\ IP_ADDR_L \in Nat
      BY <1>1 DEF ETHER_ADDR_L, IP_ADDR_L
    <2>2. Len(From(ptr + 2, At(ptr + 1))) = At(ptr + 1)
      BY <2>1, FromLength, Zenon
    <2>3. Len(From(ptr + 2, At(ptr + 1))) <= 255
      <3>1. \A k \in 0 .. 255 : k <= 255
        OBVIOUS
      <3>. QED  BY <1>1, <2>2, <3>1, Zenon
    <2>. QED  BY <2>1, <2>3, FromLength, Zenon
  <1>3. Message(At(ptr + 2)) \in MsgSet
    BY DEF Message, MsgSet
  <1> DEFINE s == opt'
  <1>4. s = Stored(c) /\ DOMAIN opt = DOMAIN no_opt
    BY DEF OptInv
  <1>. HIDE DEF s
  <1>5. /\ DOMAIN s = DOMAIN no_opt
        /\ s.dhcp_msg = IF c = DHCP_MSG_OP THEN Message(At(ptr + 2)) ELSE opt.dhcp_msg
        /\ s.hst_name = IF c = DHCP_HST_NAME_OP THEN From(ptr + 2, At(ptr + 1)) ELSE opt.hst_name
        /\ s.clt_id = IF c = DHCP_CLT_ID_OP THEN From(ptr + 2, ETHER_ADDR_L) ELSE opt.clt_id
        /\ s.rtr_id = IpOf({DHCP_RTR_ID_OP, DHCP_RNW_TIME_OP}, c, opt.rtr_id)
        /\ s.sub_msk = IpOf({DHCP_SUB_MSK_OP}, c, opt.sub_msk)
        /\ s.srv_id = IpOf({DHCP_SRV_ID_OP}, c, opt.srv_id)
        /\ s.rqt_id = IpOf({DHCP_RQT_ID_OP}, c, opt.rqt_id)
        /\ s.dns_id = IpOf({DHCP_DNS_OP}, c, opt.dns_id)
    BY <1>4, StoredFields DEF IsStored
  <1>. QED  BY <1>2, <1>3, <1>5 DEF OptInv, IpOf, s

(* The struct after i options, every field of it: AgreesWithSender leaves  *)
(* out what the reader makes of a client id and of a renewal time, but the *)
(* invariant has to say it.                                                *)
Holds(s, i) ==
  LET First(codes, n) == SubSeq(LastValue(Passed(i), codes, Zeros(n)), 1, n)
      Ip(code) == First({code}, IP_ADDR_L)
      msg == LastValue(Passed(i), {DHCP_MSG_OP}, << 0 >>)[1]
  IN  /\ s.dhcp_msg = IF msg \in 1 .. 8 THEN dhcp_msg_t[msg] ELSE "INVALID"
      /\ s.hst_name = LastValue(Passed(i), {DHCP_HST_NAME_OP}, << >>)
      /\ s.clt_id = First({DHCP_CLT_ID_OP}, ETHER_ADDR_L)
      /\ s.rtr_id = First({DHCP_RTR_ID_OP, DHCP_RNW_TIME_OP}, IP_ADDR_L)
      /\ s.sub_msk = Ip(DHCP_SUB_MSK_OP)
      /\ s.srv_id = Ip(DHCP_SRV_ID_OP)
      /\ s.rqt_id = Ip(DHCP_RQT_ID_OP)
      /\ s.dns_id = Ip(DHCP_DNS_OP)

(* Without a renewal time among them, the options give the router.         *)
LEMMA HoldsAgrees ==
  ASSUME NEW s, NEW i, Holds(s, i)
  PROVE  Agrees(s, i)
  <1> DEFINE os == Passed(i)
             both == { k \in DOMAIN os : os[k].code \in {DHCP_RTR_ID_OP, DHCP_RNW_TIME_OP} }
             one == { k \in DOMAIN os : os[k].code \in {DHCP_RTR_ID_OP} }
  <1>1. ASSUME \A k \in DOMAIN os : os[k].code # DHCP_RNW_TIME_OP
        PROVE  LastValue(os, {DHCP_RTR_ID_OP, DHCP_RNW_TIME_OP}, Zeros(IP_ADDR_L))
               = LastValue(os, {DHCP_RTR_ID_OP}, Zeros(IP_ADDR_L))
    <2>1. both = one
      BY <1>1, Zenon
    <2>. QED  BY <2>1, Zenon DEF LastValue
  <1>. QED  BY <1>1, Zenon DEF Holds, Agrees

(* A reader that has filled in s has read i options: it is at the end of   *)
(* the i-th, or inside the next one, for which it has no case.             *)
IsAfter(i, s, p) ==
  /\ Holds(s, i)
  /\ \/ p = EndOf(i)
     \/ /\ i < Len(options) /\ options[i + 1].code \notin Known
        /\ p \in EndOf(i) .. EndOf(i + 1) - 1

(* The reader has always read some number of options, and in the end all.  *)
WalkInv ==
  /\ status = "start" => opt = no_opt
  /\ Readable /\ status # "start" =>
       /\ status # "lost"
       /\ \E i \in 0 .. Len(options) : IsAfter(i, opt, ptr)
       /\ status = "done" => ptr = EndOf(Len(options))

(* The reader's own variables.                                             *)
StateInv ==
  /\ ptr \in 0 .. OPT_MAX_L + 255
  /\ cookie_status \in {"OK", "NOK"}
  /\ status \in {"start", "walking", "done", "lost"}

(* The inductive invariant of the reader.                                  *)
IInv == ListInv /\ OptInv /\ StateInv /\ WalkInv

(* The empty struct holds what no options say.                             *)
LEMMA HoldsNone == Holds(no_opt, 0)
  <1>1. \A n \in {4, 6} : SubSeq(Zeros(n), 1, n) = Zeros(n)
    <2>1. \A n \in Nat : Zeros(n) = [k \in 1 .. n |-> 0] /\ Zeros(n) \in Seq(Nat)
                         /\ Len(Zeros(n)) = n
      BY DEF Zeros
    <2>. QED  BY <2>1
  <1>2. << 0 >>[1] \notin 1 .. 8
    OBVIOUS
  <1>. QED  BY <1>1, <1>2, PassedNone, Zenon DEF Holds, no_opt, IP_ADDR_L, ETHER_ADDR_L

(* An option that the reader can read.                                     *)
LEMMA HoldsStep ==
  ASSUME ListInv, OptInv, NEW i \in 0 .. Len(options), i < Len(options), ptr = EndOf(i),
         NEW o, o = options[i + 1], o.code \in Known, Len(o.value) \in ValueLengths(o.code),
         Holds(opt, i), NEW s, s = Stored(o.code)
  PROVE  Holds(s, i + 1)
  <1> DEFINE c == o.code
             m == Len(o.value)
             V(codes, d) == LastValue(Passed(i), codes, d)
             W(codes, d) == LastValue(Passed(i + 1), codes, d)
  <1>1. /\ m \in Nat /\ At(ptr) = c /\ At(ptr + 1) = m % 256
        /\ \A n \in 0 .. m : From(ptr + 2, n) = SubSeq(o.value, 1, n)
        /\ \A k \in 0 .. m + 1 : At(ptr + k) = Bytes(o)[k + 1]
        /\ o \in OptionSet /\ o.value \in Seq(Byte)
    <2>1. /\ o \in OptionSet /\ Len(o.value) \in Nat
          /\ At(EndOf(i)) = o.code /\ At(EndOf(i) + 1) = Len(o.value) % 256
          /\ \A k \in 0 .. Len(o.value) + 1 : At(EndOf(i) + k) = Bytes(o)[k + 1]
          /\ \A n \in 0 .. Len(o.value) : From(EndOf(i) + 2, n) = SubSeq(o.value, 1, n)
      <3>1. Sees(i, o)
        BY ReaderSees, Zenon
      <3>. QED  BY <3>1, Zenon DEF Sees
    <2>2. o.value \in Seq(Byte)
      BY <2>1 DEF OptionSet
    <2>. QED  BY <2>1, <2>2, Zenon
  <1>2. /\ At(ptr + 1) = m
        /\ c = DHCP_MSG_OP => m = 1
        /\ c = DHCP_CLT_ID_OP => m >= ETHER_ADDR_L
        /\ c \in DOMAIN IpTarget => m >= IP_ADDR_L
    <2>1. IsRead(c, m)
      BY <1>1, StepLength, Zenon
    <2>. QED  BY <2>1, Zenon DEF IsRead
  <1>3. /\ s.dhcp_msg = IF c = DHCP_MSG_OP THEN Message(At(ptr + 2)) ELSE opt.dhcp_msg
        /\ s.hst_name = IF c = DHCP_HST_NAME_OP THEN From(ptr + 2, At(ptr + 1)) ELSE opt.hst_name
        /\ s.clt_id = IF c = DHCP_CLT_ID_OP THEN From(ptr + 2, ETHER_ADDR_L) ELSE opt.clt_id
        /\ s.rtr_id = IpOf({DHCP_RTR_ID_OP, DHCP_RNW_TIME_OP}, c, opt.rtr_id)
        /\ s.sub_msk = IpOf({DHCP_SUB_MSK_OP}, c, opt.sub_msk)
        /\ s.srv_id = IpOf({DHCP_SRV_ID_OP}, c, opt.srv_id)
        /\ s.rqt_id = IpOf({DHCP_RQT_ID_OP}, c, opt.rqt_id)
        /\ s.dns_id = IpOf({DHCP_DNS_OP}, c, opt.dns_id)
    <2>1. DOMAIN opt = DOMAIN no_opt
      BY DEF OptInv
    <2>2. IsStored(c, s)
      BY <2>1, StoredFields, Zenon
    <2>. QED  BY <2>2, Zenon DEF IsStored
  <1>4. ASSUME NEW codes, NEW d
        PROVE  W(codes, d) = IF c \in codes THEN o.value ELSE V(codes, d)
    <2>1. options \in Seq(OptionSet)
      BY DEF ListInv
    <2>2. \A x : x = options[i + 1] =>
            \A cs, e : LastValue(Passed(i + 1), cs, e)
                       = IF x.code \in cs THEN x.value ELSE LastValue(Passed(i), cs, e)
      BY <2>1, PassedStep, Zenon
    <2>. QED  BY <2>2, Zenon
  <1>5. /\ opt.dhcp_msg = Message(V({DHCP_MSG_OP}, << 0 >>)[1])
        /\ opt.hst_name = V({DHCP_HST_NAME_OP}, << >>)
        /\ opt.clt_id = SubSeq(V({DHCP_CLT_ID_OP}, Zeros(ETHER_ADDR_L)), 1, ETHER_ADDR_L)
        /\ opt.rtr_id = SubSeq(V({DHCP_RTR_ID_OP, DHCP_RNW_TIME_OP}, Zeros(IP_ADDR_L)), 1, IP_ADDR_L)
        /\ opt.sub_msk = SubSeq(V({DHCP_SUB_MSK_OP}, Zeros(IP_ADDR_L)), 1, IP_ADDR_L)
        /\ opt.srv_id = SubSeq(V({DHCP_SRV_ID_OP}, Zeros(IP_ADDR_L)), 1, IP_ADDR_L)
        /\ opt.rqt_id = SubSeq(V({DHCP_RQT_ID_OP}, Zeros(IP_ADDR_L)), 1, IP_ADDR_L)
        /\ opt.dns_id = SubSeq(V({DHCP_DNS_OP}, Zeros(IP_ADDR_L)), 1, IP_ADDR_L)
    BY DEF Holds, Message
  <1>6. s.dhcp_msg = Message(W({DHCP_MSG_OP}, << 0 >>)[1])
    <2>1. CASE c = DHCP_MSG_OP
      <3>1. 2 \in 0 .. m + 1 /\ 1 \in 1 .. m
        <4>1. m = 1
          BY <1>2, <2>1, Zenon
        <4>. HIDE DEF m
        <4>. QED  BY <4>1
      <3>2. At(ptr + 2) = Bytes(o)[2 + 1] /\ Bytes(o)[2 + 1] = o.value[1]
        BY <1>1, <3>1, BytesFacts, Zenon
      <3>3. W({DHCP_MSG_OP}, << 0 >>) = o.value
        BY <1>4, <2>1, Zenon
      <3>. QED  BY <1>3, <2>1, <3>2, <3>3, Zenon
    <2>2. CASE c # DHCP_MSG_OP
      <3>1. W({DHCP_MSG_OP}, << 0 >>) = V({DHCP_MSG_OP}, << 0 >>)
        BY <1>4, <2>2, Zenon
      <3>2. s.dhcp_msg = opt.dhcp_msg
        BY <1>3, <2>2, Zenon
      <3>. QED  BY <1>5, <3>1, <3>2, Zenon
    <2>. QED  BY <2>1, <2>2
  <1>7. s.hst_name = W({DHCP_HST_NAME_OP}, << >>)
    <2>1. CASE c = DHCP_HST_NAME_OP
      <3>1. From(ptr + 2, m) = o.value
        <4>1. m \in 0 .. m /\ SubSeq(o.value, 1, Len(o.value)) = o.value
          BY <1>1
        <4>. QED  BY <1>1, <4>1, Zenon
      <3>. QED  BY <1>2, <1>3, <1>4, <2>1, <3>1, Zenon
    <2>2. CASE c # DHCP_HST_NAME_OP
      <3>1. W({DHCP_HST_NAME_OP}, << >>) = V({DHCP_HST_NAME_OP}, << >>)
        BY <1>4, <2>2, Zenon
      <3>2. s.hst_name = opt.hst_name
        BY <1>3, <2>2, Zenon
      <3>. QED  BY <1>5, <3>1, <3>2, Zenon
    <2>. QED  BY <2>1, <2>2
  <1>8. ASSUME NEW codes, NEW n \in Nat, c \in codes => n <= m
        PROVE  SubSeq(W(codes, Zeros(n)), 1, n)
               = IF c \in codes THEN From(ptr + 2, n) ELSE SubSeq(V(codes, Zeros(n)), 1, n)
    <2>1. CASE c \in codes
      <3>1. n \in 0 .. m
        <4>1. \A k, l \in Nat : k <= l => k \in 0 .. l
          OBVIOUS
        <4>. QED  BY <1>1, <1>8, <2>1, <4>1, Zenon
      <3>2. From(ptr + 2, n) = SubSeq(o.value, 1, n)
        BY <1>1, <3>1, Zenon
      <3>3. W(codes, Zeros(n)) = o.value
        BY <1>4, <2>1, Zenon
      <3>. QED  BY <2>1, <3>2, <3>3, Zenon
    <2>2. CASE c \notin codes
      <3>1. W(codes, Zeros(n)) = V(codes, Zeros(n))
        BY <1>4, <2>2, Zenon
      <3>. QED  BY <2>2, <3>1, Zenon
    <2>. QED  BY <2>1, <2>2
  <1>9. s.clt_id = SubSeq(W({DHCP_CLT_ID_OP}, Zeros(ETHER_ADDR_L)), 1, ETHER_ADDR_L)
    <2>1. ETHER_ADDR_L \in Nat /\ (c = DHCP_CLT_ID_OP => ETHER_ADDR_L <= m)
      BY <1>1, <1>2 DEF ETHER_ADDR_L
    <2>. QED  BY <1>3, <1>5, <1>8, <2>1
  <1>10. ASSUME NEW codes, codes \subseteq DOMAIN IpTarget
         PROVE  SubSeq(W(codes, Zeros(IP_ADDR_L)), 1, IP_ADDR_L)
                = IpOf(codes, c, SubSeq(V(codes, Zeros(IP_ADDR_L)), 1, IP_ADDR_L))
    <2>1. IP_ADDR_L \in Nat /\ (c \in codes => IP_ADDR_L <= m)
      BY <1>1, <1>2, <1>10 DEF IP_ADDR_L
    <2>. QED  BY <1>8, <2>1 DEF IpOf
  <1>11. /\ {DHCP_RTR_ID_OP, DHCP_RNW_TIME_OP} \subseteq DOMAIN IpTarget
         /\ {DHCP_SUB_MSK_OP} \subseteq DOMAIN IpTarget
         /\ {DHCP_SRV_ID_OP} \subseteq DOMAIN IpTarget
         /\ {DHCP_RQT_ID_OP} \subseteq DOMAIN IpTarget
         /\ {DHCP_DNS_OP} \subseteq DOMAIN IpTarget
    BY DEF IpTarget
  <1>12. s.rtr_id = SubSeq(W({DHCP_RTR_ID_OP, DHCP_RNW_TIME_OP}, Zeros(IP_ADDR_L)), 1, IP_ADDR_L)
    <2>1. s.rtr_id = IpOf({DHCP_RTR_ID_OP, DHCP_RNW_TIME_OP}, c, opt.rtr_id)
      BY <1>3, Zenon
    <2>2. opt.rtr_id = SubSeq(V({DHCP_RTR_ID_OP, DHCP_RNW_TIME_OP}, Zeros(IP_ADDR_L)), 1, IP_ADDR_L)
      BY <1>5, Zenon
    <2>. QED  BY <1>10, <1>11, <2>1, <2>2, Zenon
  <1>13. s.sub_msk = SubSeq(W({DHCP_SUB_MSK_OP}, Zeros(IP_ADDR_L)), 1, IP_ADDR_L)
    <2>1. s.sub_msk = IpOf({DHCP_SUB_MSK_OP}, c, opt.sub_msk)
      BY <1>3, Zenon
    <2>2. opt.sub_msk = SubSeq(V({DHCP_SUB_MSK_OP}, Zeros(IP_ADDR_L)), 1, IP_ADDR_L)
      BY <1>5, Zenon
    <2>. QED  BY <1>10, <1>11, <2>1, <2>2, Zenon
  <1>14. s.srv_id = SubSeq(W({DHCP_SRV_ID_OP}, Zeros(IP_ADDR_L)), 1, IP_ADDR_L)
    <2>1. s.srv_id = IpOf({DHCP_SRV_ID_OP}, c, opt.srv_id)
      BY <1>3, Zenon
    <2>2. opt.srv_id = SubSeq(V({DHCP_SRV_ID_OP}, Zeros(IP_ADDR_L)), 1, IP_ADDR_L)
      BY <1>5, Zenon
    <2>. QED  BY <1>10, <1>11, <2>1, <2>2, Zenon
  <1>15. s.rqt_id = SubSeq(W({DHCP_RQT_ID_OP}, Zeros(IP_ADDR_L)), 1, IP_ADDR_L)
    <2>1. s.rqt_id = IpOf({DHCP_RQT_ID_OP}, c, opt.rqt_id)
      BY <1>3, Zenon
    <2>2. opt.rqt_id = SubSeq(V({DHCP_RQT_ID_OP}, Zeros(IP_ADDR_L)), 1, IP_ADDR_L)
      BY <1>5, Zenon
    <2>. QED  BY <1>10, <1>11, <2>1, <2>2, Zenon
  <1>16. s.dns_id = SubSeq(W({DHCP_DNS_OP}, Zeros(IP_ADDR_L)), 1, IP_ADDR_L)
    <2>1. s.dns_id = IpOf({DHCP_DNS_OP}, c, opt.dns_id)
      BY <1>3, Zenon
    <2>2. opt.dns_id = SubSeq(V({DHCP_DNS_OP}, Zeros(IP_ADDR_L)), 1, IP_ADDR_L)
      BY <1>5, Zenon
    <2>. QED  BY <1>10, <1>11, <2>1, <2>2, Zenon
  <1>. QED  BY <1>6, <1>7, <1>9, <1>12, <1>13, <1>14, <1>15, <1>16, Zenon DEF Holds, Message

(* An option that the reader has no case for.                              *)
LEMMA HoldsSkip ==
  ASSUME ListInv, NEW i \in 0 .. Len(options), i < Len(options),
         options[i + 1].code \notin Known, Holds(opt, i)
  PROVE  Holds(opt, i + 1)
  <1>1. ASSUME NEW codes, NEW d, codes \subseteq Known
        PROVE  LastValue(Passed(i + 1), codes, d) = LastValue(Passed(i), codes, d)
    BY <1>1, PassedStep DEF ListInv
  <1>2. /\ {DHCP_RTR_ID_OP, DHCP_RNW_TIME_OP} \subseteq Known
        /\ \A x \in {DHCP_MSG_OP, DHCP_HST_NAME_OP, DHCP_CLT_ID_OP, DHCP_SUB_MSK_OP,
                     DHCP_SRV_ID_OP, DHCP_RQT_ID_OP, DHCP_DNS_OP} : {x} \subseteq Known
    BY DEF Known
  <1>. QED  BY <1>1, <1>2, Zenon DEF Holds

(* What the reader finds in the field is a byte.                           *)
LEMMA AtByte ==
  ASSUME ListInv, NEW p \in Nat
  PROVE  At(p) \in 0 .. 255
  <1>1. field \in Seq(Byte)
    BY FirstOption, Layout
  <1>2. \A k \in 1 .. Len(field) : field[k] \in 0 .. 255
    <2>1. \A k \in 1 .. Len(field) : field[k] \in Byte
      BY <1>1
    <2>. QED  BY <2>1, Zenon DEF Byte
  <1>3. Len(field) \in Nat
    BY <1>1
  <1>. QED  BY <1>2, <1>3 DEF At

(* At the end of the list there is the end code.                           *)
LEMMA TurnAtEnd ==
  ASSUME ListInv, ptr = EndOf(Len(options))
  PROVE  At(ptr) = DHCP_END_OP /\ InField
  <1>1. Len(options) \in Nat /\ Len(options) \in 0 .. Len(options)
    <2>1. Len(options) \in Nat
      BY PiecesFacts DEF ListInv
    <2>. QED  BY <2>1
  <1>2. /\ field \in Seq(Byte) /\ ptr \in Nat /\ ptr < Len(field)
        /\ field[ptr + 1] = DHCP_END_OP
    BY <1>1, Layout
  <1>3. At(ptr) = DHCP_END_OP
    BY <1>2, Zenon DEF At
  <1>4. Reads(At(ptr)) = 1
    BY <1>3 DEF Reads, IpTarget, DHCP_END_OP, DHCP_MSG_OP, DHCP_HST_NAME_OP, DHCP_CLT_ID_OP,
               DHCP_SUB_MSK_OP, DHCP_RNW_TIME_OP, DHCP_SRV_ID_OP, DHCP_RTR_ID_OP,
               DHCP_RQT_ID_OP, DHCP_DNS_OP
  <1>5. Len(field) \in Nat /\ Len(field) <= OPT_MAX_L
    <2>1. field \in Seq(Byte)
      BY <1>2
    <2>. QED  BY <2>1 DEF ListInv
  <1>6. ptr < OPT_MAX_L /\ ptr + 1 <= OPT_MAX_L
    BY <1>2, <1>5 DEF OPT_MAX_L
  <1>. QED  BY <1>3, <1>4, <1>6, Zenon DEF InField

(* A turn at an option that the reader has a case for.                     *)
LEMMA TurnKnown ==
  ASSUME ListInv, OptInv, NEW i \in 0 .. Len(options), i < Len(options), ptr = EndOf(i),
         NEW o, o = options[i + 1], o.code \in Known, Len(o.value) \in ValueLengths(o.code),
         Holds(opt, i)
  PROVE  /\ InField /\ At(ptr) # DHCP_END_OP
         /\ Holds(Stored(At(ptr)), i + 1)
         /\ ptr + dhcp_opt_len(At(ptr)) = EndOf(i + 1)
  <1> DEFINE c == o.code
             m == Len(o.value)
  <1>1. /\ At(ptr) = c /\ At(ptr + 1) = m % 256 /\ m \in Nat
        /\ EndOf(i + 1) = ptr + 2 + m /\ EndOf(i + 1) < Len(field)
    <2>1. Sees(i, o)
      BY ReaderSees, Zenon
    <2>. QED  BY <2>1, Zenon DEF Sees
  <1>2. /\ dhcp_opt_len(c) = 2 + m /\ Reads(c) \in 1 .. 2 + m
        /\ c # DHCP_END_OP
    <2>1. IsRead(c, m)
      BY <1>1, StepLength, Zenon
    <2>. QED  BY <2>1, Zenon DEF IsRead
  <1>3. ptr \in Nat
    BY Layout, Zenon
  <1>4. Len(field) \in Nat /\ Len(field) <= OPT_MAX_L
    <2>1. field \in Seq(Byte)
      BY Layout
    <2>. QED  BY <2>1 DEF ListInv
  <1>5. Holds(Stored(c), i + 1)
    BY HoldsStep, Zenon
  <1>. HIDE DEF c, m
  <1>6. ptr < OPT_MAX_L /\ ptr + Reads(c) <= OPT_MAX_L /\ ptr + dhcp_opt_len(c) = EndOf(i + 1)
    <2>1. \A a, n, l \in Nat : \A r \in 1 .. 2 + n :
            a + 2 + n < l /\ l <= OPT_MAX_L => a < OPT_MAX_L /\ a + r <= OPT_MAX_L
      BY DEF OPT_MAX_L
    <2>2. \A a, n \in Nat : a + (2 + n) = a + 2 + n
      OBVIOUS
    <2>3. ptr < OPT_MAX_L /\ ptr + Reads(c) <= OPT_MAX_L
      <3>1. ptr + 2 + m < Len(field) /\ Reads(c) \in 1 .. 2 + m
        BY <1>1, <1>2, Zenon
      <3>. QED  BY <1>1, <1>3, <1>4, <2>1, <3>1, Zenon
    <2>4. ptr + dhcp_opt_len(c) = EndOf(i + 1)
      BY <1>1, <1>2, <1>3, <2>2, Zenon
    <2>. QED  BY <2>3, <2>4
  <1>. QED  BY <1>1, <1>2, <1>5, <1>6, Zenon DEF InField

(* No byte of an option looks like an option that the reader has a case    *)
(* for, or like the end.                                                   *)
IsHarmless(o) == \A k \in DOMAIN Bytes(o) : Bytes(o)[k] \notin Known \union {DHCP_END_OP}

(* A turn inside an option that the reader has no case for.                *)
LEMMA TurnUnknown ==
  ASSUME ListInv, NEW i \in 0 .. Len(options), i < Len(options),
         NEW o, o = options[i + 1], ptr \in EndOf(i) .. EndOf(i + 1) - 1,
         IsHarmless(o)
  PROVE  /\ InField /\ At(ptr) # DHCP_END_OP
         /\ Stored(At(ptr)) = opt
         /\ ptr + dhcp_opt_len(At(ptr)) = ptr + 1
  <1> DEFINE m == Len(o.value)
             p == EndOf(i)
             q == EndOf(i + 1)
  <1>1. /\ o \in OptionSet /\ m \in Nat /\ p \in Nat /\ q = p + 2 + m /\ q < Len(field)
        /\ \A k \in 0 .. m + 1 : At(p + k) = Bytes(o)[k + 1]
    <2>1. Sees(i, o)
      BY ReaderSees, Zenon
    <2>. QED  BY <2>1, Zenon DEF Sees
  <1>2. DOMAIN Bytes(o) = 1 .. m + 2
    <2>1. Bytes(o) \in Seq(Byte) /\ Len(Bytes(o)) = m + 2
      BY <1>1, BytesFacts, Zenon
    <2>. QED  BY <2>1
  <1>3. Len(field) \in Nat /\ Len(field) <= OPT_MAX_L
    <2>1. field \in Seq(Byte)
      BY Layout
    <2>. QED  BY <2>1 DEF ListInv
  <1>4. ptr \in p .. q - 1
    OBVIOUS
  <1>. HIDE DEF m, p, q
  <1>5. /\ ptr - p \in 0 .. m + 1 /\ (ptr - p) + 1 \in 1 .. m + 2 /\ p + (ptr - p) = ptr
        /\ ptr < OPT_MAX_L /\ ptr + 1 <= OPT_MAX_L
    BY <1>1, <1>3, <1>4 DEF OPT_MAX_L
  <1>6. At(ptr) \notin Known \union {DHCP_END_OP}
    <2>1. At(p + (ptr - p)) = Bytes(o)[(ptr - p) + 1]
      BY <1>1, <1>5, Zenon
    <2>2. At(ptr) = Bytes(o)[(ptr - p) + 1]
      BY <1>5, <2>1, Zenon
    <2>. QED  BY <1>2, <1>5, <2>2, Zenon DEF IsHarmless
  <1>7. dhcp_opt_len(At(ptr)) = 1 /\ Reads(At(ptr)) = 1 /\ Stored(At(ptr)) = opt
    BY <1>6, StepByte, Zenon
  <1>. QED  BY <1>5, <1>6, <1>7, Zenon DEF InField

(* A turn, wherever the reader is.                                         *)
LEMMA Turn ==
  ASSUME ListInv, OptInv, Readable, NEW i \in 0 .. Len(options), IsAfter(i, opt, ptr)
  PROVE  /\ InField
         /\ At(ptr) = DHCP_END_OP => ptr = EndOf(Len(options))
         /\ At(ptr) # DHCP_END_OP =>
              \E j \in 0 .. Len(options) :
                IsAfter(j, Stored(At(ptr)), ptr + dhcp_opt_len(At(ptr)))
  <1>1. Len(options) \in Nat /\ DOMAIN options = 1 .. Len(options)
    BY PiecesFacts DEF ListInv
  <1>2. Holds(opt, i)
    BY Zenon DEF IsAfter
  <1>3. CASE i = Len(options)
    <2>1. ~ (i < Len(options))
      BY <1>1, <1>3
    <2>2. ptr = EndOf(Len(options))
      BY <1>3, <2>1, Zenon DEF IsAfter
    <2>. QED  BY <2>2, TurnAtEnd, Zenon
  <1>4. CASE i < Len(options)
    <2>1. i + 1 \in 0 .. Len(options) /\ i + 1 \in DOMAIN options
      BY <1>1, <1>4
    <2>2. PICK o : o = options[i + 1]
      OBVIOUS
    <2>3. \/ o.code \in Known /\ Len(o.value) \in ValueLengths(o.code)
          \/ \A k \in DOMAIN Bytes(o) : Bytes(o)[k] \notin Known \union {DHCP_END_OP}
      BY <2>1, <2>2, Zenon DEF Readable
    <2>4. /\ o \in OptionSet /\ Len(o.value) \in Nat /\ EndOf(i) \in Nat
          /\ EndOf(i + 1) = EndOf(i) + 2 + Len(o.value)
      <3>1. Sees(i, o)
        BY <1>4, <2>2, ReaderSees, Zenon
      <3>. QED  BY <3>1, Zenon DEF Sees
    <2>5. CASE o.code \in Known
      <3>1. ptr = EndOf(i)
        BY <2>2, <2>5, Zenon DEF IsAfter
      <3>2. Len(o.value) \in ValueLengths(o.code)
        <4>1. 1 \in DOMAIN Bytes(o) /\ Bytes(o)[1] = o.code
          <5>1. Bytes(o) \in Seq(Byte) /\ Len(Bytes(o)) \in Nat /\ Len(Bytes(o)) >= 2
            BY <2>4, BytesLength
          <5>2. 1 \in DOMAIN Bytes(o)
            BY <5>1
          <5>. QED  BY <2>4, <5>2, BytesFacts, Zenon
        <4>. QED  BY <2>3, <2>5, <4>1, Zenon
      <3>3. /\ InField /\ At(ptr) # DHCP_END_OP
            /\ Holds(Stored(At(ptr)), i + 1)
            /\ ptr + dhcp_opt_len(At(ptr)) = EndOf(i + 1)
        BY <1>2, <1>4, <2>2, <2>5, <3>1, <3>2, TurnKnown, Zenon
      <3>4. IsAfter(i + 1, Stored(At(ptr)), ptr + dhcp_opt_len(At(ptr)))
        BY <3>3, Zenon DEF IsAfter
      <3>. QED  BY <2>1, <3>3, <3>4, Zenon
    <2>6. CASE o.code \notin Known
      <3>1. ptr \in EndOf(i) .. EndOf(i + 1) - 1
        <4>1. EndOf(i) \in EndOf(i) .. EndOf(i + 1) - 1
          BY <2>4
        <4>. QED  BY <4>1, Zenon DEF IsAfter
      <3>2. /\ InField /\ At(ptr) # DHCP_END_OP
            /\ Stored(At(ptr)) = opt
            /\ ptr + dhcp_opt_len(At(ptr)) = ptr + 1
        BY <1>4, <2>2, <2>3, <2>6, <3>1, TurnUnknown, Zenon DEF IsHarmless
      <3>3. CASE ptr + 1 = EndOf(i + 1)
        <4>1. Holds(opt, i + 1)
          BY <1>2, <1>4, <2>2, <2>6, HoldsSkip, Zenon
        <4>2. IsAfter(i + 1, Stored(At(ptr)), ptr + dhcp_opt_len(At(ptr)))
          BY <3>2, <3>3, <4>1, Zenon DEF IsAfter
        <4>. QED  BY <2>1, <3>2, <4>2, Zenon
      <3>4. CASE ptr + 1 # EndOf(i + 1)
        <4>1. ptr + 1 \in EndOf(i) .. EndOf(i + 1) - 1
          BY <2>4, <3>1, <3>4
        <4>2. IsAfter(i, Stored(At(ptr)), ptr + dhcp_opt_len(At(ptr)))
          BY <1>2, <1>4, <2>2, <2>6, <3>2, <4>1, Zenon DEF IsAfter
        <4>. QED  BY <3>2, <4>2, Zenon
      <3>. QED  BY <3>3, <3>4
    <2>. QED  BY <2>5, <2>6
  <1>5. i = Len(options) \/ i < Len(options)
    <2>1. \A n \in Nat : \A k \in 0 .. n : k = n \/ k < n
      OBVIOUS
    <2>. QED  BY <1>1, <2>1, Zenon
  <1>. QED  BY <1>3, <1>4, <1>5, Zenon

-----------------------------------------------------------------------------

(* The options that the reader can read.                                   *)
ReadableSet == { o \in OptionSet : o.code \in Known /\ Len(o.value) \in ValueLengths(o.code) }

(* A list says what a shorter one says, except for the value of one code.  *)
IsUpdate(w, s, code, v, x) ==
  \A codes, d : LastValue(w, codes, d)
                = IF code \in codes /\ ~ IsZero(v) THEN x ELSE LastValue(s, codes, d)

(* What a list says of one code.                                           *)
ValueOf(w, code, d) == LastValue(w, {code}, d)

(* One more option, or none, appended to those written so far.             *)
LEMMA PartAppended ==
  ASSUME NEW S, S \subseteq OptionSet, NEW s \in Seq(S),
         NEW code, NEW v, NEW prefix, NEW w, w = s \o Option(code, v, prefix),
         ~ IsZero(v) => [code |-> code, value |-> prefix \o v] \in S
  PROVE  /\ w \in Seq(S)
         /\ IsUpdate(w, s, code, v, prefix \o v)
  <1>1. CASE IsZero(v)
    <2>1. Option(code, v, prefix) = << >>
      BY <1>1 DEF Option
    <2>2. s \o << >> = s
      OBVIOUS
    <2>3. w = s
      BY <2>1, <2>2, Zenon
    <2>4. IsUpdate(w, s, code, v, prefix \o v)
      BY <1>1, <2>3, Zenon DEF IsUpdate
    <2>. QED  BY <2>3, <2>4, Zenon
  <1>2. CASE ~ IsZero(v)
    <2>1. PICK o : o = [code |-> code, value |-> prefix \o v]
      OBVIOUS
    <2>2. o \in S /\ o \in OptionSet /\ o.code = code /\ o.value = prefix \o v
      BY <1>2, <2>1
    <2>3. Option(code, v, prefix) = << o >>
      BY <1>2, <2>1, Zenon DEF Option
    <2>4. \A x \in S : s \o << x >> = Append(s, x) /\ Append(s, x) \in Seq(S)
      OBVIOUS
    <2>5. w = Append(s, o) /\ w \in Seq(S)
      BY <2>2, <2>3, <2>4, Zenon
    <2>6. s \in Seq(OptionSet)
      OBVIOUS
    <2>7. \A t \in Seq(OptionSet), x \in OptionSet : \A codes, d :
            LastValue(Append(t, x), codes, d)
            = IF x.code \in codes THEN x.value ELSE LastValue(t, codes, d)
      BY LastAppended, Zenon
    <2>8. \A codes, d : LastValue(Append(s, o), codes, d)
                        = IF o.code \in codes THEN o.value ELSE LastValue(s, codes, d)
      BY <2>2, <2>6, <2>7
    <2>9. \A codes, d : LastValue(w, codes, d)
                        = IF code \in codes THEN prefix \o v ELSE LastValue(s, codes, d)
      BY <2>2, <2>5, <2>8, Zenon
    <2>10. IsUpdate(w, s, code, v, prefix \o v)
      BY <1>2, <2>9 DEF IsUpdate
    <2>. QED  BY <2>5, <2>10
  <1>. QED  BY <1>1, <1>2

(* A list says a message type and nothing else.                            *)
IsMessage(w, msg) ==
  /\ Message(LastValue(w, {DHCP_MSG_OP}, << 0 >>)[1]) = msg
  /\ \A codes, d : DHCP_MSG_OP \notin codes => LastValue(w, codes, d) = d

(* The message type alone.                                                 *)
LEMMA PartMessage ==
  ASSUME NEW S, S \subseteq OptionSet, NEW msg \in MsgSet, NEW w, w = MsgOption(msg),
         \A v \in 1 .. 8 : [code |-> DHCP_MSG_OP, value |-> << v >>] \in S
  PROVE  w \in Seq(S) /\ IsMessage(w, msg)
  <1>0. \A codes, d : LastValue(<< >>, codes, d) = d
    BY DEF LastValue
  <1>1. CASE \E v \in 1 .. 8 : dhcp_msg_t[v] = msg
    <2>1. PICK v \in 1 .. 8 : v = CHOOSE k \in 1 .. 8 : dhcp_msg_t[k] = msg
      BY <1>1
    <2>2. dhcp_msg_t[v] = msg
      BY <1>1, <2>1, Zenon
    <2>3. PICK o : o = [code |-> DHCP_MSG_OP, value |-> << v >>]
      OBVIOUS
    <2>4. o \in S /\ o \in OptionSet /\ o.code = DHCP_MSG_OP /\ o.value = << v >>
      BY <2>3
    <2>5. w = << o >>
      BY <1>1, <2>1, <2>3, Zenon DEF MsgOption
    <2>6. \A x \in S : << x >> = Append(<< >>, x) /\ Append(<< >>, x) \in Seq(S)
      OBVIOUS
    <2>7. w = Append(<< >>, o) /\ w \in Seq(S)
      BY <2>4, <2>5, <2>6, Zenon
    <2>8. << >> \in Seq(OptionSet)
      OBVIOUS
    <2>9. \A t \in Seq(OptionSet), x \in OptionSet : \A codes, d :
            LastValue(Append(t, x), codes, d)
            = IF x.code \in codes THEN x.value ELSE LastValue(t, codes, d)
      BY LastAppended, Zenon
    <2>15. \A codes, d : LastValue(Append(<< >>, o), codes, d)
                         = IF o.code \in codes THEN o.value ELSE LastValue(<< >>, codes, d)
      BY <2>4, <2>8, <2>9
    <2>16. \A codes, d : LastValue(w, codes, d)
                         = IF DHCP_MSG_OP \in codes THEN << v >> ELSE d
      <3> TAKE codes, d
      <3>1. LastValue(Append(<< >>, o), codes, d)
            = IF o.code \in codes THEN o.value ELSE LastValue(<< >>, codes, d)
        BY <2>15, Zenon
      <3>2. LastValue(<< >>, codes, d) = d
        BY <1>0, Zenon
      <3>. QED  BY <2>4, <2>7, <3>1, <3>2, Zenon
    <2>10. LastValue(w, {DHCP_MSG_OP}, << 0 >>) = << v >>
      BY <2>16, Zenon
    <2>14. \A codes, d : DHCP_MSG_OP \notin codes => LastValue(w, codes, d) = d
      BY <2>16, Zenon
    <2>11. << v >>[1] = v
      OBVIOUS
    <2>12. Message(v) = msg
      BY <2>1, <2>2, Zenon DEF Message
    <2>13. LastValue(w, {DHCP_MSG_OP}, << 0 >>)[1] = v
      BY <2>10, <2>11, Zenon
    <2>. QED  BY <2>7, <2>12, <2>13, <2>14, Zenon DEF IsMessage
  <1>2. CASE ~ \E v \in 1 .. 8 : dhcp_msg_t[v] = msg
    <2>1. msg = "INVALID"
      BY <1>2, Zenon DEF MsgSet
    <2>2. w = << >>
      BY <1>2, Zenon DEF MsgOption
    <2>3. w \in Seq(S)
      BY <2>2
    <2>4. << 0 >>[1] = 0 /\ 0 \notin 1 .. 8
      OBVIOUS
    <2>5. LastValue(w, {DHCP_MSG_OP}, << 0 >>)[1] = 0
      BY <1>0, <2>2, <2>4, Zenon
    <2>6. Message(0) = "INVALID"
      BY <2>4, Zenon DEF Message
    <2>. QED  BY <1>0, <2>1, <2>2, <2>3, <2>5, <2>6, Zenon DEF IsMessage
  <1>. QED  BY <1>1, <1>2

(* An array is a sequence.                                                 *)
LEMMA ArrayIsSeq ==
  ASSUME NEW S, NEW n \in Nat, NEW f \in [1 .. n -> S]
  PROVE  f \in Seq(S) /\ Len(f) = n
  OBVIOUS

(* The codes whose values the program writes as four bytes.                *)
FourByteCodes ==
  { DHCP_SUB_MSK_OP, DHCP_RTR_ID_OP, DHCP_RNW_TIME_OP, DHCP_RBN_TIME_OP,
    DHCP_IP_LEASE_TIME_OP, DHCP_SRV_ID_OP, DHCP_DNS_OP }

(* A number or an address as it lies in memory.                            *)
FourBytes == [1 .. 4 -> 0 .. 255]

(* Structs as OptionsAssumption has them.                                  *)
LEMMA SentTypes ==
  ASSUME NEW o \in Sent
  PROVE  /\ o.dhcp_msg \in MsgSet
         /\ o.hst_name \in Seq(1 .. 255)
         /\ o.clt_id \in [1 .. ETHER_ADDR_L -> 0 .. 255]
         /\ \A x \in {o.sub_msk, o.rnw_time, o.rbn_time, o.ip_lease_time,
                      o.srv_id, o.rtr_id, o.dns_id} : x \in FourBytes
  <1> DEFINE Address == [1 .. IP_ADDR_L -> 0 .. 255]
             Time == [1 .. 4 -> 0 .. 255]
             Structs == [dhcp_msg : MsgSet, hst_name : Seq(1 .. 255),
                         clt_id : [1 .. ETHER_ADDR_L -> 0 .. 255],
                         sub_msk : Address, rnw_time : Time, rbn_time : Time,
                         ip_lease_time : Time, srv_id : Address, rtr_id : Address,
                         rqt_id : Address, dns_id : Address]
  <1>1. o \in Structs
    <2>1. Sent \subseteq Structs
      BY OptionsAssumption, Zenon DEF MsgSet
    <2>. HIDE DEF Structs
    <2>. QED  BY <2>1, Zenon
  <1>2. Address = Time
    BY DEF IP_ADDR_L
  <1>. HIDE DEF Address, Time
  <1>3. /\ o.dhcp_msg \in MsgSet
        /\ o.hst_name \in Seq(1 .. 255)
        /\ o.clt_id \in [1 .. ETHER_ADDR_L -> 0 .. 255]
        /\ o.sub_msk \in Address /\ o.rnw_time \in Time /\ o.rbn_time \in Time
        /\ o.ip_lease_time \in Time /\ o.srv_id \in Address /\ o.rtr_id \in Address
        /\ o.dns_id \in Address
    BY <1>1
  <1>4. \A x \in {o.sub_msk, o.rnw_time, o.rbn_time, o.ip_lease_time,
                  o.srv_id, o.rtr_id, o.dns_id} : x \in Time
    BY <1>2, <1>3
  <1>. QED  BY <1>3, <1>4, Zenon DEF Time, FourBytes

(* Four bytes are read as they were written.                               *)
LEMMA FourBytesFacts ==
  ASSUME NEW v \in FourBytes
  PROVE  /\ v \in Seq(Byte) /\ Len(v) = 4
         /\ << >> \o v = v
         /\ IsZero(v) => v = Zeros(IP_ADDR_L)
         /\ SubSeq(v, 1, IP_ADDR_L) = v
  <1>1. v \in Seq(Byte) /\ Len(v) = 4
    <2>1. v \in [1 .. 4 -> Byte] /\ 4 \in Nat
      BY DEF FourBytes, Byte
    <2>. QED  BY <2>1, ArrayIsSeq, Zenon
  <1>2. << >> \o v = v /\ SubSeq(v, 1, 4) = v
    BY <1>1
  <1>3. IsZero(v) => v = Zeros(IP_ADDR_L)
    BY DEF FourBytes, IsZero, Zeros, IP_ADDR_L
  <1>. QED  BY <1>1, <1>2, <1>3, Zenon DEF IP_ADDR_L

(* Four bytes are a value of the length that the reader takes it to have.  *)
LEMMA FourBytesOption ==
  ASSUME NEW v \in FourBytes, NEW c \in FourByteCodes
  PROVE  [code |-> c, value |-> << >> \o v] \in ReadableSet
  <1>1. v \in Seq(Byte) /\ Len(v) = 4 /\ << >> \o v = v
    BY FourBytesFacts, Zenon
  <1>2. c \in Known /\ 4 \in ValueLengths(c) /\ c \in Byte
    BY DEF FourByteCodes, Known, ValueLengths, Byte, IP_ADDR_L, ETHER_ADDR_L, DHCP_MSG_OP,
           DHCP_HST_NAME_OP, DHCP_CLT_ID_OP, DHCP_SUB_MSK_OP, DHCP_RNW_TIME_OP,
           DHCP_RBN_TIME_OP, DHCP_IP_LEASE_TIME_OP, DHCP_SRV_ID_OP, DHCP_RTR_ID_OP,
           DHCP_RQT_ID_OP, DHCP_DNS_OP
  <1>3. PICK o : o = [code |-> c, value |-> v]
    OBVIOUS
  <1>4. o \in OptionSet /\ o.code = c /\ o.value = v
    BY <1>1, <1>2, <1>3 DEF OptionSet
  <1>5. o \in ReadableSet
    BY <1>1, <1>2, <1>4, Zenon DEF ReadableSet
  <1>. QED  BY <1>1, <1>3, <1>5, Zenon

(* A message type.                                                         *)
LEMMA MessageOption ==
  ASSUME NEW v \in 1 .. 8
  PROVE  [code |-> DHCP_MSG_OP, value |-> << v >>] \in ReadableSet
  <1>1. DHCP_MSG_OP \in Known /\ DHCP_MSG_OP \in Byte /\ 1 \in ValueLengths(DHCP_MSG_OP)
    <2>1. DHCP_MSG_OP \in Known /\ 1 \in ValueLengths(DHCP_MSG_OP)
      BY DEF Known, ValueLengths, IP_ADDR_L, ETHER_ADDR_L, DHCP_MSG_OP, DHCP_HST_NAME_OP,
             DHCP_CLT_ID_OP, DHCP_SUB_MSK_OP, DHCP_RNW_TIME_OP, DHCP_RBN_TIME_OP,
             DHCP_IP_LEASE_TIME_OP, DHCP_SRV_ID_OP, DHCP_RTR_ID_OP, DHCP_RQT_ID_OP, DHCP_DNS_OP
    <2>2. DHCP_MSG_OP \in Byte
      BY DEF Byte, DHCP_MSG_OP
    <2>. QED  BY <2>1, <2>2, Zenon
  <1>2. << v >> \in Seq(Byte) /\ Len(<< v >>) = 1
    BY DEF Byte
  <1>3. PICK o : o = [code |-> DHCP_MSG_OP, value |-> << v >>]
    OBVIOUS
  <1>4. o \in OptionSet /\ o.code = DHCP_MSG_OP /\ o.value = << v >>
    BY <1>1, <1>2, <1>3 DEF OptionSet
  <1>5. o \in ReadableSet
    BY <1>1, <1>2, <1>4, Zenon DEF ReadableSet
  <1>. QED  BY <1>3, <1>5, Zenon

(* A client id, with its hardware type.                                    *)
LEMMA ClientIdOption ==
  ASSUME NEW v \in [1 .. ETHER_ADDR_L -> 0 .. 255]
  PROVE  [code |-> DHCP_CLT_ID_OP, value |-> << 1 >> \o v] \in ReadableSet
  <1>1. v \in Seq(Byte) /\ Len(v) = 6
    <2>1. v \in [1 .. 6 -> Byte] /\ 6 \in Nat
      BY DEF Byte, ETHER_ADDR_L
    <2>2. \A n \in Nat : \A f \in [1 .. n -> Byte] : f \in Seq(Byte) /\ Len(f) = n
      BY ArrayIsSeq
    <2>. QED  BY <2>1, <2>2
  <1>2. << 1 >> \in Seq(Byte) /\ Len(<< 1 >>) = 1
    BY DEF Byte
  <1>3. \A x, y \in Seq(Byte) : x \o y \in Seq(Byte) /\ Len(x \o y) = Len(x) + Len(y)
    OBVIOUS
  <1>4. << 1 >> \o v \in Seq(Byte) /\ Len(<< 1 >> \o v) = 7
    <2>1. Len(<< 1 >> \o v) = Len(<< 1 >>) + Len(v) /\ << 1 >> \o v \in Seq(Byte)
      BY <1>1, <1>2, <1>3, Zenon
    <2>2. 1 + 6 = 7
      OBVIOUS
    <2>. QED  BY <1>1, <1>2, <2>1, <2>2, Zenon
  <1>5. DHCP_CLT_ID_OP \in Known /\ 7 \in ValueLengths(DHCP_CLT_ID_OP) /\ DHCP_CLT_ID_OP \in Byte
    BY DEF Known, ValueLengths, Byte, IP_ADDR_L, ETHER_ADDR_L, DHCP_MSG_OP, DHCP_HST_NAME_OP,
           DHCP_CLT_ID_OP, DHCP_SUB_MSK_OP, DHCP_RNW_TIME_OP, DHCP_RBN_TIME_OP,
           DHCP_IP_LEASE_TIME_OP, DHCP_SRV_ID_OP, DHCP_RTR_ID_OP, DHCP_RQT_ID_OP, DHCP_DNS_OP
  <1>6. PICK o : o = [code |-> DHCP_CLT_ID_OP, value |-> << 1 >> \o v]
    OBVIOUS
  <1>7. o \in OptionSet /\ o.code = DHCP_CLT_ID_OP /\ o.value = << 1 >> \o v
    BY <1>4, <1>5, <1>6 DEF OptionSet
  <1>8. o \in ReadableSet
    BY <1>4, <1>5, <1>7, Zenon DEF ReadableSet
  <1>. QED  BY <1>6, <1>8, Zenon

(* A host name; the reader can read it if its length does not wrap.        *)
LEMMA HostNameOption ==
  ASSUME NEW v \in Seq(1 .. 255)
  PROVE  /\ [code |-> DHCP_HST_NAME_OP, value |-> << >> \o v] \in OptionSet
         /\ Len(v) < 254 =>
              [code |-> DHCP_HST_NAME_OP, value |-> << >> \o v] \in ReadableSet
         /\ << >> \o v = v
         /\ IsZero(v) => v = << >>
  <1>1. v \in Seq(Byte) /\ Len(v) \in Nat
    BY DEF Byte
  <1>2. << >> \o v = v
    OBVIOUS
  <1>3. IsZero(v) => v = << >>
    <2> SUFFICES ASSUME IsZero(v)  PROVE v = << >>
      OBVIOUS
    <2>1. \A i \in 1 .. Len(v) : v[i] \in 1 .. 255 /\ v[i] = 0
      BY DEF IsZero
    <2>2. CASE Len(v) = 0
      BY <2>2
    <2>3. CASE Len(v) # 0
      <3>1. 1 \in 1 .. Len(v) /\ 0 \notin 1 .. 255
        BY <1>1, <2>3
      <3>. QED  BY <2>1, <3>1, Zenon
    <2>. QED  BY <2>2, <2>3
  <1>4. DHCP_HST_NAME_OP \in Known /\ ValueLengths(DHCP_HST_NAME_OP) = 0 .. 253
        /\ DHCP_HST_NAME_OP \in Byte
    BY DEF Known, ValueLengths, Byte, IP_ADDR_L, ETHER_ADDR_L, DHCP_MSG_OP, DHCP_HST_NAME_OP,
           DHCP_CLT_ID_OP, DHCP_SUB_MSK_OP, DHCP_RNW_TIME_OP, DHCP_RBN_TIME_OP,
           DHCP_IP_LEASE_TIME_OP, DHCP_SRV_ID_OP, DHCP_RTR_ID_OP, DHCP_RQT_ID_OP, DHCP_DNS_OP
  <1>5. PICK o : o = [code |-> DHCP_HST_NAME_OP, value |-> v]
    OBVIOUS
  <1>6. o \in OptionSet /\ o.code = DHCP_HST_NAME_OP /\ o.value = v
    BY <1>1, <1>4, <1>5 DEF OptionSet
  <1>7. \A n \in Nat : n < 254 => n \in 0 .. 253
    OBVIOUS
  <1>8. Len(v) < 254 => o \in ReadableSet
    BY <1>1, <1>4, <1>6, <1>7, Zenon DEF ReadableSet
  <1>. QED  BY <1>2, <1>3, <1>5, <1>6, <1>8, Zenon

(* The options of a struct that the program writes: each well-formed, each *)
(* of a kind that the reader can read, unless the host name is too long,   *)
(* and the values of some of them.                                         *)
LEMMA WrittenOptions ==
  ASSUME NEW o \in Sent, NEW os, os = set_dhcp_hdr_from_dhcp_opt(o)
  PROVE  /\ os \in Seq(OptionSet)
         /\ Len(o.hst_name) < 254 => os \in Seq(ReadableSet)
         /\ Message(LastValue(os, {DHCP_MSG_OP}, << 0 >>)[1]) = o.dhcp_msg
         /\ LastValue(os, {DHCP_HST_NAME_OP}, << >>) = o.hst_name
         /\ SubSeq(LastValue(os, {DHCP_SUB_MSK_OP}, Zeros(IP_ADDR_L)), 1, IP_ADDR_L) = o.sub_msk
         /\ SubSeq(LastValue(os, {DHCP_SRV_ID_OP}, Zeros(IP_ADDR_L)), 1, IP_ADDR_L) = o.srv_id
         /\ SubSeq(LastValue(os, {DHCP_DNS_OP}, Zeros(IP_ADDR_L)), 1, IP_ADDR_L) = o.dns_id
  <1>1. /\ o.dhcp_msg \in MsgSet
        /\ o.hst_name \in Seq(1 .. 255)
        /\ o.clt_id \in [1 .. ETHER_ADDR_L -> 0 .. 255]
        /\ \A x \in {o.sub_msk, o.rnw_time, o.rbn_time, o.ip_lease_time,
                     o.srv_id, o.rtr_id, o.dns_id} : x \in FourBytes
    BY SentTypes, Zenon
  <1>2. PICK S : S = IF Len(o.hst_name) < 254 THEN ReadableSet ELSE OptionSet
    OBVIOUS
  <1>3. /\ S \subseteq OptionSet /\ ReadableSet \subseteq S
        /\ Len(o.hst_name) < 254 => S = ReadableSet
    <2>1. ReadableSet \subseteq OptionSet
      BY Zenon DEF ReadableSet
    <2>. QED  BY <1>2, <2>1
  <1>4. [code |-> DHCP_HST_NAME_OP, value |-> << >> \o o.hst_name] \in S
    <2>1. CASE Len(o.hst_name) < 254
      BY <1>1, <1>2, <2>1, HostNameOption, Zenon
    <2>2. CASE ~ (Len(o.hst_name) < 254)
      BY <1>1, <1>2, <2>2, HostNameOption, Zenon
    <2>. QED  BY <2>1, <2>2
  <1>5. \A v \in 1 .. 8 : [code |-> DHCP_MSG_OP, value |-> << v >>] \in S
    BY <1>3, MessageOption, Zenon
  <1>6. \A c \in FourByteCodes, v \in FourBytes : [code |-> c, value |-> << >> \o v] \in S
    BY <1>3, FourBytesOption, Zenon
  <1>7. [code |-> DHCP_CLT_ID_OP, value |-> << 1 >> \o o.clt_id] \in S
    BY <1>1, <1>3, ClientIdOption, Zenon
  <1>8. PICK s0 : s0 = MsgOption(o.dhcp_msg)
    OBVIOUS
  <1>9. s0 \in Seq(S) /\ IsMessage(s0, o.dhcp_msg)
    BY <1>1, <1>3, <1>5, <1>8, PartMessage, Zenon
  <1>10. PICK s1 : s1 = s0 \o Option(DHCP_HST_NAME_OP, o.hst_name, << >>)
    OBVIOUS
  <1>11. /\ s1 \in Seq(S)
         /\ IsUpdate(s1, s0, DHCP_HST_NAME_OP, o.hst_name, << >> \o o.hst_name)
    <2>1. [code |-> DHCP_HST_NAME_OP, value |-> << >> \o o.hst_name] \in S
      BY <1>4, Zenon
    <2>. QED  BY <1>3, <1>9, <1>10, <2>1, PartAppended, Zenon
  <1>12. PICK s2 : s2 = s1 \o Option(DHCP_CLT_ID_OP, o.clt_id, << 1 >>)
    OBVIOUS
  <1>13. /\ s2 \in Seq(S)
         /\ IsUpdate(s2, s1, DHCP_CLT_ID_OP, o.clt_id, << 1 >> \o o.clt_id)
    <2>1. [code |-> DHCP_CLT_ID_OP, value |-> << 1 >> \o o.clt_id] \in S
      BY <1>7, Zenon
    <2>. QED  BY <1>3, <1>11, <1>12, <2>1, PartAppended, Zenon
  <1>14. PICK s3 : s3 = s2 \o Option(DHCP_SUB_MSK_OP, o.sub_msk, << >>)
    OBVIOUS
  <1>15. /\ s3 \in Seq(S)
         /\ IsUpdate(s3, s2, DHCP_SUB_MSK_OP, o.sub_msk, << >> \o o.sub_msk)
    <2>1. [code |-> DHCP_SUB_MSK_OP, value |-> << >> \o o.sub_msk] \in S
      BY <1>1, <1>6, Zenon DEF FourByteCodes
    <2>. QED  BY <1>3, <1>13, <1>14, <2>1, PartAppended, Zenon
  <1>16. PICK s4 : s4 = s3 \o Option(DHCP_RTR_ID_OP, o.rtr_id, << >>)
    OBVIOUS
  <1>17. /\ s4 \in Seq(S)
         /\ IsUpdate(s4, s3, DHCP_RTR_ID_OP, o.rtr_id, << >> \o o.rtr_id)
    <2>1. [code |-> DHCP_RTR_ID_OP, value |-> << >> \o o.rtr_id] \in S
      BY <1>1, <1>6, Zenon DEF FourByteCodes
    <2>. QED  BY <1>3, <1>15, <1>16, <2>1, PartAppended, Zenon
  <1>18. PICK s5 : s5 = s4 \o Option(DHCP_RNW_TIME_OP, o.rnw_time, << >>)
    OBVIOUS
  <1>19. /\ s5 \in Seq(S)
         /\ IsUpdate(s5, s4, DHCP_RNW_TIME_OP, o.rnw_time, << >> \o o.rnw_time)
    <2>1. [code |-> DHCP_RNW_TIME_OP, value |-> << >> \o o.rnw_time] \in S
      BY <1>1, <1>6, Zenon DEF FourByteCodes
    <2>. QED  BY <1>3, <1>17, <1>18, <2>1, PartAppended, Zenon
  <1>20. PICK s6 : s6 = s5 \o Option(DHCP_RBN_TIME_OP, o.rbn_time, << >>)
    OBVIOUS
  <1>21. /\ s6 \in Seq(S)
         /\ IsUpdate(s6, s5, DHCP_RBN_TIME_OP, o.rbn_time, << >> \o o.rbn_time)
    <2>1. [code |-> DHCP_RBN_TIME_OP, value |-> << >> \o o.rbn_time] \in S
      BY <1>1, <1>6, Zenon DEF FourByteCodes
    <2>. QED  BY <1>3, <1>19, <1>20, <2>1, PartAppended, Zenon
  <1>22. PICK s7 : s7 = s6 \o Option(DHCP_IP_LEASE_TIME_OP, o.ip_lease_time, << >>)
    OBVIOUS
  <1>23. /\ s7 \in Seq(S)
         /\ IsUpdate(s7, s6, DHCP_IP_LEASE_TIME_OP, o.ip_lease_time, << >> \o o.ip_lease_time)
    <2>1. [code |-> DHCP_IP_LEASE_TIME_OP, value |-> << >> \o o.ip_lease_time] \in S
      BY <1>1, <1>6, Zenon DEF FourByteCodes
    <2>. QED  BY <1>3, <1>21, <1>22, <2>1, PartAppended, Zenon
  <1>24. PICK s8 : s8 = s7 \o Option(DHCP_SRV_ID_OP, o.srv_id, << >>)
    OBVIOUS
  <1>25. /\ s8 \in Seq(S)
         /\ IsUpdate(s8, s7, DHCP_SRV_ID_OP, o.srv_id, << >> \o o.srv_id)
    <2>1. [code |-> DHCP_SRV_ID_OP, value |-> << >> \o o.srv_id] \in S
      BY <1>1, <1>6, Zenon DEF FourByteCodes
    <2>. QED  BY <1>3, <1>23, <1>24, <2>1, PartAppended, Zenon
  <1>26. PICK s9 : s9 = s8 \o Option(DHCP_DNS_OP, o.dns_id, << >>)
    OBVIOUS
  <1>27. /\ s9 \in Seq(S)
         /\ IsUpdate(s9, s8, DHCP_DNS_OP, o.dns_id, << >> \o o.dns_id)
    <2>1. [code |-> DHCP_DNS_OP, value |-> << >> \o o.dns_id] \in S
      BY <1>1, <1>6, Zenon DEF FourByteCodes
    <2>. QED  BY <1>3, <1>25, <1>26, <2>1, PartAppended, Zenon
  <1>28. os = s9
    BY <1>8, <1>10, <1>12, <1>14, <1>16, <1>18, <1>20, <1>22, <1>24, <1>26,
       Zenon DEF set_dhcp_hdr_from_dhcp_opt
  <1>29. \A k, d : k # DHCP_HST_NAME_OP => ValueOf(s1, k, d) = ValueOf(s0, k, d)
    BY <1>11 DEF IsUpdate, ValueOf
  <1>30. \A d : ValueOf(s1, DHCP_HST_NAME_OP, d)
                = IF ~ IsZero(o.hst_name) THEN << >> \o o.hst_name
                  ELSE ValueOf(s0, DHCP_HST_NAME_OP, d)
    BY <1>11 DEF IsUpdate, ValueOf
  <1>31. \A k, d : k # DHCP_CLT_ID_OP => ValueOf(s2, k, d) = ValueOf(s1, k, d)
    BY <1>13 DEF IsUpdate, ValueOf
  <1>32. \A k, d : k # DHCP_SUB_MSK_OP => ValueOf(s3, k, d) = ValueOf(s2, k, d)
    BY <1>15 DEF IsUpdate, ValueOf
  <1>33. \A d : ValueOf(s3, DHCP_SUB_MSK_OP, d)
                = IF ~ IsZero(o.sub_msk) THEN << >> \o o.sub_msk
                  ELSE ValueOf(s2, DHCP_SUB_MSK_OP, d)
    BY <1>15 DEF IsUpdate, ValueOf
  <1>34. \A k, d : k # DHCP_RTR_ID_OP => ValueOf(s4, k, d) = ValueOf(s3, k, d)
    BY <1>17 DEF IsUpdate, ValueOf
  <1>35. \A k, d : k # DHCP_RNW_TIME_OP => ValueOf(s5, k, d) = ValueOf(s4, k, d)
    BY <1>19 DEF IsUpdate, ValueOf
  <1>36. \A k, d : k # DHCP_RBN_TIME_OP => ValueOf(s6, k, d) = ValueOf(s5, k, d)
    BY <1>21 DEF IsUpdate, ValueOf
  <1>37. \A k, d : k # DHCP_IP_LEASE_TIME_OP => ValueOf(s7, k, d) = ValueOf(s6, k, d)
    BY <1>23 DEF IsUpdate, ValueOf
  <1>38. \A k, d : k # DHCP_SRV_ID_OP => ValueOf(s8, k, d) = ValueOf(s7, k, d)
    BY <1>25 DEF IsUpdate, ValueOf
  <1>39. \A d : ValueOf(s8, DHCP_SRV_ID_OP, d)
                = IF ~ IsZero(o.srv_id) THEN << >> \o o.srv_id
                  ELSE ValueOf(s7, DHCP_SRV_ID_OP, d)
    BY <1>25 DEF IsUpdate, ValueOf
  <1>40. \A k, d : k # DHCP_DNS_OP => ValueOf(s9, k, d) = ValueOf(s8, k, d)
    BY <1>27 DEF IsUpdate, ValueOf
  <1>41. \A d : ValueOf(s9, DHCP_DNS_OP, d)
                = IF ~ IsZero(o.dns_id) THEN << >> \o o.dns_id
                  ELSE ValueOf(s8, DHCP_DNS_OP, d)
    BY <1>27 DEF IsUpdate, ValueOf
  <1>42. \A k, d : k # DHCP_MSG_OP => ValueOf(s0, k, d) = d
    BY <1>9 DEF IsMessage, ValueOf
  <1>43. \A k, d :
         k \notin {DHCP_DNS_OP}
           => ValueOf(s9, k, d) = ValueOf(s8, k, d)
    BY <1>40, Zenon
  <1>44. \A k, d :
         k \notin {DHCP_SRV_ID_OP, DHCP_DNS_OP}
           => ValueOf(s9, k, d) = ValueOf(s7, k, d)
    BY <1>38, <1>43, Zenon
  <1>45. \A k, d :
         k \notin {DHCP_IP_LEASE_TIME_OP, DHCP_SRV_ID_OP, DHCP_DNS_OP}
           => ValueOf(s9, k, d) = ValueOf(s6, k, d)
    BY <1>37, <1>44, Zenon
  <1>46. \A k, d :
         k \notin {DHCP_RBN_TIME_OP, DHCP_IP_LEASE_TIME_OP,
                    DHCP_SRV_ID_OP, DHCP_DNS_OP}
           => ValueOf(s9, k, d) = ValueOf(s5, k, d)
    BY <1>36, <1>45, Zenon
  <1>47. \A k, d :
         k \notin {DHCP_RNW_TIME_OP, DHCP_RBN_TIME_OP,
                    DHCP_IP_LEASE_TIME_OP, DHCP_SRV_ID_OP, DHCP_DNS_OP}
           => ValueOf(s9, k, d) = ValueOf(s4, k, d)
    BY <1>35, <1>46, Zenon
  <1>48. \A k, d :
         k \notin {DHCP_RTR_ID_OP, DHCP_RNW_TIME_OP, DHCP_RBN_TIME_OP,
                    DHCP_IP_LEASE_TIME_OP, DHCP_SRV_ID_OP, DHCP_DNS_OP}
           => ValueOf(s9, k, d) = ValueOf(s3, k, d)
    BY <1>34, <1>47, Zenon
  <1>49. \A k, d :
         k \notin {DHCP_SUB_MSK_OP, DHCP_RTR_ID_OP, DHCP_RNW_TIME_OP,
                    DHCP_RBN_TIME_OP, DHCP_IP_LEASE_TIME_OP,
                    DHCP_SRV_ID_OP, DHCP_DNS_OP}
           => ValueOf(s9, k, d) = ValueOf(s2, k, d)
    BY <1>32, <1>48, Zenon
  <1>50. \A k, d :
         k \notin {DHCP_CLT_ID_OP, DHCP_SUB_MSK_OP, DHCP_RTR_ID_OP,
                    DHCP_RNW_TIME_OP, DHCP_RBN_TIME_OP,
                    DHCP_IP_LEASE_TIME_OP, DHCP_SRV_ID_OP, DHCP_DNS_OP}
           => ValueOf(s9, k, d) = ValueOf(s1, k, d)
    BY <1>31, <1>49, Zenon
  <1>51. \A k, d :
         k \notin {DHCP_HST_NAME_OP, DHCP_CLT_ID_OP, DHCP_SUB_MSK_OP,
                    DHCP_RTR_ID_OP, DHCP_RNW_TIME_OP, DHCP_RBN_TIME_OP,
                    DHCP_IP_LEASE_TIME_OP, DHCP_SRV_ID_OP, DHCP_DNS_OP}
           => ValueOf(s9, k, d) = ValueOf(s0, k, d)
    BY <1>29, <1>50, Zenon
  <1>52. \A k, d :
         k \notin {DHCP_MSG_OP, DHCP_HST_NAME_OP}
           => ValueOf(s1, k, d) = d
    BY <1>29, <1>42, Zenon
  <1>53. \A k, d :
         k \notin {DHCP_MSG_OP, DHCP_HST_NAME_OP, DHCP_CLT_ID_OP}
           => ValueOf(s2, k, d) = d
    BY <1>31, <1>52, Zenon
  <1>54. \A k, d :
         k \notin {DHCP_MSG_OP, DHCP_HST_NAME_OP, DHCP_CLT_ID_OP,
                    DHCP_SUB_MSK_OP}
           => ValueOf(s3, k, d) = d
    BY <1>32, <1>53, Zenon
  <1>55. \A k, d :
         k \notin {DHCP_MSG_OP, DHCP_HST_NAME_OP, DHCP_CLT_ID_OP,
                    DHCP_SUB_MSK_OP, DHCP_RTR_ID_OP}
           => ValueOf(s4, k, d) = d
    BY <1>34, <1>54, Zenon
  <1>56. \A k, d :
         k \notin {DHCP_MSG_OP, DHCP_HST_NAME_OP, DHCP_CLT_ID_OP,
                    DHCP_SUB_MSK_OP, DHCP_RTR_ID_OP, DHCP_RNW_TIME_OP}
           => ValueOf(s5, k, d) = d
    BY <1>35, <1>55, Zenon
  <1>57. \A k, d :
         k \notin {DHCP_MSG_OP, DHCP_HST_NAME_OP, DHCP_CLT_ID_OP,
                    DHCP_SUB_MSK_OP, DHCP_RTR_ID_OP, DHCP_RNW_TIME_OP,
                    DHCP_RBN_TIME_OP}
           => ValueOf(s6, k, d) = d
    BY <1>36, <1>56, Zenon
  <1>58. \A k, d :
         k \notin {DHCP_MSG_OP, DHCP_HST_NAME_OP, DHCP_CLT_ID_OP,
                    DHCP_SUB_MSK_OP, DHCP_RTR_ID_OP, DHCP_RNW_TIME_OP,
                    DHCP_RBN_TIME_OP, DHCP_IP_LEASE_TIME_OP}
           => ValueOf(s7, k, d) = d
    BY <1>37, <1>57, Zenon
  <1>59. \A k, d :
         k \notin {DHCP_MSG_OP, DHCP_HST_NAME_OP, DHCP_CLT_ID_OP,
                    DHCP_SUB_MSK_OP, DHCP_RTR_ID_OP, DHCP_RNW_TIME_OP,
                    DHCP_RBN_TIME_OP, DHCP_IP_LEASE_TIME_OP,
                    DHCP_SRV_ID_OP}
           => ValueOf(s8, k, d) = d
    BY <1>38, <1>58, Zenon
  <1>60. \A d : ValueOf(os, DHCP_MSG_OP, d)
                 = ValueOf(s0, DHCP_MSG_OP, d)
    <2>1. /\ DHCP_MSG_OP \notin {DHCP_HST_NAME_OP, DHCP_CLT_ID_OP,
                                  DHCP_SUB_MSK_OP, DHCP_RTR_ID_OP,
                                  DHCP_RNW_TIME_OP, DHCP_RBN_TIME_OP,
                                  DHCP_IP_LEASE_TIME_OP, DHCP_SRV_ID_OP,
                                  DHCP_DNS_OP}
      BY DEF DHCP_MSG_OP, DHCP_HST_NAME_OP, DHCP_CLT_ID_OP, DHCP_SUB_MSK_OP, DHCP_RTR_ID_OP,
             DHCP_RNW_TIME_OP, DHCP_RBN_TIME_OP, DHCP_IP_LEASE_TIME_OP, DHCP_SRV_ID_OP, DHCP_DNS_OP
    <2>. QED  BY <1>28, <1>51, <2>1, Zenon
  <1>61. \A d : ValueOf(os, DHCP_HST_NAME_OP, d)
                 = IF ~ IsZero(o.hst_name) THEN << >> \o o.hst_name ELSE d
    <2>1. /\ DHCP_HST_NAME_OP \notin {DHCP_CLT_ID_OP, DHCP_SUB_MSK_OP,
                                       DHCP_RTR_ID_OP, DHCP_RNW_TIME_OP,
                                       DHCP_RBN_TIME_OP,
                                       DHCP_IP_LEASE_TIME_OP,
                                       DHCP_SRV_ID_OP, DHCP_DNS_OP}
          /\ DHCP_HST_NAME_OP \notin {DHCP_MSG_OP}
      BY DEF DHCP_MSG_OP, DHCP_HST_NAME_OP, DHCP_CLT_ID_OP, DHCP_SUB_MSK_OP, DHCP_RTR_ID_OP,
             DHCP_RNW_TIME_OP, DHCP_RBN_TIME_OP, DHCP_IP_LEASE_TIME_OP, DHCP_SRV_ID_OP, DHCP_DNS_OP
    <2>. QED  BY <1>28, <1>50, <1>30, <1>42, <2>1, Zenon
  <1>62. \A d : ValueOf(os, DHCP_SUB_MSK_OP, d)
                 = IF ~ IsZero(o.sub_msk) THEN << >> \o o.sub_msk ELSE d
    <2>1. /\ DHCP_SUB_MSK_OP \notin {DHCP_RTR_ID_OP, DHCP_RNW_TIME_OP,
                                      DHCP_RBN_TIME_OP,
                                      DHCP_IP_LEASE_TIME_OP,
                                      DHCP_SRV_ID_OP, DHCP_DNS_OP}
          /\ DHCP_SUB_MSK_OP \notin {DHCP_MSG_OP, DHCP_HST_NAME_OP,
                                      DHCP_CLT_ID_OP}
      BY DEF DHCP_MSG_OP, DHCP_HST_NAME_OP, DHCP_CLT_ID_OP, DHCP_SUB_MSK_OP, DHCP_RTR_ID_OP,
             DHCP_RNW_TIME_OP, DHCP_RBN_TIME_OP, DHCP_IP_LEASE_TIME_OP, DHCP_SRV_ID_OP, DHCP_DNS_OP
    <2>. QED  BY <1>28, <1>48, <1>33, <1>53, <2>1, Zenon
  <1>63. \A d : ValueOf(os, DHCP_SRV_ID_OP, d)
                 = IF ~ IsZero(o.srv_id) THEN << >> \o o.srv_id ELSE d
    <2>1. /\ DHCP_SRV_ID_OP \notin {DHCP_DNS_OP}
          /\ DHCP_SRV_ID_OP \notin {DHCP_MSG_OP, DHCP_HST_NAME_OP,
                                     DHCP_CLT_ID_OP, DHCP_SUB_MSK_OP,
                                     DHCP_RTR_ID_OP, DHCP_RNW_TIME_OP,
                                     DHCP_RBN_TIME_OP,
                                     DHCP_IP_LEASE_TIME_OP}
      BY DEF DHCP_MSG_OP, DHCP_HST_NAME_OP, DHCP_CLT_ID_OP, DHCP_SUB_MSK_OP, DHCP_RTR_ID_OP,
             DHCP_RNW_TIME_OP, DHCP_RBN_TIME_OP, DHCP_IP_LEASE_TIME_OP, DHCP_SRV_ID_OP, DHCP_DNS_OP
    <2>. QED  BY <1>28, <1>43, <1>39, <1>58, <2>1, Zenon
  <1>64. \A d : ValueOf(os, DHCP_DNS_OP, d)
                 = IF ~ IsZero(o.dns_id) THEN << >> \o o.dns_id ELSE d
    <2>1. /\ DHCP_DNS_OP \notin {DHCP_MSG_OP, DHCP_HST_NAME_OP,
                                  DHCP_CLT_ID_OP, DHCP_SUB_MSK_OP,
                                  DHCP_RTR_ID_OP, DHCP_RNW_TIME_OP,
                                  DHCP_RBN_TIME_OP, DHCP_IP_LEASE_TIME_OP,
                                  DHCP_SRV_ID_OP}
      BY DEF DHCP_MSG_OP, DHCP_HST_NAME_OP, DHCP_CLT_ID_OP, DHCP_SUB_MSK_OP, DHCP_RTR_ID_OP,
             DHCP_RNW_TIME_OP, DHCP_RBN_TIME_OP, DHCP_IP_LEASE_TIME_OP, DHCP_SRV_ID_OP, DHCP_DNS_OP
    <2>. QED  BY <1>28, <1>41, <1>59, <2>1, Zenon
  <1>65. LastValue(os, {DHCP_HST_NAME_OP}, << >>) = o.hst_name
    BY <1>1, <1>61, HostNameOption, Zenon DEF ValueOf
  <1>66. Message(LastValue(os, {DHCP_MSG_OP}, << 0 >>)[1]) = o.dhcp_msg
    BY <1>9, <1>60, Zenon DEF ValueOf, IsMessage
  <1>67. SubSeq(LastValue(os, {DHCP_SUB_MSK_OP}, Zeros(IP_ADDR_L)), 1, IP_ADDR_L) = o.sub_msk
    <2>1. o.sub_msk \in FourBytes
      BY <1>1, Zenon
    <2>. QED  BY <1>62, <2>1, FourBytesFacts, Zenon DEF ValueOf
  <1>68. SubSeq(LastValue(os, {DHCP_SRV_ID_OP}, Zeros(IP_ADDR_L)), 1, IP_ADDR_L) = o.srv_id
    <2>1. o.srv_id \in FourBytes
      BY <1>1, Zenon
    <2>. QED  BY <1>63, <2>1, FourBytesFacts, Zenon DEF ValueOf
  <1>69. SubSeq(LastValue(os, {DHCP_DNS_OP}, Zeros(IP_ADDR_L)), 1, IP_ADDR_L) = o.dns_id
    <2>1. o.dns_id \in FourBytes
      BY <1>1, Zenon
    <2>. QED  BY <1>64, <2>1, FourBytesFacts, Zenon DEF ValueOf
  <1>70. os \in Seq(OptionSet)
    <2>1. \A s \in Seq(S) : s \in Seq(OptionSet)
      BY <1>3
    <2>. QED  BY <1>27, <1>28, <2>1, Zenon
  <1>71. Len(o.hst_name) < 254 => os \in Seq(ReadableSet)
    BY <1>3, <1>27, <1>28, Zenon
  <1>. QED  BY <1>65, <1>66, <1>67, <1>68, <1>69, <1>70, <1>71, Zenon

-----------------------------------------------------------------------------

(* What was written is a struct's options, if the program wrote it.        *)
WriteInv ==
  written # no_opt => written \in Sent /\ options = set_dhcp_hdr_from_dhcp_opt(written)

(* And of the sender.                                                      *)
OptionsInv == IInv /\ WriteInv

(* Every list fits the field.                                              *)
LEMMA ListsFit ==
  /\ \A o \in Sent : Len(Field(set_dhcp_hdr_from_dhcp_opt(o))) <= OPT_MAX_L
  /\ \A os \in Received : Len(Field(os)) <= OPT_MAX_L
  BY OptionsAssumption

(* The lists that are sent at all.                                         *)
LEMMA SenderLists ==
  ASSUME Init
  PROVE  ListInv /\ WriteInv
  <1>1. CASE written \in Sent /\ options = set_dhcp_hdr_from_dhcp_opt(written)
    <2>1. options \in Seq(OptionSet)
      BY <1>1, WrittenOptions, Zenon
    <2>2. field = Field(options) /\ Len(field) <= OPT_MAX_L
      <3>1. field = Field(options)
        BY Zenon DEF Init
      <3>. QED  BY <1>1, <3>1, ListsFit, Zenon
    <2>. QED  BY <1>1, <2>1, <2>2, Zenon DEF ListInv, WriteInv
  <1>2. CASE written = no_opt /\ options \in Received
    <2>1. options \in Seq([code : 0 .. 255, value : Seq(0 .. 255)])
      BY <1>2, OptionsAssumption
    <2>2. options \in Seq(OptionSet)
      BY <2>1 DEF OptionSet, Byte
    <2>3. field = Field(options) /\ Len(field) <= OPT_MAX_L
      <3>1. field = Field(options)
        BY Zenon DEF Init
      <3>. QED  BY <1>2, <3>1, ListsFit, Zenon
    <2>. QED  BY <1>2, <2>2, <2>3, Zenon DEF ListInv, WriteInv
  <1>. QED  BY <1>1, <1>2 DEF Init

(* The first state.                                                        *)
LEMMA OptionsInit ==
  Init => OptionsInv
  <1> SUFFICES ASSUME Init  PROVE OptionsInv
    OBVIOUS
  <1>1. ListInv /\ WriteInv
    BY SenderLists
  <1>2. OptInv
    <2>1. opt = no_opt
      BY DEF Init
    <2>2. \A n \in Nat : Len(Zeros(n)) = n
      BY DEF Zeros
    <2>3. Len(Zeros(6)) = 6 /\ Len(Zeros(4)) = 4 /\ Len(<< >>) = 0
      BY <2>2
    <2>. QED  BY <2>1, <2>3 DEF OptInv, no_opt, MsgSet, ETHER_ADDR_L, IP_ADDR_L
  <1>3. StateInv
    BY DEF Init, StateInv, OPT_MAX_L
  <1>4. WalkInv
    BY DEF Init, WalkInv
  <1>. QED  BY <1>1, <1>2, <1>3, <1>4 DEF OptionsInv, IInv

(* What a step leaves alone that does not touch the sender's variables.    *)
LEMMA SenderKept ==
  ASSUME UNCHANGED sender_vars, ListInv, WriteInv
  PROVE  /\ ListInv' /\ WriteInv'
         /\ Readable' <=> Readable
         /\ Len(options)' = Len(options)
         /\ \A i : EndOf(i)' = EndOf(i)
  <1>1. options' = options /\ written' = written /\ field' = field
    BY DEF sender_vars
  <1>2. ListInv'
    BY <1>1, Zenon DEF ListInv
  <1>3. WriteInv'
    BY <1>1, Zenon DEF WriteInv
  <1>4. Readable' <=> Readable
    BY <1>1, Zenon DEF Readable
  <1>5. \A i : EndOf(i)' = EndOf(i)
    BY <1>1, Zenon DEF EndOf
  <1>. QED  BY <1>1, <1>2, <1>3, <1>4, <1>5

(* Every step keeps the invariant.                                         *)
LEMMA OptionsStep ==
  OptionsInv /\ [Next]_vars => OptionsInv'
  <1> SUFFICES ASSUME OptionsInv, [Next]_vars  PROVE OptionsInv'
    OBVIOUS
  <1>1. ListInv /\ OptInv /\ StateInv /\ WalkInv /\ WriteInv
    BY DEF OptionsInv, IInv
  <1>2. UNCHANGED sender_vars
    BY DEF Next, Cookie, ReadOption, End, Overrun, vars, sender_vars
  <1>3. /\ ListInv' /\ WriteInv'
        /\ Readable' <=> Readable
        /\ Len(options)' = Len(options)
        /\ \A i : EndOf(i)' = EndOf(i)
    BY <1>1, <1>2, SenderKept
  <1>4. ASSUME NEW i \in 0 .. Len(options), IsAfter(i, opt', ptr')
        PROVE  \E j \in 0 .. Len(options)' : IsAfter(j, opt, ptr)'
    <2>1. IsAfter(i, opt, ptr)'
      BY <1>2, <1>4, Zenon DEF sender_vars, EndOf, IsAfter, Holds, Passed
    <2>. QED  BY <1>3, <2>1, Zenon
  <1>5. CASE Cookie
    <2>1. /\ status = "start" /\ opt = no_opt /\ opt' = opt
          /\ status' = "walking" /\ ptr' = 4 /\ cookie_status' \in {"OK", "NOK"}
      BY <1>1, <1>5 DEF Cookie, WalkInv
    <2>2. OptInv'
      BY <1>1, <2>1 DEF OptInv
    <2>3. StateInv'
      BY <2>1 DEF StateInv, OPT_MAX_L
    <2>4. IsAfter(0, opt', ptr') /\ 0 \in 0 .. Len(options)
      BY <1>1, <2>1, HoldsNone, FirstOption, Zenon DEF IsAfter
    <2>5. status' # "start" /\ status' # "lost" /\ status' # "done"
      BY <2>1
    <2>6. WalkInv'
      BY <1>4, <2>4, <2>5, Zenon DEF WalkInv
    <2>. QED  BY <1>3, <2>2, <2>3, <2>6 DEF OptionsInv, IInv
  <1>6. CASE ReadOption
    <2>1. /\ status = "walking" /\ InField /\ At(ptr) # DHCP_END_OP
          /\ opt' = Stored(At(ptr)) /\ ptr' = ptr + dhcp_opt_len(At(ptr))
          /\ cookie_status' = cookie_status /\ status' = status
      BY <1>6 DEF ReadOption
    <2>2. ptr \in Nat /\ ptr < OPT_MAX_L
      BY <1>1, <2>1 DEF StateInv, InField
    <2>3. OptInv'
      BY <1>1, <2>1, <2>2, StoredInv, Zenon
    <2>4. StateInv'
      <3>1. At(ptr + 1) \in 0 .. 255
        BY <1>1, <2>2, AtByte
      <3>2. dhcp_opt_len(At(ptr)) \in 0 .. 255
        BY <3>1 DEF dhcp_opt_len
      <3>3. ptr' \in 0 .. OPT_MAX_L + 255
        <4>1. \A p \in Nat, k \in 0 .. 255 : p < OPT_MAX_L => p + k \in 0 .. OPT_MAX_L + 255
          BY DEF OPT_MAX_L
        <4>. QED  BY <2>1, <2>2, <3>2, <4>1, Zenon
      <3>. QED  BY <1>1, <2>1, <3>3 DEF StateInv
    <2>5. status' # "start" /\ status' # "lost" /\ status' # "done" /\ status # "start"
      BY <2>1
    <2>6. ASSUME Readable  PROVE \E j \in 0 .. Len(options)' : IsAfter(j, opt, ptr)'
      <3>1. PICK i \in 0 .. Len(options) : IsAfter(i, opt, ptr)
        BY <1>1, <2>5, <2>6, Zenon DEF WalkInv
      <3>2. PICK j \in 0 .. Len(options) :
              IsAfter(j, Stored(At(ptr)), ptr + dhcp_opt_len(At(ptr)))
        BY <1>1, <2>1, <2>6, <3>1, Turn, Zenon
      <3>3. IsAfter(j, opt', ptr')
        BY <2>1, <3>2, Zenon
      <3>. QED  BY <1>4, <3>3, Zenon
    <2>7. WalkInv'
      BY <1>3, <2>5, <2>6, Zenon DEF WalkInv
    <2>. QED  BY <1>3, <2>3, <2>4, <2>7 DEF OptionsInv, IInv
  <1>7. CASE End
    <2>1. /\ status = "walking" /\ status' = "done" /\ At(ptr) = DHCP_END_OP
          /\ opt' = opt /\ ptr' = ptr /\ cookie_status' = cookie_status
      BY <1>7 DEF End
    <2>2. OptInv' /\ StateInv'
      BY <1>1, <2>1 DEF OptInv, StateInv
    <2>3. status' # "start" /\ status' # "lost" /\ status # "start"
      BY <2>1
    <2>4. ASSUME Readable
          PROVE  /\ \E j \in 0 .. Len(options)' : IsAfter(j, opt, ptr)'
                 /\ ptr' = EndOf(Len(options))
      <3>1. PICK i \in 0 .. Len(options) : IsAfter(i, opt, ptr)
        BY <1>1, <2>3, <2>4, Zenon DEF WalkInv
      <3>2. ptr = EndOf(Len(options))
        BY <1>1, <2>1, <2>4, <3>1, Turn, Zenon
      <3>3. IsAfter(i, opt', ptr')
        BY <2>1, <3>1, Zenon
      <3>. QED  BY <1>4, <2>1, <3>2, <3>3, Zenon
    <2>5. EndOf(Len(options))' = EndOf(Len(options))
      BY <1>2, Zenon DEF sender_vars, EndOf
    <2>6. WalkInv'
      BY <1>3, <2>3, <2>4, <2>5, Zenon DEF WalkInv
    <2>. QED  BY <1>3, <2>2, <2>6 DEF OptionsInv, IInv
  <1>8. CASE Overrun
    <2>1. /\ status = "walking" /\ status' = "lost" /\ ~ InField
          /\ opt' = opt /\ ptr' = ptr /\ cookie_status' = cookie_status
      BY <1>8 DEF Overrun
    <2>2. OptInv' /\ StateInv'
      BY <1>1, <2>1 DEF OptInv, StateInv
    <2>3. status' # "start" /\ status # "start"
      BY <2>1
    <2>4. ASSUME Readable  PROVE FALSE
      <3>1. PICK i \in 0 .. Len(options) : IsAfter(i, opt, ptr)
        BY <1>1, <2>3, <2>4, Zenon DEF WalkInv
      <3>. QED  BY <1>1, <2>1, <2>4, <3>1, Turn, Zenon
    <2>5. WalkInv'
      BY <1>3, <2>3, <2>4, Zenon DEF WalkInv
    <2>. QED  BY <1>3, <2>2, <2>5 DEF OptionsInv, IInv
  <1>9. CASE UNCHANGED vars
    <2>1. /\ opt' = opt /\ ptr' = ptr /\ cookie_status' = cookie_status
          /\ status' = status
      BY <1>9 DEF vars
    <2>2. OptInv' /\ StateInv'
      BY <1>1, <2>1 DEF OptInv, StateInv
    <2>3. ASSUME Readable, status # "start"
          PROVE  /\ \E j \in 0 .. Len(options)' : IsAfter(j, opt, ptr)'
                 /\ status # "lost"
                 /\ status = "done" => ptr = EndOf(Len(options))
      <3>1. PICK i \in 0 .. Len(options) : IsAfter(i, opt, ptr)
        BY <1>1, <2>3, Zenon DEF WalkInv
      <3>2. IsAfter(i, opt', ptr')
        BY <2>1, <3>1, Zenon
      <3>3. status # "lost" /\ (status = "done" => ptr = EndOf(Len(options)))
        BY <1>1, <2>3, Zenon DEF WalkInv
      <3>. QED  BY <1>4, <3>2, <3>3, Zenon
    <2>4. EndOf(Len(options))' = EndOf(Len(options))
      BY <1>2, Zenon DEF sender_vars, EndOf
    <2>5. status = "start" => opt = no_opt
      BY <1>1, Zenon DEF WalkInv
    <2>6. WalkInv'
      BY <1>3, <2>1, <2>3, <2>4, <2>5, Zenon DEF WalkInv
    <2>. QED  BY <1>3, <2>2, <2>6 DEF OptionsInv, IInv
  <1>. QED  BY <1>5, <1>6, <1>7, <1>8, <1>9 DEF Next

(* The invariant of the reader: it holds in every reachable state.         *)
THEOREM OptionsInvariance == Spec => []OptionsInv
  BY OptionsInit, OptionsStep, PTL DEF Spec

(* Every variable keeps its type, whatever the options are: the struct's   *)
(* arrays keep their sizes and the reader is never further than one option *)
(* behind the field.                                                       *)
THEOREM OptionsTypeOK == Spec => []TypeOK
  <1>1. OptionsInv => TypeOK
    <2> SUFFICES ASSUME OptionsInv  PROVE TypeOK
      OBVIOUS
    <2>1. ListInv /\ OptInv /\ StateInv
      BY DEF OptionsInv, IInv
    <2>2. \A i \in DOMAIN field : field[i] \in 0 .. 255
      <3>1. field \in Seq(Byte)
        BY <2>1, FirstOption, Layout
      <3>2. \A i \in DOMAIN field : field[i] \in Byte
        BY <3>1
      <3>. QED  BY <3>2, Zenon DEF Byte
    <2>3. Len(field) <= OPT_MAX_L
      BY <2>1 DEF ListInv
    <2>4. \A f \in {"sub_msk", "srv_id", "rtr_id", "rqt_id", "dns_id"} : Len(opt[f]) = IP_ADDR_L
      BY <2>1 DEF OptInv
    <2>. QED  BY <2>1, <2>2, <2>3, <2>4 DEF TypeOK, OptInv, StateInv, MsgSet
  <1>. QED  BY <1>1, OptionsInvariance, PTL

(* Reader and sender agree where the options begin, for every list that    *)
(* the reader can read and whatever bytes the values are made of.          *)
THEOREM OptionsAligned == Spec => []Aligned
  <1>1. OptionsInv => Aligned
    <2> SUFFICES ASSUME OptionsInv, Readable, status # "start"
                 PROVE  /\ status # "lost"
                        /\ \/ \E i \in 0 .. Len(options) : ptr = EndOf(i)
                           \/ \E i \in DOMAIN options :
                                /\ options[i].code \notin Known
                                /\ ptr \in EndOf(i - 1) .. EndOf(i)
                        /\ status = "done" => ptr = EndOf(Len(options))
      BY DEF Aligned
    <2>1. /\ status # "lost"
          /\ status = "done" => ptr = EndOf(Len(options))
      BY Zenon DEF OptionsInv, IInv, WalkInv
    <2>2. PICK i \in 0 .. Len(options) : IsAfter(i, opt, ptr)
      BY Zenon DEF OptionsInv, IInv, WalkInv
    <2>3. ListInv
      BY Zenon DEF OptionsInv, IInv
    <2>4. CASE ptr = EndOf(i)
      BY <2>1, <2>4, Zenon
    <2>5. CASE /\ i < Len(options) /\ options[i + 1].code \notin Known
               /\ ptr \in EndOf(i) .. EndOf(i + 1) - 1
      <3>1. /\ Len(options) \in Nat /\ DOMAIN options = 1 .. Len(options)
        BY <2>3, PiecesFacts DEF ListInv
      <3>2. i + 1 \in DOMAIN options /\ (i + 1) - 1 = i /\ i + 1 \in 0 .. Len(options)
        BY <2>5, <3>1
      <3>3. EndOf(i) \in Nat /\ EndOf(i + 1) \in Nat
        BY <2>3, <3>2, Layout, Zenon
      <3>4. ptr \in EndOf(i) .. EndOf(i + 1)
        BY <2>5, <3>3
      <3>. QED  BY <2>1, <2>5, <3>2, <3>4, Zenon
    <2>. QED  BY <2>2, <2>4, <2>5, Zenon DEF IsAfter
  <1>. QED  BY <1>1, OptionsInvariance, PTL

(* A reader at the end of an option has read the options up to that one.   *)
LEMMA AtEnd ==
  ASSUME ListInv, NEW i \in 0 .. Len(options), NEW j \in 0 .. Len(options),
         ptr = EndOf(j), IsAfter(i, opt, ptr)
  PROVE  Holds(opt, j)
  <1>1. options \in Seq(OptionSet)
    BY DEF ListInv
  <1>2. /\ EndOf(i) \in Nat /\ EndOf(j) \in Nat
        /\ i < Len(options) => EndOf(i + 1) \in Nat
    <2>1. Len(options) \in Nat
      BY <1>1, PiecesFacts
    <2>2. i < Len(options) => i + 1 \in 0 .. Len(options)
      BY <2>1
    <2>. QED  BY <2>2, Layout, Zenon
  <1>3. Holds(opt, i)
    BY Zenon DEF IsAfter
  <1>4. CASE i = j
    BY <1>3, <1>4, Zenon
  <1>5. CASE j < i
    <2>1. EndOf(j) + 2 <= EndOf(i)
      BY <1>1, <1>5, EndsGrow, Zenon
    <2>2. ptr >= EndOf(i)
      BY <1>2 DEF IsAfter
    <2>. QED  BY <1>2, <2>1, <2>2
  <1>6. CASE i < j
    <2>1. EndOf(i) + 2 <= EndOf(j)
      BY <1>1, <1>6, EndsGrow, Zenon
    <2>2. i < Len(options) /\ i + 1 <= j /\ i + 1 \in 0 .. Len(options)
      <3>1. Len(options) \in Nat
        BY <1>1, PiecesFacts
      <3>. QED  BY <1>6, <3>1
    <2>3. EndOf(i + 1) <= EndOf(j)
      <3>1. CASE i + 1 = j
        BY <1>2, <3>1
      <3>2. CASE i + 1 < j
        <4>1. EndOf(i + 1) + 2 <= EndOf(j)
          BY <1>1, <2>2, <3>2, EndsGrow, Zenon
        <4>. QED  BY <1>2, <2>2, <4>1
      <3>. QED  BY <2>2, <3>1, <3>2
    <2>4. ptr < EndOf(i + 1)
      BY <1>2, <2>1, <2>2 DEF IsAfter
    <2>. QED  BY <1>2, <2>2, <2>3, <2>4
  <1>. QED  BY <1>4, <1>5, <1>6

(* What the reader has stored is what the options passed say, for lists of *)
(* any length and values of any bytes.                                     *)
THEOREM OptionsAgreesWithSender == Spec => []AgreesWithSender
  <1>1. OptionsInv => AgreesWithSender
    <2> SUFFICES ASSUME OptionsInv, NEW j \in 0 .. Len(options), Readable,
                        status # "start", ptr = EndOf(j)
                 PROVE  Agrees(opt, j)
      BY DEF AgreesWithSender
    <2>1. ListInv
      BY Zenon DEF OptionsInv, IInv
    <2>2. PICK i \in 0 .. Len(options) : IsAfter(i, opt, ptr)
      BY Zenon DEF OptionsInv, IInv, WalkInv
    <2>. QED  BY <2>1, <2>2, AtEnd, HoldsAgrees, Zenon
  <1>. QED  BY <1>1, OptionsInvariance, PTL

(* The round trip: what the program writes it reads back.                  *)
THEOREM OptionsReadsBack == Spec => []ReadsBack
  <1>1. OptionsInv => ReadsBack
    <2> SUFFICES ASSUME OptionsInv, status = "done", written # no_opt,
                        Len(written.hst_name) < 254
                 PROVE  \A f \in {"dhcp_msg", "hst_name", "sub_msk", "srv_id", "dns_id"} :
                          opt[f] = written[f]
      BY DEF ReadsBack
    <2>1. ListInv /\ WalkInv /\ WriteInv
      BY Zenon DEF OptionsInv, IInv
    <2>2. written \in Sent /\ options = set_dhcp_hdr_from_dhcp_opt(written)
      BY <2>1, Zenon DEF WriteInv
    <2>3. /\ options \in Seq(ReadableSet)
          /\ Message(LastValue(options, {DHCP_MSG_OP}, << 0 >>)[1]) = written.dhcp_msg
          /\ LastValue(options, {DHCP_HST_NAME_OP}, << >>) = written.hst_name
          /\ SubSeq(LastValue(options, {DHCP_SUB_MSK_OP}, Zeros(IP_ADDR_L)), 1, IP_ADDR_L)
             = written.sub_msk
          /\ SubSeq(LastValue(options, {DHCP_SRV_ID_OP}, Zeros(IP_ADDR_L)), 1, IP_ADDR_L)
             = written.srv_id
          /\ SubSeq(LastValue(options, {DHCP_DNS_OP}, Zeros(IP_ADDR_L)), 1, IP_ADDR_L)
             = written.dns_id
      BY <2>2, WrittenOptions, Zenon
    <2>4. Readable
      <3>1. \A i \in DOMAIN options : options[i] \in ReadableSet
        BY <2>3
      <3>. QED  BY <3>1, Zenon DEF Readable, ReadableSet
    <2>5. Len(options) \in 0 .. Len(options) /\ Passed(Len(options)) = options
      <3>1. options \in Seq(OptionSet)
        BY <2>1, Zenon DEF ListInv
      <3>2. \A s \in Seq(OptionSet) : Len(s) \in 0 .. Len(s) /\ SubSeq(s, 1, Len(s)) = s
        OBVIOUS
      <3>. QED  BY <3>1, <3>2, Zenon DEF Passed
    <2>6. status # "start"
      OBVIOUS
    <2>7. Holds(opt, Len(options))
      <3>1. PICK i \in 0 .. Len(options) : IsAfter(i, opt, ptr)
        BY <2>1, <2>4, <2>6, Zenon DEF WalkInv
      <3>2. ptr = EndOf(Len(options))
        BY <2>1, <2>4, <2>6, Zenon DEF WalkInv
      <3>. QED  BY <2>1, <2>5, <3>1, <3>2, AtEnd, Zenon
    <2>8. /\ opt.dhcp_msg = Message(LastValue(options, {DHCP_MSG_OP}, << 0 >>)[1])
          /\ opt.hst_name = LastValue(options, {DHCP_HST_NAME_OP}, << >>)
          /\ opt.sub_msk = SubSeq(LastValue(options, {DHCP_SUB_MSK_OP}, Zeros(IP_ADDR_L)), 1, IP_ADDR_L)
          /\ opt.srv_id = SubSeq(LastValue(options, {DHCP_SRV_ID_OP}, Zeros(IP_ADDR_L)), 1, IP_ADDR_L)
          /\ opt.dns_id = SubSeq(LastValue(options, {DHCP_DNS_OP}, Zeros(IP_ADDR_L)), 1, IP_ADDR_L)
      BY <2>5, <2>7, Zenon DEF Holds, Message
    <2>9. /\ opt.dhcp_msg = written.dhcp_msg /\ opt.hst_name = written.hst_name
          /\ opt.sub_msk = written.sub_msk /\ opt.srv_id = written.srv_id
          /\ opt.dns_id = written.dns_id
      BY <2>3, <2>8, Zenon
    <2>. QED  BY <2>9
  <1>. QED  BY <1>1, OptionsInvariance, PTL
==============================================================================
