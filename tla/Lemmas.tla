-------------------------------- MODULE Lemmas -------------------------------
(***************************************************************************)
(* Lemmas that the proofs of several components share.                     *)
(*                                                                         *)
(* Words: htonl undoes itself and keeps the slot of a transaction id, and  *)
(* adding the network part of an address to a 24-bit number loses nothing. *)
(*                                                                         *)
(* Numbers and sequences: induction, stated for a set of numbers, and what *)
(* joining a sequence of sequences gives, proved by it.                    *)
(***************************************************************************)
EXTENDS Words, SequencesExt, WellFoundedInduction, SequenceTheorems, TLAPS

-----------------------------------------------------------------------------
(* Words                                                                   *)

(* Conversion to network order and back is the identity.                   *)
LEMMA HtonlInverse ==
  ASSUME NEW w \in Word
  PROVE  htonl(w) \in Word /\ htonl(htonl(w)) = w
  BY DEF Word, htonl

(* A transaction id hashes to the same slot in either byte order.          *)
LEMMA KeyOfHtonl ==
  ASSUME NEW w \in Word
  PROVE  get_key_for_trs_id(htonl(w)) = get_key_for_trs_id(w)
  <1>1. w[1] \in Int /\ w[2] \in Int /\ w[3] \in Int /\ w[4] \in Int
    BY DEF Word, Byte
  <1>2. w[4] + w[3] + w[2] + w[1] = w[1] + w[2] + w[3] + w[4]
    BY <1>1
  <1>. QED  BY <1>2 DEF htonl, get_key_for_trs_id

(* A remainder by 256 is a byte.                                           *)
LEMMA ByteIsMod ==
  ASSUME NEW n \in Nat
  PROVE  n % 256 \in Byte
  BY DEF Byte

(* The quotients that give a number's higher bytes are numbers.            *)
LEMMA DivType ==
  ASSUME NEW n \in Nat
  PROVE  n \div 256 \in Nat /\ n \div 65536 \in Nat /\ n \div 16777216 \in Nat
  BY SMT

(* A number in memory is a word.                                           *)
LEMMA MemoryType ==
  ASSUME NEW n \in Nat
  PROVE  Memory(n) \in Word
  BY DivType, ByteIsMod, SMT DEF Memory, Word

(* A 24-bit number is the sum of its three bytes.                          *)
LEMMA NumberOfBytes ==
  ASSUME NEW n, Bits24(n)
  PROVE  /\ n \in Nat
         /\ n \div 16777216 = 0
         /\ n = 65536 * ((n \div 65536) % 256) + 256 * ((n \div 256) % 256) + (n % 256)
  <1> DEFINE q == n \div 256
             r == n \div 65536
  <1> n \in Nat /\ n <= 16777215
    BY SMT DEF Bits24
  <1>0. n \div 16777216 = 0
    BY SMT
  <1>1. r \in 0 .. 255 /\ q \in Nat
    <2>1. n \div 65536 \in Nat /\ n \div 65536 <= 255
      BY SMT
    <2>. QED  BY <2>1, DivType, SMT
  <1>2. n = 256 * q + (n % 256) /\ n % 256 \in Nat /\ n % 256 < 256
    BY <1>1, SMT
  <1>3. n = 65536 * r + (n % 65536) /\ n % 65536 \in Nat /\ n % 65536 < 65536
    BY <1>1, SMT
  <1> HIDE DEF q, r
  <1>4. q \div 256 = r
    <2> DEFINE a == n % 256
               b == n % 65536
    <2>1. 256 * q + a = 65536 * r + b /\ a \in Nat /\ a < 256 /\ b \in Nat /\ b < 65536
      BY <1>1, <1>2, <1>3, SMT
    <2> HIDE DEF a, b
    <2>2. q \in Nat /\ r \in Nat
      BY <1>1
    <2>3. 256 * r <= q /\ q < 256 * r + 256
      BY <2>1, <2>2, SMT
    <2>. QED  BY <1>1, <2>3, SMT
  <1>5. q = 256 * r + (q % 256)
    BY <1>1, <1>4, SMT
  <1>6. r % 256 = r
    BY <1>1, SMT
  <1>7. q % 256 \in Int /\ n % 256 \in Int
    BY <1>1, SMT
  <1>8. n = 65536 * (r % 256) + 256 * (q % 256) + (n % 256)
    BY <1>1, <1>2, <1>5, <1>6, <1>7, SMT
  <1>. QED  BY <1>0, <1>8, SMT DEF q, r

(* A byte under a mask is a byte.                                          *)
LEMMA MaskByteType ==
  ASSUME NEW b \in Byte, NEW m \in MaskBytes
  PROVE  MaskByte(b, m) \in Byte
  <1>1. 256 - m \in {256, 128, 64, 32, 16, 8, 4, 2, 1}
    BY DEF MaskBytes
  <1>2. \A k \in {256, 128, 64, 32, 16, 8, 4, 2, 1} : b % k \in 0 .. b
    BY DEF Byte
  <1>3. b % (256 - m) \in 0 .. b
    BY <1>1, <1>2
  <1>4. \A r \in 0 .. b : b - r \in 0 .. 255
    BY DEF Byte
  <1>. QED  BY <1>3, <1>4, Zenon DEF MaskByte, Byte

(* A word under a netmask is a word.                                       *)
LEMMA MaskWordType ==
  ASSUME NEW a \in Word, NEW m \in Word, \A i \in 1 .. 4 : m[i] \in MaskBytes
  PROVE  MaskWord(a, m) \in Word
  <1>1. \A i \in 1 .. 4 : a[i] \in Byte /\ m[i] \in MaskBytes
    BY DEF Word
  <1>. QED  BY <1>1, MaskByteType DEF MaskWord, Word

(* The bytes of an address plus a 24-bit number.                           *)
LEMMA AddBytes ==
  ASSUME NEW net \in Word, NEW n, Bits24(n)
  PROVE  LET h2 == (n \div 65536) % 256
             h3 == (n \div 256) % 256
             h4 == n % 256
             s2 == net[2] + h2
             s3 == net[3] + h3 + (s2 \div 256)
             s4 == net[4] + h4 + (s3 \div 256)
         IN  AddWords(net, htonl(Memory(n))) = << net[1], s2 % 256, s3 % 256, s4 % 256 >>
  <1> DEFINE h1 == (n \div 16777216) % 256
             s1 == net[1] + h1
  <1>1. net[1] \in Byte
    BY DEF Word
  <1>2. h1 = 0
    BY NumberOfBytes, SMT
  <1>3. s1 = net[1] /\ s1 % 256 = net[1] /\ s1 \div 256 = 0
    BY <1>1, <1>2 DEF Byte
  <1>4. net[2] \in Int /\ (n \div 65536) % 256 \in Int
    BY NumberOfBytes, DivType, ByteIsMod, SMT DEF Word, Byte
  <1>. HIDE DEF h1
  <1>5. net[2] + ((n \div 65536) % 256) + (s1 \div 256) = net[2] + ((n \div 65536) % 256)
    BY <1>3, <1>4, SMT
  <1>. USE DEF h1
  <1>. QED  BY <1>3, <1>5, SMT DEF AddWords, htonl, Memory

(* Sums of a number with two bytes agree in their low byte only if the     *)
(* bytes do.                                                               *)
LEMMA ByteSum ==
  ASSUME NEW a \in Nat, NEW x \in Byte, NEW y \in Byte, (a + x) % 256 = (a + y) % 256
  PROVE  x = y
  <1> DEFINE p == (a + x) \div 256
             q == (a + y) \div 256
  <1>1. a + x = 256 * p + ((a + x) % 256) /\ a + y = 256 * q + ((a + y) % 256)
        /\ p \in Int /\ q \in Int
    BY SMTT(30) DEF Byte
  <1>2. x - y = 256 * (p - q) /\ x - y \in -255 .. 255
    <2>. HIDE DEF p, q
    <2>. QED  BY <1>1, SMTT(30) DEF Byte
  <1>3. p = q
    <2>. HIDE DEF p, q
    <2>. QED  BY <1>1, <1>2, SMTT(30)
  <1>. QED  BY <1>2, <1>3, <1>1, SMTT(30) DEF Byte

(* Different numbers give different addresses, and none gives the address  *)
(* 0.0.0.0, which the table uses for "no address".                         *)
LEMMA AddressInjective ==
  ASSUME NEW net \in Word, net[1] # 0,
         NEW n, NEW m, Bits24(n), Bits24(m)
  PROVE  /\ AddWords(net, htonl(Memory(n))) \in Word
         /\ AddWords(net, htonl(Memory(n))) # ZeroWord
         /\ AddWords(net, htonl(Memory(n))) = AddWords(net, htonl(Memory(m))) => n = m
  <1> DEFINE h2(k) == (k \div 65536) % 256
             h3(k) == (k \div 256) % 256
             h4(k) == k % 256
             s2(k) == net[2] + h2(k)
             s3(k) == net[3] + h3(k) + (s2(k) \div 256)
             s4(k) == net[4] + h4(k) + (s3(k) \div 256)
  <1>1. net[1] \in Byte /\ net[2] \in Byte /\ net[3] \in Byte /\ net[4] \in Byte
    BY DEF Word
  <1>2. \A k : Bits24(k) => h2(k) \in Byte /\ h3(k) \in Byte /\ h4(k) \in Byte
    BY NumberOfBytes, DivType, ByteIsMod, SMT
  <1>3. \A k : Bits24(k) =>
          AddWords(net, htonl(Memory(k))) = << net[1], s2(k) % 256, s3(k) % 256, s4(k) % 256 >>
    BY AddBytes
  <1>4. \A k : Bits24(k) => k = 65536 * h2(k) + 256 * h3(k) + h4(k)
    BY NumberOfBytes
  <1> HIDE DEF h2, h3, h4
  <1>5. \A k : Bits24(k) => s2(k) \in Nat /\ s2(k) \div 256 \in Nat
    <2>1. \A x, y \in Byte : x + y \in Nat
      BY DEF Byte
    <2>. QED  BY <1>1, <1>2, <2>1, DivType
  <1> HIDE DEF s2
  <1>6. \A k : Bits24(k) => s3(k) \in Nat /\ s3(k) \div 256 \in Nat
    <2>1. \A x, y \in Byte : \A c \in Nat : x + y + c \in Nat
      BY DEF Byte
    <2>2. \A k : Bits24(k) => s3(k) \in Nat
      BY <1>1, <1>2, <1>5, <2>1
    <2> HIDE DEF s3
    <2>. QED  BY <2>2, DivType
  <1> HIDE DEF s3
  <1>7. \A k : Bits24(k) => s4(k) \in Nat
    <2>1. \A x, y \in Byte : \A c \in Nat : x + y + c \in Nat
      BY DEF Byte
    <2>. QED  BY <1>1, <1>2, <1>6, <2>1
  <1> HIDE DEF s4
  <1>8. AddWords(net, htonl(Memory(n))) \in Word
    BY <1>1, <1>3, <1>5, <1>6, <1>7, ByteIsMod DEF Word
  <1>9. AddWords(net, htonl(Memory(n))) # ZeroWord
    BY <1>3 DEF ZeroWord
  <1>10. ASSUME AddWords(net, htonl(Memory(n))) = AddWords(net, htonl(Memory(m)))
         PROVE  n = m
    <2>1. s2(n) % 256 = s2(m) % 256 /\ s3(n) % 256 = s3(m) % 256 /\ s4(n) % 256 = s4(m) % 256
      BY <1>3, <1>10
    <2>2. net[2] \in Nat /\ net[3] \in Nat /\ net[4] \in Nat
      BY <1>1 DEF Byte
    <2>3. h2(n) = h2(m)
      BY <1>2, <2>1, <2>2, ByteSum DEF s2
    <2>4. s2(n) = s2(m)
      BY <2>3 DEF s2
    <2>5. h3(n) = h3(m)
      <3> DEFINE c == net[3] + (s2(n) \div 256)
      <3>1. c \in Nat /\ s3(n) = c + h3(n) /\ s3(m) = c + h3(m)
        BY <1>2, <1>5, <2>2, <2>4 DEF s3, Byte
      <3> HIDE DEF c
      <3>. QED  BY <1>2, <2>1, <3>1, ByteSum
    <2>6. s3(n) = s3(m)
      BY <2>4, <2>5 DEF s3
    <2>7. h4(n) = h4(m)
      <3> DEFINE c == net[4] + (s3(n) \div 256)
      <3>1. c \in Nat /\ s4(n) = c + h4(n) /\ s4(m) = c + h4(m)
        BY <1>2, <1>6, <2>2, <2>6 DEF s4, Byte
      <3> HIDE DEF c
      <3>. QED  BY <1>2, <2>1, <3>1, ByteSum
    <2>. QED  BY <1>4, <2>3, <2>5, <2>7
  <1>. QED  BY <1>8, <1>9, <1>10

-----------------------------------------------------------------------------
(* Numbers and sequences                                                   *)

(* A set of numbers that is not empty has a least element.                 *)
LEMMA LeastOf ==
  ASSUME NEW S, S \subseteq Nat, S # {}
  PROVE  \E k \in S : \A j \in S : k <= j
  <1>1. PICK k \in S : \A j \in S : ~(<< j, k >> \in OpToRel(<, Nat))
    BY NatLessThanWellFounded, WFMin
  <1>2. \A j \in S : ~(j < k)
    BY <1>1 DEF OpToRel
  <1>. QED  BY <1>2

(* Induction on the natural numbers, with a set in place of a predicate.   *)
LEMMA Induction ==
  ASSUME NEW S, 0 \in S, \A n \in Nat : n \in S => n + 1 \in S
  PROVE  Nat \subseteq S
  <1> SUFFICES ASSUME Nat \ S # {} PROVE FALSE
    OBVIOUS
  <1>1. PICK n \in Nat \ S : \A m \in Nat \ S : n <= m
    BY LeastOf
  <1>2. n - 1 \in Nat
    BY <1>1
  <1>3. n - 1 \in S
    BY <1>1, <1>2
  <1>4. n \in S
    BY <1>2, <1>3
  <1>. QED  BY <1>1, <1>4

(* f joins the first n of some sequences, one after the other.             *)
Joins(f, ss, n) ==
  \A i \in 1 .. n : f[i] = IF i = 1 THEN ss[i] ELSE f[i - 1] \o ss[i]

(* There is at most one way to do so, and it gives sequences.              *)
LEMMA JoinsUnique ==
  ASSUME NEW S, NEW ss \in Seq(Seq(S)), NEW n \in 0 .. Len(ss), NEW f, NEW g,
         Joins(f, ss, n), Joins(g, ss, n)
  PROVE  \A i \in 1 .. n : f[i] = g[i] /\ f[i] \in Seq(S)
  <1> DEFINE A == { i \in Nat : i \in 1 .. n => f[i] = g[i] /\ f[i] \in Seq(S) }
  <1>1. 0 \in A
    OBVIOUS
  <1>2. ASSUME NEW i \in Nat, i \in A  PROVE  i + 1 \in A
    <2>1. CASE i + 1 \notin 1 .. n
      BY <2>1
    <2>2. CASE i = 0 /\ 1 \in 1 .. n
      BY <2>2 DEF Joins
    <2>3. CASE i # 0 /\ i + 1 \in 1 .. n
      <3>1. /\ i \in 1 .. n /\ f[i] = g[i] /\ f[i] \in Seq(S)
            /\ ss[i + 1] \in Seq(S) /\ i + 1 # 1 /\ (i + 1) - 1 = i
        BY <1>2, <2>3
      <3>2. f[i + 1] = f[i] \o ss[i + 1] /\ g[i + 1] = g[i] \o ss[i + 1]
        BY <2>3, <3>1 DEF Joins
      <3>3. f[i] \o ss[i + 1] \in Seq(S)
        BY <3>1
      <3>4. f[i + 1] = g[i + 1] /\ f[i + 1] \in Seq(S)
        BY <3>1, <3>2, <3>3
      <3>. HIDE DEF Joins
      <3>. QED  BY <3>4
    <2>. QED  BY <2>1, <2>2, <2>3
  <1>. HIDE DEF A
  <1>3. Nat \subseteq A
    BY <1>1, <1>2, Induction
  <1>. QED  BY <1>3 DEF A

(* There is one.                                                           *)
LEMMA JoinsExists ==
  ASSUME NEW S, NEW ss \in Seq(Seq(S)), NEW n \in 0 .. Len(ss)
  PROVE  \E f \in [1 .. n -> Seq(S)] : Joins(f, ss, n)
  <1> DEFINE A == { m \in Nat : m \in 0 .. Len(ss) =>
                                  \E f \in [1 .. m -> Seq(S)] : Joins(f, ss, m) }
  <1>1. 0 \in A
    <2> DEFINE f == [i \in 1 .. 0 |-> << >>]
    <2>1. f \in [1 .. 0 -> Seq(S)] /\ Joins(f, ss, 0)
      BY DEF Joins
    <2>. QED  BY <2>1
  <1>2. ASSUME NEW m \in Nat, m \in A  PROVE  m + 1 \in A
    <2> SUFFICES ASSUME m + 1 \in 0 .. Len(ss)
                 PROVE  \E f \in [1 .. m + 1 -> Seq(S)] : Joins(f, ss, m + 1)
      OBVIOUS
    <2>1. PICK f \in [1 .. m -> Seq(S)] : Joins(f, ss, m)
      BY <1>2
    <2> DEFINE e == IF m = 0 THEN ss[m + 1] ELSE f[m] \o ss[m + 1]
               g == [i \in 1 .. m + 1 |-> IF i = m + 1 THEN e ELSE f[i]]
    <2>2. e \in Seq(S)
      <3>1. ss[m + 1] \in Seq(S)
        OBVIOUS
      <3>2. m # 0 => f[m] \in Seq(S)
        OBVIOUS
      <3>. QED  BY <3>1, <3>2
    <2>3. g \in [1 .. m + 1 -> Seq(S)]
      BY <2>2
    <2>4. ASSUME NEW i \in 1 .. m + 1
          PROVE  g[i] = IF i = 1 THEN ss[i] ELSE g[i - 1] \o ss[i]
      <3>1. CASE i = m + 1
        <4>1. CASE m = 0
          BY <3>1, <4>1
        <4>2. CASE m # 0
          <5>1. m \in 1 .. m + 1 /\ m # m + 1 /\ i - 1 = m /\ i # 1
            BY <3>1, <4>2
          <5>2. g[m] = f[m] /\ g[i] = e
            BY <3>1, <5>1, Zenon
          <5>. QED  BY <3>1, <4>2, <5>1, <5>2
        <4>. QED  BY <4>1, <4>2
      <3>2. CASE i # m + 1
        <4>1. i \in 1 .. m /\ g[i] = f[i] /\ (i # 1 => g[i - 1] = f[i - 1])
          BY <3>2
        <4>. QED  BY <2>1, <4>1 DEF Joins
      <3>. QED  BY <3>1, <3>2
    <2>5. Joins(g, ss, m + 1)
      BY <2>4 DEF Joins
    <2>. QED  BY <2>3, <2>5
  <1>. HIDE DEF A
  <1>3. Nat \subseteq A
    BY <1>1, <1>2, Induction
  <1>4. n \in A
    BY <1>3
  <1>. QED  BY <1>4 DEF A

(* FlattenSeq, whose definition is recursive, does so.                     *)
LEMMA FlattenJoins ==
  ASSUME NEW S, NEW ss \in Seq(Seq(S)), ss # << >>
  PROVE  \E f \in [1 .. Len(ss) -> Seq(S)] :
           Joins(f, ss, Len(ss)) /\ FlattenSeq(ss) = f[Len(ss)]
  <1> DEFINE F(f) == [i \in 1 .. Len(ss) |-> IF i = 1 THEN ss[i] ELSE f[i - 1] \o ss[i]]
             c == CHOOSE f : f = F(f)
  <1>1. PICK f \in [1 .. Len(ss) -> Seq(S)] : Joins(f, ss, Len(ss))
    BY JoinsExists
  <1>2. f = F(f)
    BY <1>1 DEF Joins
  <1>3. c = F(c)
    BY <1>2
  <1>4. Joins(c, ss, Len(ss))
    BY <1>3 DEF Joins
  <1>5. FlattenSeq(ss) = c[Len(ss)]
    BY DEF FlattenSeq
  <1>. HIDE DEF c, F
  <1>6. f[Len(ss)] = c[Len(ss)]
    <2>1. Len(ss) \in 0 .. Len(ss) /\ Len(ss) \in 1 .. Len(ss)
      OBVIOUS
    <2>2. ASSUME NEW g, NEW h, Joins(g, ss, Len(ss)), Joins(h, ss, Len(ss))
          PROVE  g[Len(ss)] = h[Len(ss)]
      <3>1. \A i \in 1 .. Len(ss) : g[i] = h[i]
        BY <2>1, <2>2, JoinsUnique
      <3>. QED  BY <2>1, <3>1, Zenon
    <2>. QED  BY <1>1, <1>4, <2>2, Zenon
  <1>. QED  BY <1>1, <1>5, <1>6

(* Two ways to join the same sequences come to the same.                   *)
LEMMA JoinsAgree ==
  ASSUME NEW S, NEW ss \in Seq(Seq(S)), NEW n \in 1 .. Len(ss), NEW f, NEW g,
         Joins(f, ss, n), Joins(g, ss, n)
  PROVE  f[n] = g[n]
  <1>1. n \in 0 .. Len(ss) /\ n \in 1 .. n
    OBVIOUS
  <1>2. \A i \in 1 .. n : f[i] = g[i] /\ f[i] \in Seq(S)
    BY <1>1, JoinsUnique
  <1>. QED  BY <1>1, <1>2

(* Joining sequences gives a sequence, and adding a sequence adds its      *)
(* elements at the end.                                                    *)
LEMMA FlattenAppend ==
  ASSUME NEW S, NEW ss \in Seq(Seq(S)), NEW s \in Seq(S)
  PROVE  /\ FlattenSeq(ss) \in Seq(S)
         /\ FlattenSeq(Append(ss, s)) = FlattenSeq(ss) \o s
  <1>0. PICK n \in Nat : n = Len(ss)
    OBVIOUS
  <1> DEFINE tt == Append(ss, s)
  <1>1. /\ tt \in Seq(Seq(S)) /\ tt # << >> /\ Len(tt) = n + 1 /\ n \in Nat
        /\ tt[n + 1] = s /\ \A i \in 1 .. n : tt[i] = ss[i]
    BY <1>0, AppendProperties
  <1>. HIDE DEF tt
  <1>2. PICK g \in [1 .. n + 1 -> Seq(S)] :
          Joins(g, tt, n + 1) /\ FlattenSeq(tt) = g[n + 1]
    BY <1>1, FlattenJoins
  <1>3. CASE ss = << >>
    <2>1. FlattenSeq(ss) = << >>
      BY <1>3 DEF FlattenSeq
    <2>2. g[1] = s
      BY <1>0, <1>1, <1>2, <1>3 DEF Joins
    <2>3. n = 0 /\ << >> \in Seq(S) /\ << >> \o s = s
      BY <1>0, <1>3
    <2>. QED  BY <1>2, <2>1, <2>2, <2>3 DEF tt
  <1>4. CASE ss # << >>
    <2>1. PICK f \in [1 .. n -> Seq(S)] :
            Joins(f, ss, n) /\ FlattenSeq(ss) = f[n]
      BY <1>0, <1>4, FlattenJoins
    <2>2. Joins(g, ss, n)
      <3>1. ASSUME NEW i \in 1 .. n
            PROVE  g[i] = IF i = 1 THEN ss[i] ELSE g[i - 1] \o ss[i]
        <4>1. i \in 1 .. n + 1 /\ tt[i] = ss[i]
          BY <1>1
        <4>. QED  BY <1>2, <4>1, Zenon DEF Joins
      <3>. QED  BY <3>1, Zenon DEF Joins
    <2>3. n \in 1 .. n /\ n \in 0 .. Len(ss) /\ n + 1 \in 1 .. n + 1 /\ n + 1 # 1 /\ (n + 1) - 1 = n
      BY <1>0, <1>4
    <2>4. f[n] = g[n]
      <3>1. n \in 1 .. Len(ss)
        BY <1>0, <2>3
      <3>. QED  BY <2>1, <2>2, <3>1, JoinsAgree
    <2>5. g[n + 1] = g[n] \o s
      BY <1>1, <1>2, <2>3 DEF Joins
    <2>6. FlattenSeq(ss) \in Seq(S)
      BY <2>1, <2>3
    <2>. QED  BY <1>2, <2>1, <2>4, <2>5, <2>6 DEF tt
  <1>. QED  BY <1>3, <1>4

(* The first sequences joined are a prefix of all of them joined.          *)
LEMMA FlattenPrefix ==
  ASSUME NEW S, NEW ss \in Seq(Seq(S)), NEW n \in 0 .. Len(ss)
  PROVE  \E t \in Seq(S) : FlattenSeq(ss) = FlattenSeq(SubSeq(ss, 1, n)) \o t
  <1> DEFINE F(k) == FlattenSeq(SubSeq(ss, 1, k))
             A == { d \in Nat : n + d <= Len(ss) => \E t \in Seq(S) : F(n + d) = F(n) \o t }
  <1>1. ASSUME NEW k \in 0 .. Len(ss)
        PROVE  /\ F(k) \in Seq(S)
               /\ k < Len(ss) => ss[k + 1] \in Seq(S) /\ F(k + 1) = F(k) \o ss[k + 1]
    <2>1. SubSeq(ss, 1, k) \in Seq(Seq(S))
      OBVIOUS
    <2>2. k < Len(ss) => ss[k + 1] \in Seq(S)
                         /\ SubSeq(ss, 1, k + 1) = Append(SubSeq(ss, 1, k), ss[k + 1])
      OBVIOUS
    <2>3. F(k) \in Seq(S)
      <3>1. << >> \in Seq(S)
        OBVIOUS
      <3>. QED  BY <2>1, <3>1, FlattenAppend, Zenon
    <2>. QED  BY <2>1, <2>2, <2>3, FlattenAppend, Zenon
  <1>. HIDE DEF F
  <1>2. 0 \in A
    <2>1. n + 0 = n /\ F(n) \in Seq(S)
      BY <1>1
    <2>2. F(n) = F(n) \o << >> /\ << >> \in Seq(S)
      BY <2>1
    <2>. QED  BY <2>1, <2>2
  <1>3. ASSUME NEW d \in Nat, d \in A  PROVE  d + 1 \in A
    <2>1. ASSUME n + (d + 1) <= Len(ss)
          PROVE  \E t \in Seq(S) : F(n + (d + 1)) = F(n) \o t
      <3> DEFINE e == ss[n + d + 1]
      <3>1. /\ n \in 0 .. Len(ss) /\ n + d \in 0 .. Len(ss) /\ n + d < Len(ss)
            /\ n + (d + 1) = n + d + 1 /\ n + d <= Len(ss)
        BY <2>1
      <3>2. PICK t \in Seq(S) : F(n + d) = F(n) \o t
        BY <1>3, <3>1
      <3>3. F(n) \in Seq(S) /\ e \in Seq(S) /\ F(n + (d + 1)) = F(n + d) \o e
        BY <1>1, <3>1
      <3>. HIDE DEF e
      <3>4. (F(n) \o t) \o e = F(n) \o (t \o e) /\ t \o e \in Seq(S)
        <4>1. t \o e \in Seq(S)
          BY <3>2, <3>3
        <4>2. \A s1, s2, s3 \in Seq(S) : (s1 \o s2) \o s3 = s1 \o (s2 \o s3)
          BY ConcatAssociative, SMTT(60)
        <4>. QED  BY <3>2, <3>3, <4>1, <4>2, Zenon
      <3>5. F(n + (d + 1)) = F(n) \o (t \o e)
        BY <3>2, <3>3, <3>4
      <3>. QED  BY <3>4, <3>5
    <2>2. d + 1 \in Nat
      OBVIOUS
    <2>. QED  BY <2>1, <2>2, Zenon
  <1>4. Nat \subseteq A
    <2>. HIDE DEF A
    <2>. QED  BY <1>2, <1>3, Induction
  <1>5. \E d \in Nat : n + d = Len(ss) /\ n + d <= Len(ss)
    <2>1. Len(ss) - n \in Nat /\ n + (Len(ss) - n) = Len(ss) /\ Len(ss) <= Len(ss)
      OBVIOUS
    <2>. QED  BY <2>1
  <1>6. \E t \in Seq(S) : F(Len(ss)) = F(n) \o t
    BY <1>4, <1>5, Zenon
  <1>7. SubSeq(ss, 1, Len(ss)) = ss
    BY SubSeqFull
  <1>. QED  BY <1>6, <1>7 DEF F

(* No sequences, joined, give the empty one.                               *)
LEMMA FlattenEmpty ==
  FlattenSeq(<< >>) = << >>
  BY DEF FlattenSeq

(* What is joined begins with the first sequence.                          *)
LEMMA FlattenFirst ==
  ASSUME NEW S, NEW ss \in Seq(Seq(S)), ss # << >>
  PROVE  \E t \in Seq(S) : FlattenSeq(ss) = ss[1] \o t
  <1>1. 1 \in 0 .. Len(ss) /\ ss[1] \in Seq(S)
    OBVIOUS
  <1>2. SubSeq(ss, 1, 1) = Append(<< >>, ss[1])
    <2>1. SubSeq(ss, 1, 1) \in Seq(Seq(S)) /\ Append(<< >>, ss[1]) \in Seq(Seq(S))
      BY <1>1
    <2>2. /\ Len(SubSeq(ss, 1, 1)) = 1 /\ Len(Append(<< >>, ss[1])) = 1
          /\ SubSeq(ss, 1, 1)[1] = ss[1] /\ Append(<< >>, ss[1])[1] = ss[1]
      BY <1>1
    <2>3. \A i \in 1 .. 1 : i = 1
      OBVIOUS
    <2>4. \A i \in 1 .. Len(SubSeq(ss, 1, 1)) :
            SubSeq(ss, 1, 1)[i] = Append(<< >>, ss[1])[i]
      BY <2>2, <2>3, Zenon
    <2>. QED  BY <2>1, <2>2, <2>4, SeqEqual, Zenon
  <1>3. << >> \in Seq(Seq(S))
    OBVIOUS
  <1>4. FlattenSeq(Append(<< >>, ss[1])) = FlattenSeq(<< >>) \o ss[1]
    BY <1>1, <1>3, FlattenAppend, Zenon
  <1>5. << >> \o ss[1] = ss[1]
    BY <1>1
  <1>6. FlattenSeq(SubSeq(ss, 1, 1)) = ss[1]
    BY <1>2, <1>4, <1>5, FlattenEmpty
  <1>. QED  BY <1>1, <1>6, FlattenPrefix

(* Min gives a least element.                                              *)
LEMMA MinLeast ==
  ASSUME NEW S, S \subseteq Nat, S # {}
  PROVE  Min(S) \in S /\ \A j \in S : Min(S) <= j
  <1>1. \E k \in S : \A j \in S : k <= j
    BY LeastOf
  <1>. QED  BY <1>1 DEF Min

(* An element that is least is the one that Min gives.                    *)
LEMMA MinIs ==
  ASSUME NEW S, S \subseteq Nat, NEW m \in S, \A j \in S : m <= j
  PROVE  Min(S) = m
  <1>1. Min(S) \in S /\ \A j \in S : Min(S) <= j
    BY MinLeast
  <1>2. m <= Min(S) /\ Min(S) <= m /\ m \in Nat /\ Min(S) \in Nat
    BY <1>1
  <1>. QED  BY <1>2

(* The least element of a set, or a bound on it when it is empty.          *)
LEMMA MinOrBound ==
  ASSUME NEW S, S \subseteq Nat, NEW b \in Nat, \A j \in S : j <= b
  PROVE  /\ S = {} => Min(S \union {b}) = b
         /\ S # {} => Min(S \union {b}) = Min(S)
         /\ Min(S \union {b}) \in S \union {b}
         /\ \A j \in S : Min(S \union {b}) <= j
  <1>1. S # {} => Min(S) \in S /\ \A j \in S : Min(S) <= j
    BY MinLeast
  <1>2. S = {} => Min(S \union {b}) = b
    BY MinIs
  <1>3. S # {} => Min(S \union {b}) = Min(S)
    BY <1>1, MinIs
  <1>. QED  BY <1>1, <1>2, <1>3

(* One sequence after another, element by element.                         *)
LEMMA JoinTwo ==
  ASSUME NEW S, NEW s \in Seq(S), NEW u \in Seq(S)
  PROVE  /\ s \o u \in Seq(S)
         /\ Len(s) \in Nat /\ Len(u) \in Nat
         /\ Len(s \o u) = Len(s) + Len(u)
         /\ \A i \in 1 .. Len(s) : (s \o u)[i] = s[i]
         /\ \A i \in 1 .. Len(u) : (s \o u)[Len(s) + i] = u[i]
  OBVIOUS

(* Two sequences and an element after another.                             *)
LEMMA JoinThenAppend ==
  ASSUME NEW S, NEW s \in Seq(S), NEW u \in Seq(S), NEW e \in S,
         NEW c, c = Append(s \o u, e)
  PROVE  /\ c \in Seq(S)
         /\ Len(s) \in Nat /\ Len(u) \in Nat
         /\ Len(c) = Len(s) + Len(u) + 1
         /\ \A i \in 1 .. Len(s) : c[i] = s[i]
         /\ \A i \in 1 .. Len(u) : c[Len(s) + i] = u[i]
         /\ c[Len(s) + Len(u) + 1] = e
  OBVIOUS
==============================================================================
