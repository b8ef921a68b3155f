-------------------------------- MODULE Words --------------------------------
(***************************************************************************)
(* 32-bit words as the program keeps them: four bytes in memory order on   *)
(* the little-endian hosts it is built for.  An in_addr_t holds the octets *)
(* of a dotted address in the order they are written; a uint32_t holds its *)
(* least significant byte first.                                           *)
(***************************************************************************)
EXTENDS Integers

Byte == 0 .. 255
Word == Byte \X Byte \X Byte \X Byte
ZeroWord == <<0, 0, 0, 0>>

(* The uint32_t n as it lies in memory.                                    *)
Memory(n) == << n % 256, (n \div 256) % 256,
                (n \div 65536) % 256, (n \div 16777216) % 256 >>

(* n fits in 24 bits.                                                      *)
Bits24(n) == n \in Nat /\ n < 16777216

(* htonl, and ntohl, which is the same function.                           *)
htonl(w) == << w[4], w[3], w[2], w[1] >>

(* uint32_t addition of two words, carries running from byte 1 to byte 4   *)
(* and lost after it.  On addresses in network order the carry therefore   *)
(* runs from the first octet towards the last.                             *)
AddWords(a, b) ==
  LET s1 == a[1] + b[1]
      s2 == a[2] + b[2] + s1 \div 256
      s3 == a[3] + b[3] + s2 \div 256
      s4 == a[4] + b[4] + s3 \div 256
  IN  << s1 % 256, s2 % 256, s3 % 256, s4 % 256 >>

(* Bitwise and of an octet with an octet of a netmask, whose one bits are  *)
(* its leading bits.                                                       *)
MaskBytes == { 0, 128, 192, 224, 240, 248, 252, 254, 255 }
MaskByte(b, m) == b - (b % (256 - m))
MaskWord(a, m) == << MaskByte(a[1], m[1]), MaskByte(a[2], m[2]),
                     MaskByte(a[3], m[3]), MaskByte(a[4], m[4]) >>

(* ippool.c: the slot of a transaction id, the sum of its bytes in uint8_t *)
get_key_for_trs_id(trs_id) ==
  (trs_id[1] + trs_id[2] + trs_id[3] + trs_id[4]) % 256
==============================================================================
