---------------------------- MODULE LittleEndian ----------------------------
(***************************************************************************)
(* Arithmetic facts about packing four bytes into a 32-bit word least     *)
(* significant byte first, as int.from_bytes(chunk, 'little') does in     *)
(* CDCConsole.write_block, and taking them apart again with \div and %,   *)
(* as a little-endian memory stores the word.  Ranges are stated as       *)
(* inequalities, the form the SMT backend reasons about.                  *)
(***************************************************************************)
EXTENDS Naturals, TLAPS

(* Integer division by a power of 256 drops the low bytes.                 *)
LEMMA Drop1 ==
  ASSUME NEW q \in Nat, NEW r \in Nat, r <= 255 PROVE (r + 256 * q) \div 256 = q
BY SMT

LEMMA Drop2 ==
  ASSUME NEW q \in Nat, NEW r \in Nat, r <= 65535
  PROVE  (r + 65536 * q) \div 65536 = q
BY SMT

LEMMA Drop3 ==
  ASSUME NEW q \in Nat, NEW r \in Nat, r <= 16777215
  PROVE  (r + 16777216 * q) \div 16777216 = q
BY SMT

(* The low byte of a byte plus a multiple of 256.                          *)
LEMMA LowByte ==
  ASSUME NEW q \in Nat, NEW r \in Nat, r <= 255 PROVE (r + 256 * q) % 256 = r
BY SMT

(* Four bytes packed little-endian and unpacked again: byte j of the word *)
(* is (w \div 256^j) % 256.                                                *)
THEOREM Unpack ==
  ASSUME NEW b0 \in Nat, NEW b1 \in Nat, NEW b2 \in Nat, NEW b3 \in Nat,
         b0 <= 255, b1 <= 255, b2 <= 255, b3 <= 255,
         NEW w, w = b0 + 256 * b1 + 65536 * b2 + 16777216 * b3
  PROVE      /\ (w \div 1) % 256 = b0
             /\ (w \div 256) % 256 = b1
             /\ (w \div 65536) % 256 = b2
             /\ (w \div 16777216) % 256 = b3
<1>1. (w \div 1) % 256 = b0
  <2>1. w \div 1 = b0 + 256 * (b1 + 256 * b2 + 65536 * b3)
    BY SMT
  <2>2. b1 + 256 * b2 + 65536 * b3 \in Nat
    BY SMT
  <2>3. QED
    BY <2>1, <2>2, LowByte
<1>2. (w \div 256) % 256 = b1
  <2>1. w = b0 + 256 * (b1 + 256 * b2 + 65536 * b3)
    BY SMT
  <2>2. b1 + 256 * b2 + 65536 * b3 \in Nat /\ b2 + 256 * b3 \in Nat
    BY SMT
  <2>3. w \div 256 = b1 + 256 * (b2 + 256 * b3)
    BY <2>1, <2>2, Drop1
  <2>4. QED
    BY <2>2, <2>3, LowByte
<1>3. (w \div 65536) % 256 = b2
  <2>1. w = (b0 + 256 * b1) + 65536 * (b2 + 256 * b3)
    BY SMT
  <2>2. b0 + 256 * b1 \in Nat /\ b0 + 256 * b1 <= 65535 /\ b2 + 256 * b3 \in Nat
    BY SMT
  <2>3. w \div 65536 = b2 + 256 * b3
    BY <2>1, <2>2, Drop2
  <2>4. QED
    BY <2>2, <2>3, LowByte
<1>4. (w \div 16777216) % 256 = b3
  <2>1. w = (b0 + 256 * b1 + 65536 * b2) + 16777216 * b3
    BY SMT
  <2>2. /\ b0 + 256 * b1 + 65536 * b2 \in Nat
        /\ b0 + 256 * b1 + 65536 * b2 <= 16777215
    BY SMT
  <2>3. w \div 16777216 = b3
    BY <2>1, <2>2, Drop3
  <2>4. b3 = b3 + 256 * 0
    BY SMT
  <2>5. QED
    BY <2>3, <2>4, LowByte
<1>5. QED
  BY <1>1, <1>2, <1>3, <1>4

=============================================================================
