------------------------------- MODULE Crc16 -------------------------------
(***************************************************************************)
(* The CRC16 of include/checksum.h and what it promises of a frame.  A     *)
(* word is the set of its bits, so exclusive or is the symmetric           *)
(* difference.  One object computes the CRC of the frame that was sent and *)
(* another that of the frame that came in, in which a burst of noise may   *)
(* have garbled up to 16 neighbouring bits, across the bounds of bytes.    *)
(***************************************************************************)
EXTENDS Naturals

CONSTANTS DataBytes,     \* bytes of frames
          ErrorBytes,    \* bits that may be wrong in a garbled byte
          MaxFrame       \* bound on the bytes of a frame

Byte == SUBSET (0..7)

ASSUME CrcAssumption ==
  /\ DataBytes \subseteq Byte /\ ErrorBytes \subseteq Byte \ {{}}
  /\ MaxFrame \in Nat

VARIABLES sentcrc, gotcrc,   \* crc_ of the two objects
          poly,              \* history: the frame that came in, as a polynomial
          len,               \* history: its length in bytes so far
          noise              \* history: how many of the next bits may come in wrong;
                             \* 16: all have been right so far

crcvars == <<sentcrc, gotcrc, poly, len, noise>>

Xor(a, b) == (a \ b) \union (b \ a)
Plus(s, n) == {e + n : e \in s}

InitCrc   == 0..15            \* 0xFFFF
Generator == {12, 5, 0}       \* 0x1021

\* Mutant: a bit of the polynomial is mistyped (0x1001).
ShiftCrc_Poly(c) ==
  LET low == Plus(c \ {15}, 1) IN IF 15 \in c THEN Xor(low, {12, 0}) ELSE low

\* Mutant: the bit that is shifted out is not fed back.
ShiftCrc_NoFeedback(c) == Plus(c \ {15}, 1)

ShiftCrc(c) ==
  LET low == Plus(c \ {15}, 1) IN IF 15 \in c THEN Xor(low, Generator) ELSE low

\* update() with one byte.
UpdateCrc(c, byte) ==
  LET shifted[j \in 0..8] == IF j = 0 THEN Xor(c, Plus(byte, 8)) ELSE ShiftCrc(shifted[j - 1])
  IN  shifted[8]

-----------------------------------------------------------------------------
CrcInit ==
  /\ sentcrc = InitCrc /\ gotcrc = InitCrc
  /\ poly = {} /\ len = 0
  /\ noise = 16

(* The burst begins with the first bit that is wrong, from the highest bit   *)
(* of its byte down.                                                         *)
Burst(error) ==
  \/ noise = 16 /\ error = {} /\ UNCHANGED noise
  \/ noise = 16 /\ \E top \in error : (\A b \in error : b <= top) /\ noise' = 15 - top
  \/ noise # 16 /\ noise' = IF noise > 8 THEN noise - 8 ELSE 0

\* The next byte of the frame; error: the bits that come in wrong.
NextByte(byte, error) ==
  /\ sentcrc' = UpdateCrc(sentcrc, byte)
  /\ gotcrc' = UpdateCrc(gotcrc, Xor(byte, error))
  /\ poly' = Plus(poly, 8) \union Xor(byte, error)
  /\ len' = len + 1
  /\ Burst(error)

Errors == {e \in ErrorBytes \union {{}} : \A b \in e : b + noise >= 8}

CrcNext ==
  /\ len < MaxFrame
  /\ \E byte \in DataBytes, error \in Errors : NextByte(byte, error)

-----------------------------------------------------------------------------
(* Properties *)

(* The remainder of p modulo x^16 + x^12 + x^5 + 1, by long division.        *)
Remainder(p, degree) ==
  LET rem[d \in 15..degree] ==    \* what is left when all above d is done
        IF d = degree THEN p
        ELSE LET r == rem[d + 1]
             IN  IF d + 1 \in r THEN Xor(r, {d + 1, d - 3, d - 10, d - 15}) ELSE r
  IN  rem[15]

(* The register holds the CRC of the definition: the remainder of x^16 times *)
(* the frame, its first 16 bits inverted.                                    *)
CrcIsRemainder ==
  gotcrc = Remainder(Xor(Plus(poly, 16), Plus(InitCrc, 8 * len)), 8 * len + 15)

(* A frame in which up to 16 neighbouring bits came in wrong has another CRC *)
(* than the one that was sent, wherever in the frame the noise was.          *)
NoiseIsSeen == noise # 16 => sentcrc # gotcrc
=============================================================================
