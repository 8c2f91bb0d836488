------------------------------ MODULE Md5Stream ------------------------------
(***************************************************************************)
(* The MD5 of include/checksum.h as a stream: data come in pieces of any   *)
(* length, transform() must get the padded message of RFC 1321 in blocks   *)
(* of 64 bytes, each byte once and in order.  What transform() computes is *)
(* left open: hashed is all it has been given since the last reset, and    *)
(* stands for state_.  Byte i of the message is <<"m", i>>, so that a byte *)
(* in a wrong place is seen whatever its value.  Counts stay below 2^61.   *)
(***************************************************************************)
EXTENDS Naturals, Sequences

CONSTANTS PieceLens,    \* the lengths of the pieces
          MaxMessage    \* bound on the length of a message

ASSUME Md5Assumption == PieceLens \subseteq Nat /\ MaxMessage \in Nat

VARIABLES md5,      \* the MD5 object
          fed,      \* history: the length of the message since reset()
          final     \* history: finalize() has been called since

md5vars == <<md5, fed, final>>

Block == 64
Piece(from, len) == [i \in 1..len |-> <<"m", from + i>>]
Zeros(n) == [i \in 1..n |-> <<"pad", 0>>]
BitCount(n) == [i \in 1..8 |-> <<"bits", n, i>>]     \* 8 n, the low byte first

Fresh == [count |-> 0, buffer |-> Zeros(Block), hashed |-> << >>]

\* memcpy(b + at, data, Len(data))
Copy(b, at, data) ==
  [i \in 1..Block |-> IF i \in (at + 1)..(at + Len(data)) THEN data[i - at] ELSE b[i]]

Index(c) == c.count % Block

\* Mutant: the block that fills the buffer is left to the loop.
Update_NoFill(c, data) ==
  LET whole == Block * (Len(data) \div Block)
  IN  [count  |-> c.count + Len(data),
       buffer |-> Copy(c.buffer, 0, SubSeq(data, whole + 1, Len(data))),
       hashed |-> c.hashed \o SubSeq(data, 1, whole)]

\* update(): fill the buffer, hash whole blocks from the data, keep the rest.
Update(c, data) ==
  LET index == Index(c)
      part  == IF index = 0 THEN 0 ELSE Block - index
      rest  == SubSeq(data, part + 1, Len(data))
      whole == Block * (Len(rest) \div Block)
      full  == IF index = 0 THEN << >> ELSE Copy(c.buffer, index, SubSeq(data, 1, part))
  IN  IF index > 0 /\ Len(data) < part
      THEN [c EXCEPT !.count = @ + Len(data), !.buffer = Copy(@, index, data)]
      ELSE [count  |-> c.count + Len(data),
            buffer |-> Copy(IF index = 0 THEN c.buffer ELSE full, 0,
                            SubSeq(rest, whole + 1, Len(rest))),
            hashed |-> c.hashed \o full \o SubSeq(rest, 1, whole)]

\* Mutant: with 56 bytes in the last block the length is taken to fit.
PadLen_Short(c) == IF Index(c) <= 56 THEN 56 - Index(c) ELSE 120 - Index(c)

PadLen(c) == IF Index(c) < 56 THEN 56 - Index(c) ELSE 120 - Index(c)

\* finalize(): the padding and the bit count go through update().
Finalize(c) ==
  LET padding == [i \in 1..PadLen(c) |-> IF i = 1 THEN <<"pad", 128>> ELSE <<"pad", 0>>]
  IN  Update(Update(c, padding), BitCount(c.count))

-----------------------------------------------------------------------------
Md5Init == md5 = Fresh /\ fed = 0 /\ final = FALSE

UpdateMd5(len) ==
  /\ ~final /\ fed + len <= MaxMessage
  /\ md5' = Update(md5, Piece(fed, len))
  /\ fed' = fed + len
  /\ UNCHANGED final

\* hex(); after it an UploadState is always reset.
Hex ==
  /\ ~final
  /\ md5' = Finalize(md5) /\ final' = TRUE
  /\ UNCHANGED fed

ResetMd5 == md5' = Fresh /\ fed' = 0 /\ final' = FALSE

Md5Next == (\E len \in PieceLens : UpdateMd5(len)) \/ Hex \/ ResetMd5

-----------------------------------------------------------------------------
(* Properties *)

(* However the message is cut, whole blocks of it have been hashed in order  *)
(* and what is missing is in the buffer: no byte is lost, repeated or stale. *)
NothingLost ==
  ~final => /\ md5.count = fed
            /\ md5.hashed \o SubSeq(md5.buffer, 1, Index(md5)) = Piece(0, fed)

(* RFC 1321: one byte 128, as few zeros as bring the length to 56 modulo 64, *)
(* and the length of the message in bits.                                    *)
Padded(n) ==
  LET zeros == CHOOSE z \in 0..(Block - 1) : (n + 1 + z) % Block = 56
  IN  Piece(0, n) \o <<<<"pad", 128>>>> \o Zeros(zeros) \o BitCount(n)

(* The digest is that of the message in one piece: transform() has had the   *)
(* padded message, also when the padding needs a block of its own (messages  *)
(* of 56 to 63 bytes modulo 64).                                             *)
DigestIsOfMessage == final => md5.hashed = Padded(fed)
=============================================================================
