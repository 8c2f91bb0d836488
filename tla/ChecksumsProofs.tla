--------------------------- MODULE ChecksumsProofs ---------------------------
(***************************************************************************)
(* Proofs about the checksums of an upload, for frames and messages of any *)
(* length: the CRC is the remainder of its definition and sees every burst *)
(* of noise; the MD5 stream hashes the padded message.                     *)
(***************************************************************************)
EXTENDS Checksums, Md5StreamProofs, WellFoundedInduction

Word == SUBSET (0..15)

-----------------------------------------------------------------------------
(* Exclusive or. *)

(* A bit of the exclusive or.                                                *)
LEMMA XorBit ==
  ASSUME NEW a, NEW b, NEW x
  PROVE  x \in Xor(a, b) <=> ~(x \in a <=> x \in b)
BY DEF Xor

(* It stays within a word.                                                   *)
LEMMA XorWord ==
  ASSUME NEW a \in Word, NEW b \in Word
  PROVE  Xor(a, b) \in Word
BY DEF Xor, Word

(* It stays a set of integers.                                               *)
LEMMA XorInt ==
  ASSUME NEW a \in SUBSET Int, NEW b \in SUBSET Int
  PROVE  Xor(a, b) \in SUBSET Int
BY DEF Xor

(* It is associative and commutative.                                        *)
LEMMA XorSwap ==
  ASSUME NEW a, NEW b, NEW c, NEW d
  PROVE  Xor(Xor(a, b), Xor(c, d)) = Xor(Xor(a, c), Xor(b, d))
BY DEF Xor

(* It is zero exactly for equal words, and undoes itself.                    *)
LEMMA XorZero ==
  ASSUME NEW a, NEW b
  PROVE  /\ Xor(a, b) = {} <=> a = b
         /\ Xor(a, {}) = a /\ Xor({}, a) = a /\ Xor(a, a) = {}
         /\ Xor(a, Xor(a, b)) = b
BY DEF Xor

(* A bit of a word that was shifted to the left.                             *)
LEMMA PlusBit ==
  ASSUME NEW s \in SUBSET Int, NEW n \in Int, NEW x \in Int
  PROVE  x \in Plus(s, n) <=> x - n \in s
<1>1. ASSUME x \in Plus(s, n) PROVE x - n \in s
  <2>1. PICK e \in s : x = e + n
    BY <1>1 DEF Plus
  <2>2. e \in Int /\ x - n = e
    BY <2>1
  <2>. QED BY <2>2
<1>2. ASSUME x - n \in s PROVE x \in Plus(s, n)
  <2>1. (x - n) + n = x
    OBVIOUS
  <2>. QED BY <1>2, <2>1 DEF Plus
<1>. QED BY <1>1, <1>2

(* A shifted word is a set of integers.                                      *)
LEMMA PlusInt ==
  ASSUME NEW s \in SUBSET Int, NEW n \in Int
  PROVE  Plus(s, n) \in SUBSET Int
BY DEF Plus

(* Shifting keeps exclusive or.                                              *)
LEMMA PlusXor ==
  ASSUME NEW a \in SUBSET Int, NEW b \in SUBSET Int, NEW n \in Int
  PROVE  Plus(Xor(a, b), n) = Xor(Plus(a, n), Plus(b, n))
<1>1. Xor(a, b) \in SUBSET Int /\ Plus(a, n) \in SUBSET Int /\ Plus(b, n) \in SUBSET Int
  BY XorInt, PlusInt
<1>2. Plus(Xor(a, b), n) \in SUBSET Int /\ Xor(Plus(a, n), Plus(b, n)) \in SUBSET Int
  BY <1>1, XorInt, PlusInt
<1>3. ASSUME NEW x \in Int
      PROVE  x \in Plus(Xor(a, b), n) <=> x \in Xor(Plus(a, n), Plus(b, n))
  BY <1>1, PlusBit, XorBit
<1>. QED BY <1>2, <1>3

(* Two shifts are one.                                                       *)
LEMMA PlusPlus ==
  ASSUME NEW a \in SUBSET Int, NEW m \in Int, NEW n \in Int
  PROVE  Plus(Plus(a, m), n) = Plus(a, m + n)
<1>1. Plus(a, m) \in SUBSET Int /\ Plus(a, m + n) \in SUBSET Int /\ Plus(Plus(a, m), n) \in SUBSET Int
  BY PlusInt
<1>2. ASSUME NEW x \in Int
      PROVE  x \in Plus(Plus(a, m), n) <=> x \in Plus(a, m + n)
  <2>1. x - n \in Int /\ m + n \in Int /\ (x - n) - m = x - (m + n)
    OBVIOUS
  <2>2. x \in Plus(Plus(a, m), n) <=> x - n \in Plus(a, m)
    BY <1>1, PlusBit
  <2>3. x - n \in Plus(a, m) <=> (x - n) - m \in a
    BY <2>1, PlusBit
  <2>4. x \in Plus(a, m + n) <=> x - (m + n) \in a
    BY <2>1, PlusBit
  <2>. QED BY <2>1, <2>2, <2>3, <2>4
<1>. QED BY <1>1, <1>2

-----------------------------------------------------------------------------
(* One shift of the register. *)

(* The bits after a shift.                                                   *)
LEMMA ShiftBit ==
  ASSUME NEW c \in Word
  PROVE  /\ ShiftCrc(c) \in Word
         /\ \A x \in 0..15 :
              x \in ShiftCrc(c) <=>
              ~((x # 0 /\ x - 1 \in c) <=> (15 \in c /\ x \in Generator))
<1>. DEFINE low == Plus(c \ {15}, 1)
<1>1. c \ {15} \in SUBSET Int /\ Generator \in SUBSET (0..15)
  BY DEF Word, Generator
<1>2. \A x \in Int : x \in low <=> x - 1 \in c /\ x - 1 # 15
  BY <1>1, PlusBit
<1>3. low \in SUBSET (0..15)
  <2>1. low \in SUBSET Int
    BY <1>1, PlusInt
  <2>2. \A x \in low : x - 1 \in 0..14
    BY <1>2, <2>1 DEF Word
  <2>. QED BY <2>1, <2>2
<1>4. ShiftCrc(c) = IF 15 \in c THEN Xor(low, Generator) ELSE low
  BY DEF ShiftCrc
<1>. HIDE DEF low
<1>5. ShiftCrc(c) \in Word
  BY <1>1, <1>3, <1>4, XorWord DEF Word
<1>6. ASSUME NEW x \in 0..15
      PROVE  x \in ShiftCrc(c) <=>
             ~((x # 0 /\ x - 1 \in c) <=> (15 \in c /\ x \in Generator))
  <2>1. x \in low <=> x # 0 /\ x - 1 \in c
    BY <1>2 DEF Word
  <2>2. CASE 15 \in c
    BY <1>4, <2>1, <2>2, XorBit
  <2>3. CASE 15 \notin c
    BY <1>4, <2>1, <2>3
  <2>. QED BY <2>2, <2>3
<1>. QED BY <1>5, <1>6

(* A shift is linear.                                                        *)
LEMMA ShiftLinear ==
  ASSUME NEW c \in Word, NEW d \in Word
  PROVE  ShiftCrc(Xor(c, d)) = Xor(ShiftCrc(c), ShiftCrc(d))
<1>1. Xor(c, d) \in Word
  BY XorWord
<1>2. ShiftCrc(Xor(c, d)) \in Word /\ Xor(ShiftCrc(c), ShiftCrc(d)) \in Word
  BY <1>1, ShiftBit, XorWord
<1>3. ASSUME NEW x \in 0..15
      PROVE  x \in ShiftCrc(Xor(c, d)) <=> x \in Xor(ShiftCrc(c), ShiftCrc(d))
  <2>1. x \in ShiftCrc(Xor(c, d)) <=>
        ~((x # 0 /\ x - 1 \in Xor(c, d)) <=> (15 \in Xor(c, d) /\ x \in Generator))
    BY <1>1, ShiftBit
  <2>2. /\ x \in ShiftCrc(c) <=> ~((x # 0 /\ x - 1 \in c) <=> (15 \in c /\ x \in Generator))
        /\ x \in ShiftCrc(d) <=> ~((x # 0 /\ x - 1 \in d) <=> (15 \in d /\ x \in Generator))
    BY ShiftBit
  <2>3. /\ x - 1 \in Xor(c, d) <=> ~(x - 1 \in c <=> x - 1 \in d)
        /\ 15 \in Xor(c, d) <=> ~(15 \in c <=> 15 \in d)
        /\ x \in Xor(ShiftCrc(c), ShiftCrc(d)) <=> ~(x \in ShiftCrc(c) <=> x \in ShiftCrc(d))
    BY XorBit
  <2>. QED BY <2>1, <2>2, <2>3
<1>. QED BY <1>2, <1>3 DEF Word

(* A shift loses nothing.                                                    *)
LEMMA ShiftInjective ==
  ASSUME NEW c \in Word, NEW d \in Word, ShiftCrc(c) = ShiftCrc(d)
  PROVE  c = d
<1>1. PICK e \in Word : e = Xor(c, d)
  BY XorWord
<1>2. ShiftCrc(e) = {}
  BY <1>1, ShiftLinear, ShiftBit, XorZero
<1>3. 15 \notin e
  BY <1>2, ShiftBit DEF Generator
<1>4. \A x \in 1..15 : x - 1 \notin e
  BY <1>2, <1>3, ShiftBit
<1>5. \A x \in 0..15 : x \notin e
  <2>1. \A x \in 0..14 : x + 1 \in 1..15 /\ (x + 1) - 1 = x
    OBVIOUS
  <2>. QED BY <1>3, <1>4, <2>1
<1>6. e = {}
  BY <1>5 DEF Word
<1>7. Xor(c, d) = {}
  BY <1>1, <1>6
<1>. QED BY <1>7, XorZero

-----------------------------------------------------------------------------
(* Eight shifts: one byte. *)

\* The register c after the shifts of one byte.
Shift2(c) == ShiftCrc(ShiftCrc(c))
Shift4(c) == Shift2(Shift2(c))
Shift8(c) == Shift4(Shift4(c))

(* The loop of update() shifts eight times.                                  *)
LEMMA UpdateShifts ==
  ASSUME NEW c, NEW byte
  PROVE  UpdateCrc(c, byte) = Shift8(Xor(c, Plus(byte, 8)))
<1>. DEFINE s0 == Xor(c, Plus(byte, 8))
            s1 == ShiftCrc(s0)
            s2 == ShiftCrc(s1)
            s3 == ShiftCrc(s2)
            s4 == ShiftCrc(s3)
            s5 == ShiftCrc(s4)
            s6 == ShiftCrc(s5)
            s7 == ShiftCrc(s6)
            s8 == ShiftCrc(s7)
            f  == CHOOSE g : g = [j \in 0..8 |-> IF j = 0 THEN s0 ELSE ShiftCrc(g[j - 1])]
<1>1. UpdateCrc(c, byte) = f[8]
  BY DEF UpdateCrc
<1>2. s8 = Shift8(s0)
  BY DEF Shift8, Shift4, Shift2
<1>. HIDE DEF s0, s1, s2, s3, s4, s5, s6, s7, s8
<1>3. \E g : g = [j \in 0..8 |-> IF j = 0 THEN s0 ELSE ShiftCrc(g[j - 1])]
  <2>. DEFINE h == [j \in 0..8 |->
                      CASE j = 0 -> s0 [] j = 1 -> s1 [] j = 2 -> s2 [] j = 3 -> s3 [] j = 4 -> s4
                        [] j = 5 -> s5 [] j = 6 -> s6 [] j = 7 -> s7 [] j = 8 -> s8]
  <2>1. /\ h[0] = s0 /\ h[1] = s1 /\ h[2] = s2 /\ h[3] = s3 /\ h[4] = s4
        /\ h[5] = s5 /\ h[6] = s6 /\ h[7] = s7 /\ h[8] = s8
    OBVIOUS
  <2>2. h = [j \in 0..8 |-> h[j]]
    OBVIOUS
  <2>. HIDE DEF h
  <2>3. ASSUME NEW j \in 1..8 PROVE h[j] = ShiftCrc(h[j - 1])
    BY <2>1 DEF s1, s2, s3, s4, s5, s6, s7, s8
  <2>4. \A j \in 0..8 : h[j] = IF j = 0 THEN s0 ELSE ShiftCrc(h[j - 1])
    BY <2>1, <2>3
  <2>. QED BY <2>2, <2>4
<1>4. f = [j \in 0..8 |-> IF j = 0 THEN s0 ELSE ShiftCrc(f[j - 1])]
  BY <1>3
<1>. HIDE DEF f
<1>5. f[0] = s0 /\ \A j \in 1..8 : f[j] = ShiftCrc(f[j - 1])
  BY <1>4
<1>6. /\ f[1] = ShiftCrc(f[0]) /\ f[2] = ShiftCrc(f[1]) /\ f[3] = ShiftCrc(f[2])
      /\ f[4] = ShiftCrc(f[3]) /\ f[5] = ShiftCrc(f[4]) /\ f[6] = ShiftCrc(f[5])
      /\ f[7] = ShiftCrc(f[6]) /\ f[8] = ShiftCrc(f[7])
  BY <1>5
<1>7. f[8] = s8
  BY <1>5, <1>6 DEF s1, s2, s3, s4, s5, s6, s7, s8
<1>. QED BY <1>1, <1>2, <1>7 DEF s0

(* Eight shifts are linear and lose nothing.                                 *)
LEMMA Shift8Linear ==
  ASSUME NEW c \in Word, NEW d \in Word
  PROVE  /\ Shift8(c) \in Word
         /\ Shift8(Xor(c, d)) = Xor(Shift8(c), Shift8(d))
         /\ Shift8(c) = Shift8(d) => c = d
<1>1. \A a, b \in Word : /\ ShiftCrc(a) \in Word
                         /\ ShiftCrc(Xor(a, b)) = Xor(ShiftCrc(a), ShiftCrc(b))
                         /\ ShiftCrc(a) = ShiftCrc(b) => a = b
  BY ShiftBit, ShiftLinear, ShiftInjective
<1>2. \A a, b \in Word : /\ Shift2(a) \in Word
                         /\ Shift2(Xor(a, b)) = Xor(Shift2(a), Shift2(b))
                         /\ Shift2(a) = Shift2(b) => a = b
  BY <1>1 DEF Shift2
<1>3. \A a, b \in Word : /\ Shift4(a) \in Word
                         /\ Shift4(Xor(a, b)) = Xor(Shift4(a), Shift4(b))
                         /\ Shift4(a) = Shift4(b) => a = b
  BY <1>2 DEF Shift4
<1>. QED BY <1>3 DEF Shift8

(* A byte in the low half of the register is only moved.                     *)
LEMMA LowByte ==
  ASSUME NEW b \in Byte
  PROVE  Shift8(b) = Plus(b, 8)
<1>1. ASSUME NEW c \in Word, 15 \notin c PROVE ShiftCrc(c) = Plus(c, 1)
  <2>1. c \ {15} = c
    BY <1>1
  <2>. QED BY <1>1, <2>1 DEF ShiftCrc
<1>2. b \in SUBSET Int /\ b \in SUBSET (0..7)
  BY DEF Byte
<1>3. \A k \in 0..7 : Plus(b, k) \in Word /\ 15 \notin Plus(b, k)
  <2>. SUFFICES ASSUME NEW k \in 0..7 PROVE \A x \in Plus(b, k) : x \in 0..14
    BY DEF Word
  <2>1. \A x \in Plus(b, k) : x \in Int /\ x - k \in 0..7
    BY <1>2, PlusInt, PlusBit
  <2>. QED BY <2>1
<1>4. \A k \in 0..7 : ShiftCrc(Plus(b, k)) = Plus(b, k + 1)
  <2>. SUFFICES ASSUME NEW k \in 0..7 PROVE ShiftCrc(Plus(b, k)) = Plus(b, k + 1)
    OBVIOUS
  <2>1. ShiftCrc(Plus(b, k)) = Plus(Plus(b, k), 1)
    BY <1>1, <1>3
  <2>2. k \in Int /\ 1 \in Int
    OBVIOUS
  <2>. QED BY <1>2, <2>1, <2>2, PlusPlus
<1>5. Plus(b, 0) = b
  <2>1. Plus(b, 0) \in SUBSET Int /\ \A x \in Int : x \in Plus(b, 0) <=> x - 0 \in b
    BY <1>2, PlusInt, PlusBit
  <2>2. \A x \in Int : x - 0 = x
    OBVIOUS
  <2>. QED BY <1>2, <2>1, <2>2
<1>6. /\ ShiftCrc(b) = Plus(b, 1) /\ ShiftCrc(Plus(b, 1)) = Plus(b, 2)
      /\ ShiftCrc(Plus(b, 2)) = Plus(b, 3) /\ ShiftCrc(Plus(b, 3)) = Plus(b, 4)
      /\ ShiftCrc(Plus(b, 4)) = Plus(b, 5) /\ ShiftCrc(Plus(b, 5)) = Plus(b, 6)
      /\ ShiftCrc(Plus(b, 6)) = Plus(b, 7) /\ ShiftCrc(Plus(b, 7)) = Plus(b, 8)
  BY <1>4, <1>5
<1>. QED BY <1>6 DEF Shift8, Shift4, Shift2

(* A byte goes into the upper half of the register.                          *)
LEMMA HighByte ==
  ASSUME NEW b \in Byte
  PROVE  /\ Plus(b, 8) \in Word /\ \A x \in Plus(b, 8) : x \in 8..15
         /\ b \in Word /\ \A x \in b : x \in 0..7
         /\ Plus(b, 8) = {} => b = {}
<1>1. b \in SUBSET Int /\ b \in SUBSET (0..7)
  BY DEF Byte
<1>2. \A x \in Plus(b, 8) : x \in Int /\ x - 8 \in 0..7
  BY <1>1, PlusInt, PlusBit
<1>3. \A x \in Plus(b, 8) : x \in 8..15
  BY <1>2
<1>4. Plus(b, 8) = {} => b = {}
  BY DEF Plus
<1>. QED BY <1>1, <1>3, <1>4 DEF Word

(* What an update does to the difference of two registers.                   *)
LEMMA UpdateLinear ==
  ASSUME NEW c \in Word, NEW d \in Word, NEW a \in Byte, NEW b \in Byte
  PROVE  /\ UpdateCrc(c, a) \in Word
         /\ Xor(UpdateCrc(c, a), UpdateCrc(d, b)) = Shift8(Xor(Xor(c, d), Plus(Xor(a, b), 8)))
<1>1. Plus(a, 8) \in Word /\ Plus(b, 8) \in Word
  BY HighByte
<1>2. Xor(c, Plus(a, 8)) \in Word /\ Xor(d, Plus(b, 8)) \in Word
  BY <1>1, XorWord
<1>3. a \in SUBSET Int /\ b \in SUBSET Int
  BY DEF Byte
<1>4. Xor(Plus(a, 8), Plus(b, 8)) = Plus(Xor(a, b), 8)
  BY <1>3, PlusXor
<1>5. Xor(Xor(c, Plus(a, 8)), Xor(d, Plus(b, 8))) = Xor(Xor(c, d), Xor(Plus(a, 8), Plus(b, 8)))
  BY XorSwap
<1>. QED BY <1>2, <1>4, <1>5, UpdateShifts, Shift8Linear

-----------------------------------------------------------------------------
(* Induction.  A set of numbers that has 0 and every successor has them all: *)
(* otherwise there would be a smallest number that it does not have.  The    *)
(* statement about n is the set of the numbers it is true of.                *)

(* A set of numbers that is not empty has a smallest one.                    *)
LEMMA SmallestExists ==
  ASSUME NEW T, T \subseteq Nat, T # {}
  PROVE  \E m \in T : \A n \in T : m <= n
<1>. DEFINE R == OpToRel(<, Nat)
<1>1. IsWellFoundedOn(R, Nat)
  BY NatLessThanWellFounded
<1>2. PICK m \in T : \A n \in T : <<n, m>> \notin R
  BY <1>1, WFMin
<1>3. \A n \in T : ~(n < m)
  BY <1>2 DEF OpToRel
<1>. QED BY <1>3

(* A set of numbers that has 0 and every successor has them all.             *)
LEMMA Induction ==
  ASSUME NEW T, 0 \in T, \A n \in Nat : n \in T => n + 1 \in T
  PROVE  \A n \in Nat : n \in T
<1>. SUFFICES ASSUME ~(Nat \subseteq T) PROVE FALSE
  OBVIOUS
<1>1. PICK m \in Nat \ T : \A n \in Nat \ T : m <= n
  BY SmallestExists
<1>2. m # 0
  OBVIOUS
<1>3. m - 1 \in Nat /\ ~(m <= m - 1) /\ (m - 1) + 1 = m
  BY <1>2
<1>4. m - 1 \in T
  BY <1>1, <1>3
<1>. QED BY <1>1, <1>3, <1>4

-----------------------------------------------------------------------------
(* Noise *)

(* The difference of the two registers is zero until the first garbled byte  *)
(* and that of this byte, whose highest bit began the burst, right after it. *)
(* From the second byte on nothing that may still come in wrong is equal to  *)
(* the difference, so that it is never zero again.                           *)
NoiseInv ==
  /\ sentcrc \in Word /\ gotcrc \in Word
  /\ noise \in 0..16
  /\ noise = 16 => sentcrc = gotcrc
  /\ noise \in 8..15 =>
       \E e \in Byte : /\ 15 - noise \in e /\ \A b \in e : b <= 15 - noise
                       /\ Xor(sentcrc, gotcrc) = Shift8(Plus(e, 8))
  /\ noise \in 0..7 =>
       \A k \in Byte : (\A b \in k : b + noise >= 8) => Xor(sentcrc, gotcrc) # Plus(k, 8)

(* A word without a lowest bit after a shift was only moved.                 *)
LEMMA ShiftBack ==
  ASSUME NEW c \in Word, 0 \notin ShiftCrc(c)
  PROVE  15 \notin c /\ \A x \in c : x \in 0..14 /\ x + 1 \in ShiftCrc(c)
<1>1. 15 \notin c
  BY ShiftBit DEF Generator
<1>2. ASSUME NEW x \in c PROVE x \in 0..14 /\ x + 1 \in ShiftCrc(c)
  <2>1. x \in 0..14
    BY <1>1, <1>2 DEF Word
  <2>2. x + 1 \in 0..15 /\ x + 1 # 0 /\ (x + 1) - 1 = x
    BY <2>1
  <2>. QED BY <1>1, <1>2, <2>1, <2>2, ShiftBit
<1>. QED BY <1>1, <1>2

(* Any other bit moves up by one as long as no bit is fed back.              *)
LEMMA ShiftUp ==
  ASSUME NEW c \in Word, NEW m \in 0..14, m \in c, \A x \in c : x <= m
  PROVE  m + 1 \in ShiftCrc(c) /\ \A x \in ShiftCrc(c) : x <= m + 1
<1>1. 15 \notin c
  OBVIOUS
<1>2. m + 1 \in 0..15 /\ m + 1 # 0 /\ (m + 1) - 1 = m
  OBVIOUS
<1>3. m + 1 \in ShiftCrc(c)
  BY <1>1, <1>2, ShiftBit
<1>4. ASSUME NEW x \in ShiftCrc(c) PROVE x <= m + 1
  <2>1. x \in 0..15
    BY ShiftBit DEF Word
  <2>2. x - 1 \in c
    BY <1>1, <2>1, ShiftBit
  <2>3. x - 1 <= m
    BY <2>2
  <2>. QED BY <2>1, <2>3
<1>. QED BY <1>3, <1>4

(* Of a word whose highest bit is 8 + h, the bit that is fed back last       *)
(* stays within the h + 1 lowest bits of what eight shifts leave.            *)
LEMMA FedBack ==
  ASSUME NEW e \in Word, NEW h \in 0..7, 8 + h \in e, \A x \in e : x <= 8 + h
  PROVE  \E x \in Shift8(e) : x <= h
<1>. SUFFICES ASSUME \A x \in Shift8(e) : ~(x <= h) PROVE FALSE
  OBVIOUS
<1>1. PICK c0, c1, c2, c3, c4, c5, c6, c7, c8 :
        /\ c0 = e /\ c1 = ShiftCrc(c0) /\ c2 = ShiftCrc(c1) /\ c3 = ShiftCrc(c2)
        /\ c4 = ShiftCrc(c3) /\ c5 = ShiftCrc(c4) /\ c6 = ShiftCrc(c5) /\ c7 = ShiftCrc(c6)
        /\ c8 = ShiftCrc(c7)
  OBVIOUS
<1>2. c8 = Shift8(e)
  BY <1>1 DEF Shift8, Shift4, Shift2
<1>3. c0 \in Word /\ c1 \in Word /\ c2 \in Word /\ c3 \in Word /\ c4 \in Word /\ c5 \in Word
      /\ c6 \in Word /\ c7 \in Word /\ c8 \in Word
  BY <1>1, ShiftBit
<1>. DEFINE c == [j \in 0..8 |->
                    CASE j = 0 -> c0 [] j = 1 -> c1 [] j = 2 -> c2 [] j = 3 -> c3 [] j = 4 -> c4
                      [] j = 5 -> c5 [] j = 6 -> c6 [] j = 7 -> c7 [] j = 8 -> c8]
<1>4. /\ c[0] = c0 /\ c[1] = c1 /\ c[2] = c2 /\ c[3] = c3 /\ c[4] = c4
      /\ c[5] = c5 /\ c[6] = c6 /\ c[7] = c7 /\ c[8] = c8
  OBVIOUS
<1>. HIDE DEF c
<1>5. ASSUME NEW j \in 0..7 PROVE c[j] \in Word /\ c[j + 1] \in Word /\ c[j + 1] = ShiftCrc(c[j])
  BY <1>1, <1>3, <1>4
<1>6. c[0] = e /\ c[8] = Shift8(e)
  BY <1>1, <1>2, <1>4
\* Going up: until it is the highest one, the highest bit is only moved.
<1>. DEFINE Up == {j \in Nat : j <= 7 - h =>
                     8 + h + j \in c[j] /\ \A x \in c[j] : x <= 8 + h + j}
<1>7. \A j \in Nat : j \in Up
  <2>1. 0 \in Up
    BY <1>6
  <2>2. ASSUME NEW j \in Nat, j \in Up PROVE j + 1 \in Up
    <3>. SUFFICES ASSUME j + 1 <= 7 - h
                  PROVE  8 + h + (j + 1) \in c[j + 1] /\ \A x \in c[j + 1] : x <= 8 + h + (j + 1)
      OBVIOUS
    <3>1. j \in 0..7 /\ j <= 7 - h
      OBVIOUS
    <3>2. PICK m \in 0..14 : m = 8 + h + j
      BY <3>1
    <3>3. m \in c[j] /\ \A x \in c[j] : x <= m
      BY <2>2, <3>1, <3>2
    <3>4. m + 1 \in c[j + 1] /\ \A x \in c[j + 1] : x <= m + 1
      BY <1>5, <3>1, <3>3, ShiftUp
    <3>5. m + 1 = 8 + h + (j + 1)
      BY <3>2
    <3>. QED BY <3>4, <3>5
  <2>. HIDE DEF Up
  <2>. QED BY <2>1, <2>2, Induction
<1>8. PICK i \in 0..7 : i = 7 - h
  OBVIOUS
<1>9. 15 \in c[i]
  <2>1. i \in Nat /\ i <= 7 - h /\ 8 + h + i = 15
    BY <1>8
  <2>. QED BY <1>7, <2>1
<1>10. 0 \in c[i + 1]
  BY <1>5, <1>9, ShiftBit DEF Generator
\* Going back from the last word: none of its lowest h + 1 bits was there.
<1>. DEFINE Back == {n \in Nat : n <= h => \A x \in c[8 - n] : ~(x + n <= h)}
<1>11. \A n \in Nat : n \in Back
  <2>1. 0 \in Back
    <3>1. \A x \in c[8] : x \in 0..15
      BY <1>3, <1>4 DEF Word
    <3>. QED BY <1>6, <3>1
  <2>2. ASSUME NEW n \in Nat, n \in Back PROVE n + 1 \in Back
    <3>. SUFFICES ASSUME n + 1 <= h, NEW x \in c[8 - (n + 1)], x + (n + 1) <= h PROVE FALSE
      OBVIOUS
    <3>1. PICK j \in 0..7 : j = 8 - (n + 1) /\ j + 1 = 8 - n
      OBVIOUS
    <3>2. \A y \in c[j + 1] : ~(y + n <= h)
      BY <2>2, <3>1
    <3>3. 0 \notin c[j + 1]
      BY <3>2
    <3>4. x \in 0..14 /\ x + 1 \in c[j + 1]
      BY <1>5, <3>1, <3>3, ShiftBack
    <3>5. (x + 1) + n <= h
      BY <3>4
    <3>. QED BY <3>2, <3>4, <3>5
  <2>. HIDE DEF Back
  <2>. QED BY <2>1, <2>2, Induction
<1>12. ~(0 + h <= h)
  <2>1. h \in Nat /\ h <= h /\ 8 - h = i + 1
    BY <1>8
  <2>. QED BY <1>10, <1>11, <2>1
<1>. QED BY <1>12

(* What is left of a burst can not cancel the difference that its first two  *)
(* bytes have made.                                                          *)
LEMMA BurstDiffers ==
  ASSUME NEW e \in Byte, NEW h \in 0..7, h \in e, \A b \in e : b <= h,
         NEW g \in Byte, NEW k \in Byte, \A b \in k : h < b
  PROVE  Shift8(Xor(Shift8(Plus(e, 8)), Plus(g, 8))) # Plus(k, 8)
<1>. SUFFICES ASSUME Shift8(Xor(Shift8(Plus(e, 8)), Plus(g, 8))) = Plus(k, 8) PROVE FALSE
  OBVIOUS
<1>1. /\ Plus(e, 8) \in Word /\ Plus(g, 8) \in Word /\ k \in Word
      /\ \A x \in Plus(g, 8) : x \in 8..15
  BY HighByte
<1>2. PICK s \in Word : s = Shift8(Plus(e, 8))
  BY <1>1, Shift8Linear
<1>3. Xor(s, Plus(g, 8)) = k
  <2>1. Shift8(Xor(s, Plus(g, 8))) = Shift8(k)
    BY <1>2, LowByte
  <2>2. Xor(s, Plus(g, 8)) \in Word
    BY <1>1, XorWord
  <2>. QED BY <1>1, <2>1, <2>2, Shift8Linear
<1>4. PICK x \in s : x <= h
  <2>1. e \in SUBSET Int
    BY DEF Byte
  <2>2. (8 + h) - 8 = h /\ 8 + h \in Int
    OBVIOUS
  <2>3. 8 + h \in Plus(e, 8)
    BY <2>1, <2>2, PlusBit
  <2>4. ASSUME NEW x \in Plus(e, 8) PROVE x <= 8 + h
    <3>1. x \in Int /\ x - 8 \in e
      BY <2>1, PlusInt, PlusBit
    <3>2. x - 8 <= h
      BY <3>1
    <3>. QED BY <3>1, <3>2
  <2>. QED BY <1>1, <1>2, <2>3, <2>4, FedBack
<1>5. x \in 0..7
  BY <1>2, <1>4 DEF Word
<1>6. x \notin Plus(g, 8)
  BY <1>1, <1>5
<1>7. x \in k
  BY <1>3, <1>4, <1>6, XorBit
<1>8. h < x
  BY <1>7
<1>. QED BY <1>4, <1>5, <1>8

(* What may be wrong in a byte is a byte.                                    *)
LEMMA ErrorByte ==
  ASSUME NEW e \in Errors
  PROVE  e \in Byte
BY CrcAssumption DEF Errors, Byte

(* No bits are shifted to no bits, and only they are.                        *)
LEMMA ShiftedZero == {} \in Word /\ Shift8({}) = {}
<1>1. {} \in Word
  BY DEF Word
<1>2. {} \in Byte /\ Plus({}, 8) = {}
  BY DEF Byte, Plus
<1>. QED BY <1>1, <1>2, LowByte

(* Any other word keeps a bit.                                               *)
LEMMA ShiftedBits ==
  ASSUME NEW c \in Word, c # {}
  PROVE  Shift8(c) # {}
<1>1. Shift8(c) = Shift8({}) => c = {}
  BY ShiftedZero, Shift8Linear
<1>. QED BY <1>1, ShiftedZero

(* One byte of the frame.                                                    *)
LEMMA NoiseOfByte ==
  ASSUME NoiseInv, NEW byte \in DataBytes, NEW error \in Errors, NextByte(byte, error)
  PROVE  NoiseInv'
<1>1. byte \in Byte /\ error \in Byte /\ Xor(byte, error) \in Byte
  BY CrcAssumption, ErrorByte DEF Byte, Xor
<1>2. sentcrc' = UpdateCrc(sentcrc, byte) /\ gotcrc' = UpdateCrc(gotcrc, Xor(byte, error))
  BY DEF NextByte
<1>3. PICK d \in Word : d = Xor(sentcrc, gotcrc)
  BY XorWord DEF NoiseInv
<1>4. sentcrc' \in Word /\ gotcrc' \in Word
      /\ Xor(sentcrc', gotcrc') = Shift8(Xor(d, Plus(error, 8)))
  <2>1. Xor(byte, Xor(byte, error)) = error
    BY XorZero
  <2>. QED BY <1>1, <1>2, <1>3, <2>1, UpdateLinear DEF NoiseInv
<1>5. Plus(error, 8) \in Word /\ \A x \in error : x \in 0..7
  BY <1>1, HighByte
<1>6. Shift8({}) = {}
  BY ShiftedZero
<1>7. CASE noise = 16 /\ error = {}
  <2>1. noise' = 16 /\ d = {} /\ Plus(error, 8) = {}
    BY <1>3, <1>7, XorZero DEF NoiseInv, NextByte, Burst, Plus
  <2>2. Xor(sentcrc', gotcrc') = {}
    BY <1>4, <1>6, <2>1, XorZero
  <2>. QED BY <1>4, <2>1, <2>2, XorZero DEF NoiseInv
<1>8. CASE noise = 16 /\ error # {}
  <2>1. d = {}
    BY <1>3, <1>8, XorZero DEF NoiseInv
  <2>2. PICK top \in error : (\A b \in error : b <= top) /\ noise' = 15 - top
    BY <1>8 DEF NextByte, Burst
  <2>3. top \in 0..7 /\ noise' \in 8..15 /\ 15 - noise' = top
    BY <1>5, <2>2
  <2>4. Xor(sentcrc', gotcrc') = Shift8(Plus(error, 8))
    BY <1>4, <2>1, XorZero
  <2>. QED BY <1>1, <1>4, <2>2, <2>3, <2>4 DEF NoiseInv
<1>9. CASE noise \in 8..15
  <2>1. PICK e \in Byte : /\ 15 - noise \in e /\ \A b \in e : b <= 15 - noise
                          /\ d = Shift8(Plus(e, 8))
    BY <1>3, <1>9 DEF NoiseInv
  <2>2. PICK h \in 0..7 : h = 15 - noise
    BY <1>9
  <2>3. noise' = noise - 8
    <3>1. noise' = IF noise > 8 THEN noise - 8 ELSE 0
      BY <1>9 DEF NextByte, Burst
    <3>. QED BY <1>9, <3>1
  <2>4. noise' \in 0..7 /\ noise' = 7 - h
    BY <1>9, <2>2, <2>3
  <2>5. ASSUME NEW k \in Byte, \A b \in k : b + noise' >= 8
        PROVE  Xor(sentcrc', gotcrc') # Plus(k, 8)
    <3>1. \A b \in k : b \in 0..7
      BY DEF Byte
    <3>2. \A b \in k : h < b
      BY <2>4, <2>5, <3>1
    <3>. QED BY <1>1, <1>4, <2>1, <2>2, <3>2, BurstDiffers
  <2>. QED BY <1>4, <2>4, <2>5 DEF NoiseInv
<1>10. CASE noise \in 0..7
  <2>1. noise' = 0
    BY <1>10 DEF NextByte, Burst
  <2>2. d # Plus(error, 8)
    <3>1. \A b \in error : b + noise >= 8
      BY DEF Errors
    <3>. QED BY <1>1, <1>3, <1>10, <3>1 DEF NoiseInv
  <2>3. Xor(sentcrc', gotcrc') # {}
    <3>1. Xor(d, Plus(error, 8)) # {} /\ Xor(d, Plus(error, 8)) \in Word
      BY <1>5, <2>2, XorZero, XorWord
    <3>2. Shift8(Xor(d, Plus(error, 8))) # {}
      BY <3>1, ShiftedBits
    <3>. QED BY <1>4, <3>2
  <2>4. ASSUME NEW k \in Byte, \A b \in k : b + noise' >= 8
        PROVE  Xor(sentcrc', gotcrc') # Plus(k, 8)
    <3>1. \A b \in k : b \in 0..7 /\ b + 0 >= 8
      BY <2>1, <2>4 DEF Byte
    <3>2. k = {}
      BY <3>1
    <3>. QED BY <2>3, <3>2 DEF Plus
  <2>. QED BY <1>4, <2>1, <2>4 DEF NoiseInv
<1>11. noise = 16 \/ noise \in 8..15 \/ noise \in 0..7
  BY DEF NoiseInv
<1>. QED BY <1>7, <1>8, <1>9, <1>10, <1>11

(* Every step of both checksums keeps the invariant.                         *)
LEMMA NoiseStep == NoiseInv /\ [Next]_<<crcvars, md5vars>> => NoiseInv'
<1>. SUFFICES ASSUME NoiseInv, [Next]_<<crcvars, md5vars>> PROVE NoiseInv'
  OBVIOUS
<1>1. CASE UNCHANGED crcvars
  BY <1>1 DEF NoiseInv, crcvars
<1>2. CASE CrcNext
  BY <1>2, NoiseOfByte DEF CrcNext
<1>. QED BY <1>1, <1>2 DEF Next

(* NoiseIsSeen: a burst of noise that garbles up to 16 neighbouring bits,    *)
(* wherever it begins in a frame of any length and whatever follows, changes *)
(* the CRC.                                                                  *)
THEOREM NoiseChangesCrc == Spec => []NoiseIsSeen
<1>1. Init => NoiseInv
  <2>1. InitCrc \in Word
    BY DEF InitCrc, Word
  <2>. QED BY <2>1 DEF Init, CrcInit, NoiseInv
<1>2. NoiseInv => NoiseIsSeen
  <2>. SUFFICES ASSUME NoiseInv, noise # 16 PROVE sentcrc # gotcrc
    BY DEF NoiseIsSeen
  <2>1. {} \in Byte /\ Plus({}, 8) = {}
    BY DEF Byte, Plus
  <2>2. CASE noise \in 0..7
    <3>1. Xor(sentcrc, gotcrc) # Plus({}, 8)
      BY <2>1, <2>2 DEF NoiseInv
    <3>. QED BY <2>1, <3>1, XorZero
  <2>3. CASE noise \in 8..15
    <3>1. PICK e \in Byte : 15 - noise \in e /\ Xor(sentcrc, gotcrc) = Shift8(Plus(e, 8))
      BY <2>3 DEF NoiseInv
    <3>2. Plus(e, 8) \in Word /\ Plus(e, 8) # {}
      BY <3>1, HighByte
    <3>. QED BY <3>1, <3>2, ShiftedBits, XorZero
  <2>. QED BY <2>2, <2>3 DEF NoiseInv
<1>. QED BY <1>1, <1>2, NoiseStep, PTL DEF Spec

-----------------------------------------------------------------------------
(* Long division *)

\* The step that removes bit d + 1.
Divide(d, r) == IF d + 1 \in r THEN Xor(r, {d + 1, d - 3, d - 10, d - 15}) ELSE r

\* f holds what is left of p at each step of the division.
IsDivision(f, p, degree) ==
  f = [d \in 15..degree |-> IF d = degree THEN p ELSE Divide(d, f[d + 1])]

\* For any p of degree n + 15 there is a division, with one result.
Divisible(n) ==
  \A p : \E f : /\ IsDivision(f, p, n + 15)
                /\ \A g : IsDivision(g, p, n + 15) => g[15] = f[15]

(* No step is to be done when the dividend has no bit above 15.              *)
LEMMA NoDivision == Divisible(0)
<1>. SUFFICES ASSUME NEW p
              PROVE  \E f : /\ IsDivision(f, p, 15)
                            /\ \A g : IsDivision(g, p, 15) => g[15] = f[15]
  BY DEF Divisible
<1>1. ASSUME NEW g, IsDivision(g, p, 15) PROVE g[15] = p
  BY <1>1 DEF IsDivision
<1>2. IsDivision([d \in 15..15 |-> p], p, 15)
  BY DEF IsDivision
<1>. QED BY <1>1, <1>2

(* A division begins with its first step.                                    *)
LEMMA FirstStep ==
  ASSUME NEW n \in Nat, NEW p, NEW g, IsDivision(g, p, n + 16)
  PROVE  \E h : IsDivision(h, Divide(n + 15, p), n + 15) /\ h[15] = g[15]
<1>. DEFINE h == [d \in 15..(n + 15) |-> g[d]]
<1>1. g = [d \in 15..(n + 16) |-> IF d = n + 16 THEN p ELSE Divide(d, g[d + 1])]
  BY DEF IsDivision
<1>2. g[n + 16] = p /\ \A d \in 15..(n + 15) : g[d] = Divide(d, g[d + 1])
  <2>1. \A d \in 15..(n + 15) : d \in 15..(n + 16) /\ d # n + 16
    OBVIOUS
  <2>. QED BY <1>1, <2>1
<1>3. \A d \in 15..(n + 15) : h[d] = g[d]
  OBVIOUS
<1>4. h[n + 15] = Divide(n + 15, p)
  <2>1. n + 15 \in 15..(n + 15) /\ (n + 15) + 1 = n + 16
    OBVIOUS
  <2>. QED BY <1>2, <1>3, <2>1
<1>5. ASSUME NEW d \in 15..(n + 15), d # n + 15 PROVE h[d] = Divide(d, h[d + 1])
  <2>1. d + 1 \in 15..(n + 15)
    BY <1>5
  <2>. QED BY <1>2, <1>3, <2>1
<1>6. h = [d \in 15..(n + 15) |-> h[d]]
  OBVIOUS
<1>7. h[15] = g[15]
  OBVIOUS
<1>. HIDE DEF h
<1>8. \A d \in 15..(n + 15) : h[d] = IF d = n + 15 THEN Divide(n + 15, p) ELSE Divide(d, h[d + 1])
  BY <1>4, <1>5
<1>9. IsDivision(h, Divide(n + 15, p), n + 15)
  BY <1>6, <1>8 DEF IsDivision
<1>. QED BY <1>7, <1>9

(* A division that begins one bit higher has one step more.                  *)
LEMMA MoreDivision ==
  ASSUME NEW n \in Nat, Divisible(n)
  PROVE  Divisible(n + 1)
<1>. SUFFICES ASSUME NEW p
              PROVE  \E f : /\ IsDivision(f, p, n + 16)
                            /\ \A g : IsDivision(g, p, n + 16) => g[15] = f[15]
  <2>1. (n + 1) + 15 = n + 16
    OBVIOUS
  <2>. QED BY <2>1 DEF Divisible
<1>1. PICK h : /\ IsDivision(h, Divide(n + 15, p), n + 15)
               /\ \A g : IsDivision(g, Divide(n + 15, p), n + 15) => g[15] = h[15]
  BY DEF Divisible
<1>2. h = [d \in 15..(n + 15) |->
             IF d = n + 15 THEN Divide(n + 15, p) ELSE Divide(d, h[d + 1])]
  BY <1>1 DEF IsDivision
<1>. DEFINE f == [d \in 15..(n + 16) |-> IF d = n + 16 THEN p ELSE h[d]]
<1>3. f[n + 16] = p /\ \A d \in 15..(n + 15) : f[d] = h[d]
  <2>1. n + 16 \in 15..(n + 16) /\ \A d \in 15..(n + 15) : d \in 15..(n + 16) /\ d # n + 16
    OBVIOUS
  <2>. QED BY <2>1
<1>4. f = [d \in 15..(n + 16) |-> f[d]]
  OBVIOUS
<1>. HIDE DEF f
<1>5. ASSUME NEW d \in 15..(n + 16), d # n + 16 PROVE f[d] = Divide(d, f[d + 1])
  <2>1. d \in 15..(n + 15) /\ f[d] = h[d]
    BY <1>3, <1>5
  <2>2. CASE d = n + 15
    <3>1. d + 1 = n + 16
      BY <2>2
    <3>2. h[d] = Divide(n + 15, p)
      BY <1>2, <2>1, <2>2
    <3>. QED BY <1>3, <2>1, <2>2, <3>1, <3>2
  <2>3. CASE d # n + 15
    <3>1. d + 1 \in 15..(n + 15)
      BY <2>1, <2>3
    <3>2. h[d] = Divide(d, h[d + 1])
      BY <1>2, <2>1, <2>3
    <3>. QED BY <1>3, <2>1, <3>1, <3>2
  <2>. QED BY <2>2, <2>3
<1>6. \A d \in 15..(n + 16) : f[d] = IF d = n + 16 THEN p ELSE Divide(d, f[d + 1])
  BY <1>3, <1>5
<1>7. IsDivision(f, p, n + 16)
  BY <1>4, <1>6 DEF IsDivision
<1>8. f[15] = h[15]
  <2>1. 15 \in 15..(n + 15)
    OBVIOUS
  <2>. QED BY <1>3, <2>1
<1>9. ASSUME NEW g, IsDivision(g, p, n + 16) PROVE g[15] = f[15]
  <2>1. PICK h2 : IsDivision(h2, Divide(n + 15, p), n + 15) /\ h2[15] = g[15]
    BY <1>9, FirstStep
  <2>. QED BY <1>1, <1>8, <2>1
<1>. QED BY <1>7, <1>9

(* Every division is defined and has one result.                             *)
LEMMA AlwaysDivisible == \A n \in Nat : Divisible(n)
<1>. DEFINE T == {n \in Nat : Divisible(n)}
<1>1. 0 \in T /\ \A n \in Nat : n \in T => n + 1 \in T
  BY NoDivision, MoreDivision
<1>2. \A n \in Nat : n \in T
  <2>. HIDE DEF T
  <2>. QED BY <1>1, Induction
<1>. QED BY <1>2

(* The remainder, step by step.                                              *)
LEMMA RemainderOf ==
  ASSUME NEW n \in Nat, NEW p, NEW f, IsDivision(f, p, n + 15)
  PROVE  Remainder(p, n + 15) = f[15]
<1>. DEFINE g == CHOOSE h : IsDivision(h, p, n + 15)
<1>1. Remainder(p, n + 15) = g[15]
  BY DEF Remainder, IsDivision, Divide
<1>2. IsDivision(g, p, n + 15)
  OBVIOUS
<1>. HIDE DEF g
<1>3. Divisible(n)
  BY AlwaysDivisible
<1>. QED BY <1>1, <1>2, <1>3 DEF Divisible

(* Remainder() by its steps: none at 15, one more for each bit.              *)
LEMMA RemainderSteps ==
  ASSUME NEW p
  PROVE  /\ Remainder(p, 15) = p
         /\ \A n \in Nat : Remainder(p, n + 16) = Remainder(Divide(n + 15, p), n + 15)
<1>1. Remainder(p, 15) = p
  <2>1. IsDivision([d \in 15..15 |-> p], p, 0 + 15)
    BY DEF IsDivision
  <2>2. Remainder(p, 0 + 15) = [d \in 15..15 |-> p][15]
    BY <2>1, RemainderOf
  <2>. QED BY <2>2
<1>2. ASSUME NEW n \in Nat
      PROVE  Remainder(p, n + 16) = Remainder(Divide(n + 15, p), n + 15)
  <2>1. n + 1 \in Nat /\ (n + 1) + 15 = n + 16
    OBVIOUS
  <2>2. PICK f : IsDivision(f, p, n + 16)
    BY <2>1, AlwaysDivisible DEF Divisible
  <2>3. PICK h : IsDivision(h, Divide(n + 15, p), n + 15) /\ h[15] = f[15]
    BY <2>2, FirstStep
  <2>4. Remainder(p, n + 16) = f[15]
    <3>1. IsDivision(f, p, (n + 1) + 15)
      BY <2>1, <2>2
    <3>2. Remainder(p, (n + 1) + 15) = f[15]
      BY <2>1, <3>1, RemainderOf
    <3>. QED BY <2>1, <3>2
  <2>5. Remainder(Divide(n + 15, p), n + 15) = h[15]
    BY <2>3, RemainderOf
  <2>. QED BY <2>3, <2>4, <2>5
<1>. QED BY <1>1, <1>2

-----------------------------------------------------------------------------
(* The register and the remainder *)

(* A step of the division takes bit d + 1 away.                              *)
LEMMA DivideBounds ==
  ASSUME NEW n \in Nat, NEW p \in SUBSET (0..(n + 16))
  PROVE  Divide(n + 15, p) \in SUBSET (0..(n + 15))
<1>. DEFINE G == {(n + 15) + 1, (n + 15) - 3, (n + 15) - 10, (n + 15) - 15}
<1>1. G \in SUBSET (0..(n + 16)) /\ n + 16 \in G /\ (n + 15) + 1 = n + 16
  OBVIOUS
<1>. HIDE DEF G
<1>2. ASSUME NEW x \in Divide(n + 15, p) PROVE x \in 0..(n + 15)
  <2>1. Divide(n + 15, p) = IF n + 16 \in p THEN Xor(p, G) ELSE p
    BY <1>1 DEF Divide, G
  <2>2. x \in 0..(n + 16) /\ x # n + 16
    <3>1. CASE n + 16 \in p
      <4>1. x \in Xor(p, G) /\ \A y : y \in Xor(p, G) <=> ~(y \in p <=> y \in G)
        BY <1>2, <2>1, <3>1, XorBit
      <4>. QED BY <1>1, <3>1, <4>1
    <3>2. CASE n + 16 \notin p
      BY <1>2, <2>1, <3>2
    <3>. QED BY <3>1, <3>2
  <2>. QED BY <2>2
<1>. QED BY <1>2

(* A remainder is a word.                                                    *)
LEMMA RemainderIsWord ==
  \A n \in Nat : \A p \in SUBSET (0..(n + 15)) : Remainder(p, n + 15) \in Word
<1>. DEFINE T == {n \in Nat : \A p \in SUBSET (0..(n + 15)) : Remainder(p, n + 15) \in Word}
<1>1. 0 \in T
  <2>. SUFFICES ASSUME NEW p \in SUBSET (0..15) PROVE Remainder(p, 15) \in Word
    OBVIOUS
  <2>. QED BY RemainderSteps DEF Word
<1>2. ASSUME NEW n \in Nat, n \in T PROVE n + 1 \in T
  <2>. SUFFICES ASSUME NEW p \in SUBSET (0..(n + 16)) PROVE Remainder(p, n + 16) \in Word
    OBVIOUS
  <2>1. Remainder(p, n + 16) = Remainder(Divide(n + 15, p), n + 15)
    BY RemainderSteps
  <2>. QED BY <1>2, <2>1, DivideBounds
<1>3. \A n \in Nat : n \in T
  <2>. HIDE DEF T
  <2>. QED BY <1>1, <1>2, Induction
<1>. QED BY <1>3

(* Another byte at the end of the dividend does not disturb the division     *)
(* of what is before it.                                                     *)
LEMMA DivideUpper ==
  ASSUME NEW n \in Nat, NEW p \in SUBSET Int, NEW b \in Byte
  PROVE  /\ Divide(n + 15, p) \in SUBSET Int
         /\ Divide(n + 23, Xor(Plus(p, 8), Plus(b, 16))) =
            Xor(Plus(Divide(n + 15, p), 8), Plus(b, 16))
<1>. DEFINE G == {(n + 15) + 1, (n + 15) - 3, (n + 15) - 10, (n + 15) - 15}
            H == {(n + 23) + 1, (n + 23) - 3, (n + 23) - 10, (n + 23) - 15}
<1>1. /\ G \in SUBSET Int /\ H \in SUBSET Int
      /\ n + 16 = (n + 15) + 1 /\ n + 24 = (n + 23) + 1 /\ n + 24 \in Int /\ 8 \in Int /\ 16 \in Int
      /\ (n + 24) - 8 = n + 16
  OBVIOUS
<1>2. H = Plus(G, 8)
  <2>1. \A x \in Int : x \in H <=> x - 8 \in G
    OBVIOUS
  <2>2. Plus(G, 8) \in SUBSET Int /\ \A x \in Int : x \in Plus(G, 8) <=> x - 8 \in G
    <3>. HIDE DEF G
    <3>. QED BY <1>1, PlusInt, PlusBit
  <2>. HIDE DEF G, H
  <2>. QED BY <1>1, <2>1, <2>2
<1>3. /\ Divide(n + 15, p) = IF n + 16 \in p THEN Xor(p, G) ELSE p
      /\ \A r : Divide(n + 23, r) = IF n + 24 \in r THEN Xor(r, H) ELSE r
  BY <1>1 DEF Divide
<1>. HIDE DEF G, H
<1>4. b \in SUBSET Int /\ Plus(p, 8) \in SUBSET Int /\ Plus(b, 16) \in SUBSET Int
  BY <1>1, PlusInt DEF Byte
<1>5. n + 24 \notin Plus(b, 16)
  <2>1. (n + 24) - 16 \notin b
    BY DEF Byte
  <2>. QED BY <1>1, <1>4, <2>1, PlusBit
<1>6. n + 24 \in Xor(Plus(p, 8), Plus(b, 16)) <=> n + 16 \in p
  <2>1. n + 24 \in Plus(p, 8) <=> n + 16 \in p
    BY <1>1, PlusBit
  <2>. QED BY <1>5, <2>1, XorBit
<1>7. Divide(n + 15, p) \in SUBSET Int
  <2>1. Xor(p, G) \in SUBSET Int
    BY <1>1, XorInt
  <2>. QED BY <1>3, <2>1
<1>8. CASE n + 16 \in p
  <2>1. Plus(Xor(p, G), 8) = Xor(Plus(p, 8), H)
    BY <1>1, <1>2, PlusXor
  <2>2. Xor(Xor(Plus(p, 8), Plus(b, 16)), H) = Xor(Xor(Plus(p, 8), H), Plus(b, 16))
    BY DEF Xor
  <2>. QED BY <1>3, <1>6, <1>7, <1>8, <2>1, <2>2
<1>9. CASE n + 16 \notin p
  BY <1>3, <1>6, <1>7, <1>9
<1>. QED BY <1>8, <1>9

(* The same for the remainder: divide first, append the byte afterwards.     *)
LEMMA RemainderUpper ==
  ASSUME NEW b \in Byte
  PROVE  \A n \in Nat : \A p \in SUBSET Int :
           Remainder(Xor(Plus(p, 8), Plus(b, 16)), n + 23) =
           Remainder(Xor(Plus(Remainder(p, n + 15), 8), Plus(b, 16)), 23)
<1>. DEFINE T == {n \in Nat : \A p \in SUBSET Int :
                    Remainder(Xor(Plus(p, 8), Plus(b, 16)), n + 23) =
                    Remainder(Xor(Plus(Remainder(p, n + 15), 8), Plus(b, 16)), 23)}
<1>1. 0 \in T
  BY RemainderSteps
<1>2. ASSUME NEW n \in Nat, n \in T PROVE n + 1 \in T
  <2>. SUFFICES ASSUME NEW p \in SUBSET Int
                PROVE  Remainder(Xor(Plus(p, 8), Plus(b, 16)), n + 24) =
                       Remainder(Xor(Plus(Remainder(p, n + 16), 8), Plus(b, 16)), 23)
    <3>1. (n + 1) + 23 = n + 24 /\ (n + 1) + 15 = n + 16 /\ n + 1 \in Nat
      OBVIOUS
    <3>. QED BY <3>1
  <2>1. Remainder(p, n + 16) = Remainder(Divide(n + 15, p), n + 15)
    BY RemainderSteps
  <2>2. PICK r : r = Xor(Plus(p, 8), Plus(b, 16))
    OBVIOUS
  <2>3. Remainder(r, n + 24) = Remainder(Divide(n + 23, r), n + 23)
    <3>1. n + 8 \in Nat /\ (n + 8) + 16 = n + 24 /\ (n + 8) + 15 = n + 23
      OBVIOUS
    <3>2. Remainder(r, (n + 8) + 16) = Remainder(Divide((n + 8) + 15, r), (n + 8) + 15)
      BY <3>1, RemainderSteps
    <3>. QED BY <3>1, <3>2
  <2>4. /\ Divide(n + 15, p) \in SUBSET Int
        /\ Divide(n + 23, r) = Xor(Plus(Divide(n + 15, p), 8), Plus(b, 16))
    BY <2>2, DivideUpper
  <2>. QED BY <1>2, <2>1, <2>2, <2>3, <2>4
<1>3. \A n \in Nat : n \in T
  <2>. HIDE DEF T
  <2>. QED BY <1>1, <1>2, Induction
<1>. QED BY <1>3

(* A step of the division is a shift of the register.                        *)
LEMMA DivideShifts ==
  ASSUME NEW c \in Word, NEW k \in 0..7
  PROVE  Remainder(Plus(c, k + 1), k + 16) = Remainder(Plus(ShiftCrc(c), k), k + 15)
<1>. DEFINE G == {(k + 15) + 1, (k + 15) - 3, (k + 15) - 10, (k + 15) - 15}
<1>1. c \in SUBSET Int /\ ShiftCrc(c) \in SUBSET Int /\ ShiftCrc(c) \in Word
  BY ShiftBit DEF Word
<1>2. /\ k \in Nat /\ k \in Int /\ k + 1 \in Int /\ (k + 15) + 1 = k + 16 /\ G \in SUBSET Int
      /\ k + 16 \in Int /\ (k + 16) - (k + 1) = 15
  OBVIOUS
<1>3. \A x \in Int : x \in G <=> x - k = 16 \/ x - k \in Generator
  BY DEF Generator
<1>4. Divide(k + 15, Plus(c, k + 1)) =
        IF k + 16 \in Plus(c, k + 1) THEN Xor(Plus(c, k + 1), G) ELSE Plus(c, k + 1)
  BY <1>2 DEF Divide
<1>. HIDE DEF G
<1>5. k + 16 \in Plus(c, k + 1) <=> 15 \in c
  BY <1>1, <1>2, PlusBit
<1>6. Plus(c, k + 1) \in SUBSET Int /\ Plus(ShiftCrc(c), k) \in SUBSET Int
      /\ Divide(k + 15, Plus(c, k + 1)) \in SUBSET Int
  BY <1>1, <1>2, <1>4, PlusInt, XorInt
<1>7. ASSUME NEW x \in Int
      PROVE  x \in Divide(k + 15, Plus(c, k + 1)) <=> x \in Plus(ShiftCrc(c), k)
  <2>1. PICK y \in Int : y = x - k /\ x - (k + 1) = y - 1
    BY <1>2
  <2>2. x \in Plus(c, k + 1) <=> y - 1 \in c
    BY <1>1, <1>2, <2>1, PlusBit
  <2>3. x \in Plus(ShiftCrc(c), k) <=> y \in ShiftCrc(c)
    BY <1>1, <1>2, <2>1, PlusBit
  <2>4. x \in G <=> y = 16 \/ y \in Generator
    BY <1>3, <2>1
  <2>5. y \in ShiftCrc(c) <=>
          y \in 0..15 /\ ~((y # 0 /\ y - 1 \in c) <=> (15 \in c /\ y \in Generator))
    BY <1>1, ShiftBit DEF Word
  <2>6. x \in Divide(k + 15, Plus(c, k + 1)) <=>
          ~(y - 1 \in c <=> 15 \in c /\ (y = 16 \/ y \in Generator))
    BY <1>4, <1>5, <2>2, <2>4, XorBit
  <2>7. y - 1 \in c => y - 1 \in 0..15
    BY DEF Word
  <2>8. y \in Generator => y \in 0..15
    BY DEF Generator
  <2>9. CASE y = 16
    <3>1. y - 1 = 15 /\ y \notin 0..15 /\ y \notin Generator
      BY <2>9 DEF Generator
    <3>. QED BY <2>3, <2>5, <2>6, <2>9, <3>1
  <2>10. CASE y \in 0..15
    <3>1. y = 0 => y - 1 \notin c
      BY <2>7
    <3>2. y # 16
      BY <2>10
    <3>. QED BY <2>3, <2>5, <2>6, <2>10, <3>1, <3>2
  <2>11. CASE y # 16 /\ y \notin 0..15
    <3>1. y - 1 \notin c
      BY <2>7, <2>11
    <3>. QED BY <2>3, <2>5, <2>6, <2>8, <2>11, <3>1
  <2>. QED BY <2>9, <2>10, <2>11
<1>8. Divide(k + 15, Plus(c, k + 1)) = Plus(ShiftCrc(c), k)
  BY <1>6, <1>7
<1>. QED BY <1>2, <1>8, RemainderSteps

(* One byte of the frame: the remainder of the frame with the byte appended. *)
LEMMA UpdateIsDivision ==
  ASSUME NEW c \in Word, NEW b \in Byte
  PROVE  Remainder(Xor(Plus(c, 8), Plus(b, 16)), 23) = UpdateCrc(c, b)
<1>1. b \in SUBSET Int /\ c \in SUBSET Int /\ Plus(b, 8) \in SUBSET Int /\ Plus(b, 8) \in Word
  BY PlusInt, HighByte DEF Byte, Word
<1>2. PICK x \in Word : x = Xor(c, Plus(b, 8))
  BY <1>1, XorWord
<1>3. Xor(Plus(c, 8), Plus(b, 16)) = Plus(x, 8)
  <2>1. Plus(Plus(b, 8), 8) = Plus(b, 8 + 8)
    BY <1>1, PlusPlus
  <2>2. 8 + 8 = 16
    OBVIOUS
  <2>3. Plus(Xor(c, Plus(b, 8)), 8) = Xor(Plus(c, 8), Plus(Plus(b, 8), 8))
    BY <1>1, PlusXor
  <2>. QED BY <1>2, <2>1, <2>2, <2>3
<1>4. \A y \in Word : \A k \in 0..7 :
        /\ ShiftCrc(y) \in Word
        /\ Remainder(Plus(y, k + 1), k + 16) = Remainder(Plus(ShiftCrc(y), k), k + 15)
  BY ShiftBit, DivideShifts
<1>5. PICK x1, x2, x3, x4, x5, x6, x7, x8 :
        /\ x1 = ShiftCrc(x) /\ x2 = ShiftCrc(x1) /\ x3 = ShiftCrc(x2) /\ x4 = ShiftCrc(x3)
        /\ x5 = ShiftCrc(x4) /\ x6 = ShiftCrc(x5) /\ x7 = ShiftCrc(x6) /\ x8 = ShiftCrc(x7)
  OBVIOUS
<1>6. x1 \in Word /\ x2 \in Word /\ x3 \in Word /\ x4 \in Word /\ x5 \in Word /\ x6 \in Word
      /\ x7 \in Word /\ x8 \in Word
  BY <1>5, ShiftBit
<1>7. \A y \in Word :
        /\ Remainder(Plus(y, 8), 23) = Remainder(Plus(ShiftCrc(y), 7), 22)
        /\ Remainder(Plus(y, 7), 22) = Remainder(Plus(ShiftCrc(y), 6), 21)
        /\ Remainder(Plus(y, 6), 21) = Remainder(Plus(ShiftCrc(y), 5), 20)
        /\ Remainder(Plus(y, 5), 20) = Remainder(Plus(ShiftCrc(y), 4), 19)
        /\ Remainder(Plus(y, 4), 19) = Remainder(Plus(ShiftCrc(y), 3), 18)
        /\ Remainder(Plus(y, 3), 18) = Remainder(Plus(ShiftCrc(y), 2), 17)
        /\ Remainder(Plus(y, 2), 17) = Remainder(Plus(ShiftCrc(y), 1), 16)
        /\ Remainder(Plus(y, 1), 16) = Remainder(Plus(ShiftCrc(y), 0), 15)
  <2>. SUFFICES ASSUME NEW y \in Word, NEW k \in 0..7, NEW k1, k1 = k + 1, NEW k15, k15 = k + 15,
                       NEW k16, k16 = k + 16
                PROVE  Remainder(Plus(y, k1), k16) = Remainder(Plus(ShiftCrc(y), k), k15)
    OBVIOUS
  <2>. QED BY <1>4
<1>8. Remainder(Plus(x, 8), 23) = Remainder(Plus(x8, 0), 15)
  BY <1>5, <1>6, <1>7
<1>9. Remainder(Plus(x8, 0), 15) = x8
  <2>1. x8 \in SUBSET Int
    BY <1>6 DEF Word
  <2>2. Plus(x8, 0) \in SUBSET Int /\ \A y \in Int : y \in Plus(x8, 0) <=> y - 0 \in x8
    BY <2>1, PlusInt, PlusBit
  <2>3. \A y \in Int : y - 0 = y
    OBVIOUS
  <2>4. Plus(x8, 0) = x8
    BY <2>1, <2>2, <2>3
  <2>. QED BY <2>4, RemainderSteps
<1>10. x8 = Shift8(x)
  BY <1>5 DEF Shift8, Shift4, Shift2
<1>. QED BY <1>2, <1>3, <1>8, <1>9, <1>10, UpdateShifts

\* The frame so far, as the dividend of the definition.
Dividend == Xor(Plus(poly, 16), Plus(InitCrc, 8 * len))

(* The dividend has as many bits as the frame, and 16.                       *)
RemainderInv ==
  /\ len \in Nat
  /\ \A x \in poly : x \in Nat /\ x < 8 * len
  /\ gotcrc \in Word
  /\ CrcIsRemainder

(* The dividend of the frame so far fits into its degree.                    *)
LEMMA DividendBits ==
  ASSUME RemainderInv
  PROVE  Dividend \in SUBSET (0..(8 * len + 15)) /\ Dividend \in SUBSET Int
<1>1. PICK n \in Nat : n = 8 * len
  BY DEF RemainderInv
<1>2. poly \in SUBSET Int /\ InitCrc \in SUBSET Int /\ n \in Int /\ 16 \in Int
  BY <1>1 DEF RemainderInv, InitCrc
<1>3. ASSUME NEW x \in Plus(poly, 16) PROVE x \in 0..(n + 15)
  <2>1. x \in Int /\ x - 16 \in poly
    BY <1>2, PlusInt, PlusBit
  <2>2. x - 16 \in Nat /\ x - 16 < n
    BY <1>1, <2>1 DEF RemainderInv
  <2>. QED BY <2>1, <2>2
<1>4. ASSUME NEW x \in Plus(InitCrc, n) PROVE x \in 0..(n + 15)
  <2>1. x \in Int /\ x - n \in 0..15
    BY <1>2, PlusInt, PlusBit DEF InitCrc
  <2>. QED BY <1>1, <2>1
<1>5. \A x \in Dividend : x \in 0..(n + 15)
  BY <1>1, <1>3, <1>4, XorBit DEF Dividend
<1>. QED BY <1>1, <1>5

(* NextByte() keeps the invariant.                                           *)
LEMMA RemainderOfByte ==
  ASSUME RemainderInv, NEW byte \in DataBytes, NEW error \in Errors, NextByte(byte, error)
  PROVE  RemainderInv'
<1>1. PICK b \in Byte : b = Xor(byte, error)
  BY CrcAssumption, ErrorByte DEF Byte, Xor
<1>2. /\ gotcrc' = UpdateCrc(gotcrc, b) /\ poly' = Plus(poly, 8) \union b /\ len' = len + 1
  BY <1>1 DEF NextByte
<1>3. PICK n \in Nat : n = 8 * len
  BY DEF RemainderInv
<1>4. 8 * len' = n + 8 /\ len' \in Nat
  BY <1>2, <1>3 DEF RemainderInv
<1>5. /\ poly \in SUBSET Int /\ b \in SUBSET Int /\ InitCrc \in SUBSET Int
      /\ n \in Int /\ 8 \in Int /\ 16 \in Int /\ n + 8 \in Int
  BY <1>3 DEF RemainderInv, Byte, InitCrc
<1>6. \A x \in Plus(poly, 8) : x \in Int /\ x - 8 \in Nat /\ x - 8 < n
  <2>1. \A x \in Plus(poly, 8) : x \in Int /\ x - 8 \in poly
    BY <1>5, PlusInt, PlusBit
  <2>. QED BY <1>3, <2>1 DEF RemainderInv
<1>7. \A x \in poly' : x \in Nat /\ x < n + 8
  <2>1. TAKE x \in poly'
  <2>2. CASE x \in Plus(poly, 8)
    <3>1. x \in Int /\ x - 8 \in Nat /\ x - 8 < n
      BY <1>6, <2>2
    <3>. QED BY <3>1
  <2>3. CASE x \in b
    <3>1. x \in 0..7
      BY <2>3 DEF Byte
    <3>. QED BY <3>1
  <2>. QED BY <1>2, <2>2, <2>3
<1>8. poly' = Xor(Plus(poly, 8), b)
  <2>1. \A x \in b : x \notin Plus(poly, 8)
    <3>1. \A x \in b : x \in 0..7
      BY DEF Byte
    <3>. QED BY <1>6, <3>1
  <2>. QED BY <1>2, <2>1 DEF Xor
<1>9. Dividend' = Xor(Plus(Dividend, 8), Plus(b, 16))
  <2>1. Plus(poly', 16) = Xor(Plus(poly, 24), Plus(b, 16))
    <3>1. Plus(poly, 8) \in SUBSET Int
      BY <1>5, PlusInt
    <3>2. Plus(Xor(Plus(poly, 8), b), 16) = Xor(Plus(Plus(poly, 8), 16), Plus(b, 16))
      BY <1>5, <3>1, PlusXor
    <3>3. Plus(Plus(poly, 8), 16) = Plus(poly, 8 + 16) /\ 8 + 16 = 24
      BY <1>5, PlusPlus
    <3>. QED BY <1>8, <3>2, <3>3
  <2>2. Plus(Dividend, 8) = Xor(Plus(poly, 24), Plus(InitCrc, n + 8))
    <3>1. Plus(poly, 16) \in SUBSET Int /\ Plus(InitCrc, n) \in SUBSET Int
      BY <1>5, PlusInt
    <3>2. Plus(Xor(Plus(poly, 16), Plus(InitCrc, n)), 8) =
          Xor(Plus(Plus(poly, 16), 8), Plus(Plus(InitCrc, n), 8))
      BY <1>5, <3>1, PlusXor
    <3>3. Plus(Plus(poly, 16), 8) = Plus(poly, 16 + 8) /\ 16 + 8 = 24
      BY <1>5, PlusPlus
    <3>4. Plus(Plus(InitCrc, n), 8) = Plus(InitCrc, n + 8)
      BY <1>5, PlusPlus
    <3>. QED BY <1>3, <3>2, <3>3, <3>4 DEF Dividend
  <2>3. Dividend' = Xor(Plus(poly', 16), Plus(InitCrc, n + 8))
    BY <1>4 DEF Dividend
  <2>4. \A p, q, r : Xor(Xor(p, q), r) = Xor(Xor(p, r), q)
    BY DEF Xor
  <2>. QED BY <2>1, <2>2, <2>3, <2>4
<1>10. PICK d : d = Dividend
  OBVIOUS
<1>11. d \in SUBSET (0..(n + 15)) /\ d \in SUBSET Int /\ gotcrc = Remainder(d, n + 15)
  BY <1>3, <1>10, DividendBits DEF RemainderInv, CrcIsRemainder, Dividend
<1>12. Remainder(Xor(Plus(d, 8), Plus(b, 16)), n + 23) =
       Remainder(Xor(Plus(gotcrc, 8), Plus(b, 16)), 23)
  BY <1>11, RemainderUpper
<1>13. gotcrc' = Remainder(Xor(Plus(d, 8), Plus(b, 16)), n + 23)
  BY <1>2, <1>12, UpdateIsDivision DEF RemainderInv
<1>14. CrcIsRemainder'
  <2>1. CrcIsRemainder' <=> gotcrc' = Remainder(Dividend', 8 * len' + 15)
    BY DEF CrcIsRemainder, Dividend
  <2>2. 8 * len' + 15 = n + 23
    <3>1. 8 * len' + 15 = (n + 8) + 15
      BY <1>4
    <3>2. (n + 8) + 15 = n + 23
      OBVIOUS
    <3>. QED BY <3>1, <3>2
  <2>. QED BY <1>9, <1>10, <1>13, <2>1, <2>2
<1>15. gotcrc' \in Word
  BY <1>2, UpdateLinear DEF RemainderInv
<1>. QED BY <1>4, <1>7, <1>14, <1>15 DEF RemainderInv

(* CrcIsRemainder: the register always holds the remainder of x^16 times the *)
(* frame, its first 16 bits inverted, for frames of any length.              *)
THEOREM CrcByDefinition == Spec => []CrcIsRemainder
<1>1. Init => RemainderInv
  <2>. SUFFICES ASSUME Init PROVE RemainderInv
    OBVIOUS
  <2>1. gotcrc = InitCrc /\ poly = {} /\ len = 0
    BY DEF Init, CrcInit
  <2>2. 8 * len = 0 /\ 8 * len + 15 = 15
    BY <2>1
  <2>3. Xor(Plus(poly, 16), Plus(InitCrc, 0)) = InitCrc
    <3>1. InitCrc \in SUBSET Int
      BY DEF InitCrc
    <3>2. Plus(InitCrc, 0) \in SUBSET Int
          /\ \A y \in Int : y \in Plus(InitCrc, 0) <=> y - 0 \in InitCrc
      BY <3>1, PlusInt, PlusBit
    <3>3. \A y \in Int : y - 0 = y
      OBVIOUS
    <3>4. Plus(InitCrc, 0) = InitCrc
      BY <3>1, <3>2, <3>3
    <3>5. Plus(poly, 16) = {}
      BY <2>1 DEF Plus
    <3>. QED BY <3>4, <3>5, XorZero
  <2>4. CrcIsRemainder
    BY <2>1, <2>2, <2>3, RemainderSteps DEF CrcIsRemainder
  <2>5. gotcrc \in Word
    BY <2>1 DEF InitCrc, Word
  <2>. QED BY <2>1, <2>4, <2>5 DEF RemainderInv
<1>2. RemainderInv /\ [Next]_<<crcvars, md5vars>> => RemainderInv'
  <2>. SUFFICES ASSUME RemainderInv, [Next]_<<crcvars, md5vars>> PROVE RemainderInv'
    OBVIOUS
  <2>1. CASE UNCHANGED crcvars
    BY <2>1 DEF RemainderInv, CrcIsRemainder, crcvars
  <2>2. CASE CrcNext
    BY <2>2, RemainderOfByte DEF CrcNext
  <2>. QED BY <2>1, <2>2 DEF Next
<1>3. RemainderInv => CrcIsRemainder
  BY DEF RemainderInv
<1>. QED BY <1>1, <1>2, <1>3, PTL DEF Spec

-----------------------------------------------------------------------------
(* The MD5 stream in the specification of both checksums *)

(* Every step of both checksums keeps the invariant of the stream.           *)
LEMMA StreamKept == StreamInv /\ [Next]_<<crcvars, md5vars>> => StreamInv'
<1>1. [Next]_<<crcvars, md5vars>> => [Md5Next]_md5vars
  BY DEF Next
<1>. QED BY <1>1, StreamStep

(* An MD5 object begins with the invariant of the stream.                    *)
LEMMA StreamStarts == Init => StreamInv
<1>. SUFFICES ASSUME Init PROVE StreamInv
  OBVIOUS
<1>1. md5 = Fresh /\ fed = 0 /\ final = FALSE
  BY DEF Init, Md5Init
<1>. QED BY <1>1, FreshStream DEF StreamInv

(* NothingLost in the specification of both checksums: update() keeps every  *)
(* byte of the message, however it is cut.                                   *)
THEOREM StreamKeepsAll == Spec => []NothingLost
<1>1. StreamInv => NothingLost
  BY DEF StreamInv, NothingLost, Stream
<1>. QED BY <1>1, StreamStarts, StreamKept, PTL DEF Spec

(* DigestIsOfMessage in the specification of both checksums: after final()   *)
(* transform() has had the padded message.                                   *)
THEOREM DigestOfMessage == Spec => []DigestIsOfMessage
<1>1. StreamInv => DigestIsOfMessage
  BY DEF StreamInv, DigestIsOfMessage
<1>. QED BY <1>1, StreamStarts, StreamKept, PTL DEF Spec
=============================================================================
