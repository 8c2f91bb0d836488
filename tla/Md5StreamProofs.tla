-------------------------- MODULE Md5StreamProofs --------------------------
(***************************************************************************)
(* Proofs about Md5Stream: for messages of any length, cut into pieces of  *)
(* any lengths.                                                            *)
(***************************************************************************)
EXTENDS Md5Stream, SequenceTheorems, TLAPS

(* The bytes that go through the stream.                                    *)
Data ==
  {<<"m", i>> : i \in Nat} \union {<<"pad", 0>>, <<"pad", 128>>}
    \union {<<"bits", n, i>> : n \in Nat, i \in Nat}

(* An MD5 object with bytes of S, and what it has been given.                *)
Buffers(S) == [1..Block -> S]
Objects(S) == [count : Nat, buffer : Buffers(S), hashed : Seq(S)]
Stream(c)  == c.hashed \o SubSeq(c.buffer, 1, Index(c))

-----------------------------------------------------------------------------
(* Arithmetic. *)

(* A block is not empty.                                                     *)
LEMMA BlockPositive == Block \in Nat /\ Block > 0
  BY DEF Block

(* The remainder of a count is a place in the buffer.                        *)
LEMMA IndexRange ==
  ASSUME NEW n \in Nat
  PROVE  /\ n % Block \in 0..(Block - 1)
         /\ n \div Block \in Nat
         /\ n = Block * (n \div Block) + (n % Block)
  BY DEF Block

(* The remainder of a sum, as far as it stays in a block, and beyond.        *)
LEMMA IndexOfSum ==
  ASSUME NEW m \in Nat, NEW n \in Nat
  PROVE  /\ (m % Block) + n < Block => (m + n) % Block = (m % Block) + n
         /\ (m % Block) + n >= Block => (m + n) % Block = (n - (Block - (m % Block))) % Block
         /\ m % Block = 0 => (m + n) % Block = n % Block
  BY DEF Block

-----------------------------------------------------------------------------
(* The buffer. *)

(* memcpy() to where the buffer is filled adds the data.                     *)
LEMMA CopyAppends ==
  ASSUME NEW S, NEW b \in Buffers(S), NEW at \in 0..Block, NEW data \in Seq(S),
         at + Len(data) <= Block
  PROVE  /\ Copy(b, at, data) \in Buffers(S)
         /\ SubSeq(b, 1, at) \in Seq(S)
         /\ SubSeq(Copy(b, at, data), 1, at + Len(data)) = SubSeq(b, 1, at) \o data
<1>. DEFINE n == Len(data)
            new == Copy(b, at, data)
<1>1. n \in Nat /\ \A i \in 1..n : data[i] \in S
  BY LenProperties, ElementOfSeq
<1>2. new = [i \in 1..Block |-> IF i \in (at + 1)..(at + n) THEN data[i - at] ELSE b[i]]
  BY DEF Copy
<1>. HIDE DEF n, new
<1>3. \A i \in (at + 1)..(at + n) : data[i - at] \in S
  BY <1>1 DEF Block
<1>4. b \in [1..Block -> S]
  BY DEF Buffers
<1>5. at \in Nat /\ at + n \in Nat /\ at + n <= Block /\ Block \in Nat
  <2>1. at + n <= Block
    BY DEF n
  <2>2. Block \in Nat
    BY DEF Block
  <2>3. at \in Nat
    BY <2>2
  <2>. QED BY <1>1, <2>1, <2>2, <2>3
<1>6. /\ SubSeq(b, 1, at) \in Seq(S) /\ Len(SubSeq(b, 1, at)) = at
      /\ \A i \in 1..at : SubSeq(b, 1, at)[i] = b[i]
  <2>1. \A i \in 1..at : b[i] \in S
    BY <1>4, <1>5
  <2>. QED BY <2>1, <1>5, SubSeqProperties
<1>7. /\ SubSeq(new, 1, at + n) \in Seq(S) /\ Len(SubSeq(new, 1, at + n)) = at + n
      /\ \A i \in 1..(at + n) : SubSeq(new, 1, at + n)[i] = new[i]
  <2>1. \A i \in 1..(at + n) : new[i] \in S
    BY <1>2, <1>3, <1>4, <1>5
  <2>. QED BY <2>1, <1>5, SubSeqProperties
<1>8. /\ SubSeq(b, 1, at) \o data \in Seq(S) /\ Len(SubSeq(b, 1, at) \o data) = at + n
      /\ \A i \in 1..(at + n) :
           (SubSeq(b, 1, at) \o data)[i] = IF i <= at THEN SubSeq(b, 1, at)[i] ELSE data[i - at]
  BY <1>6, ConcatProperties DEF n
<1>9. \A i \in 1..(at + n) : SubSeq(new, 1, at + n)[i] = (SubSeq(b, 1, at) \o data)[i]
  BY <1>1, <1>2, <1>5, <1>6, <1>7, <1>8
<1>11. new \in Buffers(S)
  BY <1>2, <1>3, <1>4 DEF Buffers
<1>10. SubSeq(new, 1, at + n) = SubSeq(b, 1, at) \o data
  BY <1>7, <1>8, <1>9, SeqEqual
<1>. QED BY <1>6, <1>10, <1>11 DEF n, new

-----------------------------------------------------------------------------
(* update(). *)

(* A sequence is its first k elements and the others.                       *)
LEMMA Cut ==
  ASSUME NEW S, NEW seq \in Seq(S), NEW k \in 0..Len(seq)
  PROVE  /\ SubSeq(seq, 1, k) \in Seq(S) /\ Len(SubSeq(seq, 1, k)) = k
         /\ SubSeq(seq, k + 1, Len(seq)) \in Seq(S)
         /\ Len(SubSeq(seq, k + 1, Len(seq))) = Len(seq) - k
         /\ SubSeq(seq, 1, k) \o SubSeq(seq, k + 1, Len(seq)) = seq
<1>1. Len(seq) \in Nat /\ \A i \in 1..Len(seq) : seq[i] \in S
  BY LenProperties, ElementOfSeq
<1>2. SubSeq(seq, 1, k) \in Seq(S) /\ Len(SubSeq(seq, 1, k)) = k
  <2>1. 1 \in Int /\ k \in Int /\ \A i \in 1..k : seq[i] \in S
    BY <1>1
  <2>. QED BY <1>1, <2>1, SubSeqProperties
<1>3. /\ SubSeq(seq, k + 1, Len(seq)) \in Seq(S)
      /\ Len(SubSeq(seq, k + 1, Len(seq))) = Len(seq) - k
  <2>1. k + 1 \in Int /\ Len(seq) \in Int /\ \A i \in (k + 1)..Len(seq) : seq[i] \in S
    BY <1>1
  <2>2. SubSeq(seq, k + 1, Len(seq)) \in Seq(S)
    BY <2>1, SubSeqProperties
  <2>3. Len(SubSeq(seq, k + 1, Len(seq))) =
          IF k + 1 <= Len(seq) THEN Len(seq) - (k + 1) + 1 ELSE 0
    BY <2>1, SubSeqProperties
  <2>. QED BY <1>1, <2>2, <2>3
<1>4. SubSeq(seq, 1, k) \o SubSeq(seq, k + 1, Len(seq)) = seq
  <2>1. 1 \in 1..(Len(seq) + 1) /\ k \in (1 - 1)..Len(seq) /\ Len(seq) \in k..Len(seq)
    BY <1>1
  <2>2. SubSeq(seq, 1, k) \o SubSeq(seq, k + 1, Len(seq)) = SubSeq(seq, 1, Len(seq))
    BY <2>1, ConcatAdjacentSubSeq
  <2>. QED BY <2>2, SubSeqFull
<1>. QED BY <1>2, <1>3, <1>4

(* A copy to the front of the buffer.                                       *)
LEMMA CopyToFront ==
  ASSUME NEW S, NEW b \in Buffers(S), NEW data \in Seq(S), Len(data) <= Block
  PROVE  /\ Copy(b, 0, data) \in Buffers(S)
         /\ SubSeq(Copy(b, 0, data), 1, Len(data)) = data
<1>1. Len(data) \in Nat /\ 0 \in 0..Block /\ 0 + Len(data) <= Block /\ 0 + Len(data) = Len(data)
  BY LenProperties, BlockPositive
<1>2. /\ Copy(b, 0, data) \in Buffers(S)
      /\ SubSeq(Copy(b, 0, data), 1, 0 + Len(data)) = SubSeq(b, 1, 0) \o data
  <2>1. 0 \in 0..Block /\ 0 + Len(data) <= Block
    BY <1>1
  <2>. QED BY <2>1, CopyAppends
<1>3. SubSeq(b, 1, 0) \o data = data
  <2>1. SubSeq(b, 1, 0) = << >>
    BY SubSeqEmpty
  <2>. QED BY <2>1, ConcatEmptySeq
<1>. QED BY <1>1, <1>2, <1>3

(* The whole blocks of the data, and the remainder after them.               *)
Whole(data)    == Block * (Len(data) \div Block)
Leftover(data) == SubSeq(data, Whole(data) + 1, Len(data))

(* The remainder goes to the front of the buffer.                            *)
LEMMA KeepRest ==
  ASSUME NEW S, NEW b \in Buffers(S), NEW data \in Seq(S)
  PROVE  /\ Copy(b, 0, Leftover(data)) \in Buffers(S)
         /\ SubSeq(data, 1, Whole(data)) \in Seq(S) /\ Leftover(data) \in Seq(S)
         /\ SubSeq(Copy(b, 0, Leftover(data)), 1, Len(data) % Block) = Leftover(data)
         /\ SubSeq(data, 1, Whole(data)) \o Leftover(data) = data
<1>1. /\ Len(data) \in Nat /\ Whole(data) \in Nat
      /\ Len(data) % Block \in 0..(Block - 1)
      /\ Len(data) = Whole(data) + (Len(data) % Block)
  <2>1. Len(data) \in Nat
    BY LenProperties
  <2>2. /\ Len(data) % Block \in 0..(Block - 1)
        /\ Len(data) \div Block \in Nat
        /\ Len(data) = Whole(data) + (Len(data) % Block)
    BY <2>1, IndexRange DEF Whole
  <2>3. Whole(data) \in Nat
    BY <2>2, BlockPositive DEF Whole
  <2>. QED BY <2>1, <2>2, <2>3
<1>2. Whole(data) \in 0..Len(data) /\ Len(data) - Whole(data) = Len(data) % Block
  BY <1>1, BlockPositive
<1>3. /\ SubSeq(data, 1, Whole(data)) \in Seq(S) /\ Leftover(data) \in Seq(S)
      /\ Len(Leftover(data)) = Len(data) % Block
      /\ SubSeq(data, 1, Whole(data)) \o Leftover(data) = data
  BY <1>2, Cut DEF Leftover
<1>4. Leftover(data) \in Seq(S) /\ Len(Leftover(data)) <= Block
  BY <1>1, <1>3, BlockPositive
<1>5. /\ Copy(b, 0, Leftover(data)) \in Buffers(S)
      /\ SubSeq(Copy(b, 0, Leftover(data)), 1, Len(Leftover(data))) = Leftover(data)
  BY <1>4, CopyToFront
<1>. QED BY <1>3, <1>5

(* update() adds the data to what the object has been given, and loses none. *)
LEMMA UpdateAppends ==
  ASSUME NEW S, NEW c \in Objects(S), NEW data \in Seq(S)
  PROVE  /\ Update(c, data) \in Objects(S)
         /\ Update(c, data).count = c.count + Len(data)
         /\ Stream(Update(c, data)) = Stream(c) \o data
<1>. DEFINE k     == c.count
            b     == c.buffer
            h     == c.hashed
            index == Index(c)
            held  == SubSeq(b, 1, index)
            n     == Len(data)
<1>1. /\ k \in Nat /\ b \in Buffers(S) /\ h \in Seq(S)
      /\ index = k % Block /\ index \in 0..(Block - 1)
      /\ n \in Nat /\ k + n \in Nat
  <2>1. k \in Nat /\ b \in Buffers(S) /\ h \in Seq(S)
    BY DEF Objects, k, b, h
  <2>2. n \in Nat
    BY LenProperties
  <2>3. index = k % Block
    BY DEF Index, k
  <2>4. index \in 0..(Block - 1)
    BY <2>1, <2>3, IndexRange
  <2>. QED BY <2>1, <2>2, <2>3, <2>4
<1>. HIDE DEF k, b, h, index
<1>2. held \in Seq(S) /\ Stream(c) = h \o held /\ Stream(c) \in Seq(S)
  <2>1. held \in Seq(S)
    <3>1. 1 \in Int /\ index \in Int /\ \A i \in 1..index : b[i] \in S
      BY <1>1, BlockPositive DEF Buffers
    <3>. QED BY <3>1, SubSeqProperties
  <2>2. Stream(c) = h \o held
    BY DEF Stream, index, held, b, h
  <2>. QED BY <1>1, <2>1, <2>2, ConcatProperties
<1>. HIDE DEF held, n
<1>3. CASE index > 0 /\ n < Block - index
  <2>. DEFINE new == Copy(b, index, data)
  <2>1. Update(c, data) = [c EXCEPT !.count = k + n, !.buffer = new]
    BY <1>3 DEF Update, index, n, k, b, h
  <2>2. index \in 0..Block /\ index + n <= Block /\ index + n < Block
    BY <1>1, <1>3, BlockPositive
  <2>3. /\ new \in Buffers(S)
        /\ SubSeq(new, 1, index + n) = held \o data
    <3>1. index + Len(data) <= Block
      BY <2>2 DEF n
    <3>2. /\ Copy(b, index, data) \in Buffers(S)
          /\ SubSeq(Copy(b, index, data), 1, index + Len(data)) = SubSeq(b, 1, index) \o data
      <4>1. b \in Buffers(S) /\ index \in 0..Block
        BY <1>1, <2>2
      <4>. QED BY <3>1, <4>1, CopyAppends
    <3>. QED BY <3>2 DEF n, held
  <2>. HIDE DEF new
  <2>4. /\ Update(c, data) = [count |-> k + n, buffer |-> new, hashed |-> h]
        /\ Update(c, data) \in Objects(S)
    <3>1. c = [count |-> k, buffer |-> b, hashed |-> h]
      BY DEF Objects, k, b, h
    <3>2. Update(c, data) = [count |-> k + n, buffer |-> new, hashed |-> h]
      BY <2>1, <3>1
    <3>. QED BY <1>1, <2>3, <3>2 DEF Objects
  <2>5. (k + n) % Block = index + n
    BY <1>1, <2>2, IndexOfSum
  <2>6. Stream(Update(c, data)) = h \o (held \o data)
    <3>1. /\ Update(c, data).hashed = h /\ Update(c, data).buffer = new
          /\ Index(Update(c, data)) = index + n
      BY <2>4, <2>5 DEF Index
    <3>. QED BY <2>3, <3>1 DEF Stream
  <2>7. (h \o held) \o data = h \o (held \o data)
    BY <1>1, <1>2, ConcatAssociative, SMTT(20)
  <2>. QED BY <1>2, <2>4, <2>6, <2>7 DEF n, k
<1>4. CASE ~(index > 0 /\ n < Block - index)
  <2>. DEFINE part  == IF index = 0 THEN 0 ELSE Block - index
              first == SubSeq(data, 1, part)
              rest  == SubSeq(data, part + 1, Len(data))
              most  == SubSeq(rest, 1, Whole(rest))
              tail  == Leftover(rest)
              full  == IF index = 0 THEN << >> ELSE Copy(b, index, first)
              base  == IF index = 0 THEN b ELSE full
              new   == Copy(base, 0, tail)
              c2    == Update(c, data)
  <2>1. c2 = [count  |-> k + n, buffer |-> new, hashed |-> (h \o full) \o most]
    <3>1. ~(index > 0 /\ Len(data) < part)
      BY <1>4 DEF n
    <3>. QED BY <3>1 DEF Update, Whole, Leftover, index, n, k, b, h
  <2>. HIDE DEF c2
  <2>2. part \in 0..n /\ part \in Nat
    BY <1>1, <1>4, BlockPositive
  <2>3. part = IF index = 0 THEN 0 ELSE Block - index
    OBVIOUS
  <2>. HIDE DEF part
  <2>4. /\ rest \in Seq(S) /\ Len(rest) = n - part
        /\ first \in Seq(S) /\ Len(first) = part
        /\ first \o rest = data
    BY <2>2, Cut DEF n
  <2>. HIDE DEF rest
  <2>5. (k + n) % Block = Len(rest) % Block
    <3>1. CASE index = 0
      <4>1. (k + n) % Block = n % Block /\ n - part = n
        BY <1>1, <2>3, <3>1, IndexOfSum
      <4>. QED BY <2>4, <4>1
    <3>2. CASE index # 0
      <4>1. index + n >= Block
        BY <1>1, <1>4, <3>2, BlockPositive
      <4>2. (k + n) % Block = (n - (Block - index)) % Block
        BY <1>1, <4>1, IndexOfSum
      <4>. QED BY <2>3, <2>4, <3>2, <4>2
    <3>. QED BY <3>1, <3>2
  <2>6. /\ full \in Seq(S) /\ base \in Buffers(S)
        /\ full = held \o first
    <3>1. CASE index = 0
      <4>1. held = << >> /\ first = << >>
        BY <2>3, <3>1, SubSeqEmpty DEF held
      <4>2. << >> \in Seq(S) /\ << >> \o << >> = << >>
        BY EmptySeq, ConcatEmptySeq
      <4>. QED BY <1>1, <3>1, <4>1, <4>2
    <3>2. CASE index # 0
      <4>1. full = Copy(b, index, first) /\ base = full
        BY <3>2
      <4>. HIDE DEF first, full, base
      <4>2. index \in 0..Block /\ index + Len(first) <= Block /\ index + Len(first) = Block
        BY <1>1, <2>3, <2>4, <3>2, BlockPositive
      <4>3. /\ Copy(b, index, first) \in Buffers(S)
            /\ SubSeq(Copy(b, index, first), 1, index + Len(first)) = SubSeq(b, 1, index) \o first
        <5>1. b \in Buffers(S) /\ first \in Seq(S)
          BY <1>1, <2>4
        <5>2. index \in 0..Block /\ index + Len(first) <= Block
          BY <4>2
        <5>. QED BY <5>1, <5>2, CopyAppends
      <4>4. full \in Buffers(S) /\ SubSeq(full, 1, Block) = held \o first
        BY <4>1, <4>2, <4>3 DEF held
      <4>5. full \in Seq(S) /\ Len(full) = Block
        <5>1. full \in Seq(S)
          BY <4>4, BlockPositive, SeqDef DEF Buffers
        <5>2. DOMAIN full = 1..Block /\ DOMAIN full = 1..Len(full) /\ Len(full) \in Nat
          BY <4>4, <5>1, LenProperties DEF Buffers
        <5>. QED BY <5>1, <5>2, BlockPositive
      <4>6. SubSeq(full, 1, Len(full)) = full
        BY <4>5, SubSeqFull
      <4>. QED BY <4>1, <4>4, <4>5, <4>6
    <3>. QED BY <3>1, <3>2
  <2>. HIDE DEF first, full, base
  <2>7. /\ new \in Buffers(S) /\ most \in Seq(S) /\ tail \in Seq(S)
        /\ SubSeq(new, 1, Len(rest) % Block) = tail
        /\ most \o tail = rest
    <3>1. rest \in Seq(S) /\ base \in Buffers(S)
      BY <2>4, <2>6
    <3>. QED BY <3>1, KeepRest
  <2>. HIDE DEF new, most, tail
  <2>8. /\ h \o full \in Seq(S) /\ h \o held \in Seq(S) /\ (h \o full) \o most \in Seq(S)
    <3>1. h \o full \in Seq(S) /\ h \o held \in Seq(S)
      BY <1>1, <1>2, <2>6, ConcatProperties
    <3>. QED BY <2>7, <3>1, ConcatProperties
  <2>9. /\ c2 \in Objects(S)
        /\ c2.count = k + n /\ c2.hashed = (h \o full) \o most
        /\ SubSeq(c2.buffer, 1, Index(c2)) = tail
    <3>1. c2 \in Objects(S)
      BY <1>1, <2>1, <2>7, <2>8 DEF Objects
    <3>2. /\ c2.count = k + n /\ c2.hashed = (h \o full) \o most /\ c2.buffer = new
      BY <2>1
    <3>3. Index(c2) = Len(rest) % Block
      BY <2>5, <3>2 DEF Index
    <3>. QED BY <2>7, <3>1, <3>2, <3>3
  <2>10. Stream(c2) = (h \o held) \o data
    <3>. DEFINE hf == h \o full
                hh == h \o held
    <3>1. Stream(c2) = (hf \o most) \o tail
      BY <2>9 DEF Stream
    <3>2. hf = hh \o first
      <4>1. h \in Seq(S) /\ held \in Seq(S) /\ first \in Seq(S)
        BY <1>1, <1>2, <2>4
      <4>2. (h \o held) \o first = h \o (held \o first)
        BY <4>1, ConcatAssociative, SMTT(20)
      <4>. QED BY <2>6, <4>2
    <3>3. hf \in Seq(S) /\ hh \in Seq(S) /\ most \in Seq(S) /\ tail \in Seq(S)
      BY <2>7, <2>8
    <3>. HIDE DEF hf, hh
    <3>4. (hf \o most) \o tail = hf \o (most \o tail)
      BY <3>3, ConcatAssociative, SMTT(20)
    <3>5. (hh \o first) \o rest = hh \o (first \o rest)
      <4>1. hh \in Seq(S) /\ first \in Seq(S) /\ rest \in Seq(S)
        BY <2>4, <3>3
      <4>. QED BY <4>1, ConcatAssociative
    <3>6. Stream(c2) = hh \o data
      BY <2>4, <2>7, <3>1, <3>2, <3>4, <3>5
    <3>. QED BY <3>6 DEF hh
  <2>. QED BY <1>2, <2>9, <2>10 DEF n, k, c2
<1>. QED BY <1>3, <1>4

-----------------------------------------------------------------------------
(* The message and its padding. *)

(* A piece of the message.                                                   *)
LEMMA PieceIsData ==
  ASSUME NEW from \in Nat, NEW len \in Nat
  PROVE  /\ Piece(from, len) \in Seq(Data) /\ Len(Piece(from, len)) = len
         /\ \A i \in 1..len : Piece(from, len)[i] = <<"m", from + i>>
<1>1. \A i \in 1..len : <<"m", from + i>> \in Data
  BY DEF Data
<1>2. Piece(from, len) \in [1..len -> Data]
  BY <1>1 DEF Piece
<1>3. Piece(from, len) \in Seq(Data)
  BY <1>2, SeqDef
<1>4. DOMAIN Piece(from, len) = 1..len
  BY DEF Piece
<1>5. Len(Piece(from, len)) = len
  BY <1>3, <1>4, LenProperties
<1>. QED BY <1>3, <1>5 DEF Piece

(* The next piece continues the message.                                     *)
LEMMA MessageGrows ==
  ASSUME NEW m \in Nat, NEW len \in Nat
  PROVE  Piece(0, m) \o Piece(m, len) = Piece(0, m + len)
<1>. DEFINE p == Piece(0, m)
            q == Piece(m, len)
            r == Piece(0, m + len)
<1>1. /\ p \in Seq(Data) /\ Len(p) = m
      /\ q \in Seq(Data) /\ Len(q) = len
      /\ r \in Seq(Data) /\ Len(r) = m + len
  <2>1. 0 \in Nat /\ m + len \in Nat
    OBVIOUS
  <2>. QED BY <2>1, PieceIsData
<1>2. /\ p \o q \in Seq(Data) /\ Len(p \o q) = m + len
      /\ \A i \in 1..(m + len) : (p \o q)[i] = IF i <= m THEN p[i] ELSE q[i - m]
  <2>. HIDE DEF p, q, r
  <2>1. /\ p \o q \in Seq(Data) /\ Len(p \o q) = Len(p) + Len(q)
        /\ \A i \in 1..(Len(p) + Len(q)) :
             (p \o q)[i] = IF i <= Len(p) THEN p[i] ELSE q[i - Len(p)]
    BY <1>1, ConcatProperties
  <2>. QED BY <1>1, <2>1
<1>3. ASSUME NEW i \in 1..(m + len)
      PROVE  (p \o q)[i] = r[i]
  <2>1. r[i] = <<"m", 0 + i>> /\ 0 + i = i
    BY DEF Piece
  <2>2. i <= m => p[i] = <<"m", 0 + i>>
    BY DEF Piece
  <2>3. i > m => i - m \in 1..len
    OBVIOUS
  <2>4. i > m => q[i - m] = <<"m", m + (i - m)>> /\ m + (i - m) = i
    BY <2>3 DEF Piece
  <2>5. (p \o q)[i] = IF i <= m THEN p[i] ELSE q[i - m]
    BY <1>2
  <2>. HIDE DEF p, q, r
  <2>. QED BY <2>1, <2>2, <2>4, <2>5
<1>. HIDE DEF p, q, r
<1>4. p \o q = r
  BY <1>1, <1>2, <1>3, SeqEqual
<1>. QED BY <1>4 DEF p, q, r

(* The padding of finalize(): a byte 128 and zeros up to 56 in a block.      *)
Padding(c) == [i \in 1..PadLen(c) |-> IF i = 1 THEN <<"pad", 128>> ELSE <<"pad", 0>>]

(* The padding has the length that RFC 1321 asks for.                        *)
LEMMA PadLength ==
  ASSUME NEW c, c.count \in Nat
  PROVE  /\ PadLen(c) \in 1..Block
         /\ (c.count + PadLen(c)) % Block = 56
         /\ (c.count + PadLen(c) + 8) % Block = 0
         /\ PadLen(c) - 1 = CHOOSE z \in 0..(Block - 1) : (c.count + 1 + z) % Block = 56
<1>. DEFINE n == c.count
<1>1. PICK q \in Nat, r \in 0..63 : n = 64 * q + r /\ r = n % 64
  <2>1. n \in Nat
    OBVIOUS
  <2>. HIDE DEF n
  <2>2. n \div 64 \in Nat /\ n % 64 \in 0..63 /\ n = 64 * (n \div 64) + (n % 64)
    BY <2>1
  <2>. QED BY <2>2
<1>2. PadLen(c) = IF r < 56 THEN 56 - r ELSE 120 - r
  BY <1>1 DEF PadLen, Index, Block
<1>. DEFINE p == PadLen(c)
<1>. HIDE DEF n, p
<1>3. p \in 1..64 /\ (n + p = 64 * q + 56 \/ n + p = 64 * (q + 1) + 56)
  BY <1>1, <1>2 DEF p
<1>4. (n + p) % 64 = 56 /\ (n + p + 8) % 64 = 0
  BY <1>1, <1>3
<1>5. p - 1 \in 0..63 /\ (n + 1 + (p - 1)) % 64 = 56
  BY <1>1, <1>3
<1>6. \A z \in 0..63 : (n + 1 + z) % 64 = 56 => z = p - 1
  BY <1>1, <1>3
<1>7. p - 1 = CHOOSE z \in 0..63 : (n + 1 + z) % 64 = 56
  BY <1>5, <1>6
<1>. QED BY <1>3, <1>4, <1>7 DEF Block, n, p

(* The parts of the padding.                                                 *)
First == << <<"pad", 128>> >>

(* The padding is one byte 0x80 and then zeros.                              *)
LEMMA PaddingParts ==
  ASSUME NEW c, c.count \in Nat
  PROVE  /\ First \in Seq(Data) /\ Zeros(PadLen(c) - 1) \in Seq(Data)
         /\ Padding(c) \in Seq(Data) /\ Len(Padding(c)) = PadLen(c)
         /\ Padding(c) = First \o Zeros(PadLen(c) - 1)
<1>1. PadLen(c) \in Nat /\ PadLen(c) >= 1
  <2>1. PadLen(c) \in 1..Block
    BY PadLength
  <2>. QED BY <2>1, BlockPositive
<1>. DEFINE n == PadLen(c)
            z == Zeros(n - 1)
            p == Padding(c)
<1>2. <<"pad", 0>> \in Data /\ <<"pad", 128>> \in Data
  BY DEF Data
<1>3. First \in Seq(Data) /\ Len(First) = 1 /\ First[1] = <<"pad", 128>>
  BY <1>2 DEF First
<1>4. z \in Seq(Data) /\ Len(z) = n - 1 /\ \A i \in 1..(n - 1) : z[i] = <<"pad", 0>>
  <2>. HIDE DEF n
  <2>1. z \in [1..(n - 1) -> Data] /\ n - 1 \in Nat
    BY <1>1, <1>2 DEF Zeros, n
  <2>2. z \in Seq(Data)
    BY <2>1, SeqDef
  <2>3. DOMAIN z = 1..(n - 1)
    BY <2>1
  <2>4. Len(z) = n - 1
    BY <2>1, <2>2, <2>3, LenProperties
  <2>. QED BY <2>2, <2>4 DEF Zeros
<1>5. p \in Seq(Data) /\ Len(p) = n
  <2>. HIDE DEF n
  <2>1. p \in [1..n -> Data] /\ n \in Nat
    BY <1>1, <1>2 DEF Padding, n
  <2>2. p \in Seq(Data)
    BY <2>1, SeqDef
  <2>3. DOMAIN p = 1..n
    BY <2>1
  <2>. QED BY <2>1, <2>2, <2>3, LenProperties
<1>6. \A i \in 1..n : p[i] = IF i = 1 THEN <<"pad", 128>> ELSE <<"pad", 0>>
  BY DEF Padding
<1>7. n \in Nat /\ n >= 1
  BY <1>1
<1>. HIDE DEF n, z, p
<1>8. /\ First \o z \in Seq(Data) /\ Len(First \o z) = n
      /\ \A i \in 1..n : (First \o z)[i] = IF i <= 1 THEN First[i] ELSE z[i - 1]
  <2>1. /\ First \o z \in Seq(Data) /\ Len(First \o z) = Len(First) + Len(z)
        /\ \A i \in 1..(Len(First) + Len(z)) :
             (First \o z)[i] = IF i <= Len(First) THEN First[i] ELSE z[i - Len(First)]
    BY <1>3, <1>4, ConcatProperties
  <2>2. Len(First) + Len(z) = n
    BY <1>3, <1>4, <1>7
  <2>. QED BY <1>3, <2>1, <2>2
<1>9. ASSUME NEW i \in 1..n
      PROVE  p[i] = (First \o z)[i]
  <2>1. CASE i = 1
    BY <1>3, <1>6, <1>8, <2>1
  <2>2. CASE i # 1
    <3>1. i - 1 \in 1..(n - 1) /\ ~(i <= 1)
      BY <1>7, <2>2
    <3>2. z[i - 1] = <<"pad", 0>>
      BY <1>4, <3>1
    <3>3. (First \o z)[i] = z[i - 1]
      BY <1>8, <3>1
    <3>. QED BY <1>6, <2>2, <3>2, <3>3
  <2>. QED BY <2>1, <2>2
<1>10. p = First \o z
  BY <1>5, <1>8, <1>9, SeqEqual
<1>. QED BY <1>3, <1>4, <1>5, <1>10 DEF n, z, p

(* The bit count has eight bytes.                                            *)
LEMMA BitCountIsData ==
  ASSUME NEW n \in Nat
  PROVE  BitCount(n) \in Seq(Data) /\ Len(BitCount(n)) = 8
<1>1. BitCount(n) \in [1..8 -> Data]
  BY DEF BitCount, Data
<1>2. BitCount(n) \in Seq(Data)
  BY <1>1, SeqDef
<1>3. DOMAIN BitCount(n) = 1..8
  BY <1>1
<1>. QED BY <1>2, <1>3, LenProperties

(* finalize() has transform() see the padded message, and all of it.         *)
LEMMA FinalizePads ==
  ASSUME NEW c \in Objects(Data), Stream(c) = Piece(0, c.count)
  PROVE  /\ Finalize(c) \in Objects(Data)
         /\ Finalize(c).hashed = Padded(c.count)
<1>. DEFINE n  == c.count
            m  == Piece(0, n)
            z  == Zeros(PadLen(c) - 1)
            p  == Padding(c)
            b  == BitCount(n)
            c1 == Update(c, p)
            c2 == Update(c1, b)
<1>1. n \in Nat
  BY DEF Objects
<1>2. /\ First \in Seq(Data) /\ z \in Seq(Data)
      /\ p \in Seq(Data) /\ Len(p) = PadLen(c) /\ p = First \o z
  BY <1>1, PaddingParts
<1>3. m \in Seq(Data) /\ b \in Seq(Data) /\ Len(b) = 8
  <2>1. 0 \in Nat
    OBVIOUS
  <2>. QED BY <1>1, <2>1, PieceIsData, BitCountIsData
<1>4. c1 \in Objects(Data) /\ c1.count = n + PadLen(c) /\ Stream(c1) = m \o p
  <2>1. c1 \in Objects(Data) /\ c1.count = n + Len(p) /\ Stream(c1) = Stream(c) \o p
    <3>1. p \in Seq(Data)
      BY <1>2
    <3>. HIDE DEF p
    <3>. QED BY <3>1, UpdateAppends
  <2>. QED BY <1>2, <2>1
<1>5. c2 \in Objects(Data) /\ c2.count = n + PadLen(c) + 8 /\ Stream(c2) = (m \o p) \o b
  <2>1. c2 \in Objects(Data) /\ c2.count = c1.count + Len(b) /\ Stream(c2) = Stream(c1) \o b
    <3>1. b \in Seq(Data) /\ c1 \in Objects(Data)
      BY <1>3, <1>4
    <3>. HIDE DEF b, c1
    <3>. QED BY <3>1, UpdateAppends
  <2>. QED BY <1>3, <1>4, <2>1
<1>6. Finalize(c) = c2
  BY DEF Finalize, Padding
<1>7. Stream(c2) = c2.hashed
  <2>1. Index(c2) = 0
    BY <1>1, <1>5, PadLength DEF Index
  <2>2. SubSeq(c2.buffer, 1, 0) = << >>
    BY SubSeqEmpty
  <2>3. c2.hashed \in Seq(Data)
    BY <1>5 DEF Objects
  <2>4. c2.hashed \o << >> = c2.hashed
    <3>. DEFINE h == c2.hashed
    <3>1. h \in Seq(Data)
      BY <2>3
    <3>. HIDE DEF h
    <3>2. h \o << >> = h
      BY <3>1, ConcatEmptySeq
    <3>. QED BY <3>2 DEF h
  <2>. QED BY <2>1, <2>2, <2>4 DEF Stream
<1>8. Padded(n) = ((m \o First) \o z) \o b
  <2>1. PadLen(c) - 1 = CHOOSE x \in 0..(Block - 1) : (n + 1 + x) % Block = 56
    BY <1>1, PadLength
  <2>. QED BY <2>1 DEF Padded, First
<1>9. (m \o First) \o z = m \o p
  <2>1. m \in Seq(Data) /\ First \in Seq(Data) /\ z \in Seq(Data)
    BY <1>2, <1>3
  <2>. HIDE DEF m, z, p
  <2>2. (m \o First) \o z = m \o (First \o z)
    BY <2>1, ConcatAssociative
  <2>. QED BY <1>2, <2>2
<1>. QED BY <1>5, <1>6, <1>7, <1>8, <1>9

-----------------------------------------------------------------------------
(* The stream, and the padded message once finalize() has been called.       *)
StreamInv ==
  /\ md5 \in Objects(Data) /\ fed \in Nat /\ final \in BOOLEAN
  /\ ~final => md5.count = fed /\ Stream(md5) = Piece(0, fed)
  /\ final => md5.hashed = Padded(fed)

(* An object that was reset has been given nothing.                          *)
LEMMA FreshStream == Fresh \in Objects(Data) /\ Fresh.count = 0 /\ Stream(Fresh) = Piece(0, 0)
<1>1. Fresh \in Objects(Data)
  <2>1. Zeros(Block) \in Buffers(Data)
    BY DEF Zeros, Buffers, Data
  <2>2. << >> \in Seq(Data)
    BY EmptySeq
  <2>. QED BY <2>1, <2>2 DEF Fresh, Objects
<1>2. Index(Fresh) = 0
  BY DEF Index, Fresh, Block
<1>3. SubSeq(Fresh.buffer, 1, 0) = << >> /\ Fresh.hashed = << >>
  BY SubSeqEmpty DEF Fresh
<1>4. << >> \o << >> = << >>
  BY EmptySeq, ConcatEmptySeq
<1>5. Piece(0, 0) = << >>
  BY DEF Piece
<1>. QED BY <1>1, <1>2, <1>3, <1>4, <1>5 DEF Stream, Fresh

(* Every step continues the stream, ends it or starts anew.                  *)
LEMMA StreamStep == StreamInv /\ [Md5Next]_md5vars => StreamInv'
<1>. SUFFICES ASSUME StreamInv, [Md5Next]_md5vars
              PROVE  StreamInv'
  OBVIOUS
<1>1. ASSUME NEW len \in PieceLens, UpdateMd5(len)
      PROVE  StreamInv'
  <2>1. len \in Nat /\ fed \in Nat /\ md5 \in Objects(Data) /\ 0 \in Nat
    BY Md5Assumption DEF StreamInv
  <2>2. /\ ~final /\ final' = final /\ fed' = fed + len
        /\ md5' = Update(md5, Piece(fed, len))
    BY <1>1 DEF UpdateMd5
  <2>3. Piece(fed, len) \in Seq(Data) /\ Len(Piece(fed, len)) = len
    BY <2>1, PieceIsData
  <2>4. /\ Update(md5, Piece(fed, len)) \in Objects(Data)
        /\ Update(md5, Piece(fed, len)).count = md5.count + Len(Piece(fed, len))
        /\ Stream(Update(md5, Piece(fed, len))) = Stream(md5) \o Piece(fed, len)
    BY <2>1, <2>3, UpdateAppends
  <2>5. Piece(0, fed) \o Piece(fed, len) = Piece(0, fed + len)
    BY <2>1, MessageGrows
  <2>6. Stream(md5)' = Stream(Update(md5, Piece(fed, len)))
    BY <2>2 DEF Stream, Index
  <2>7. Stream(md5)' = Piece(0, fed + len)
    BY <2>2, <2>4, <2>5, <2>6 DEF StreamInv
  <2>8. md5' \in Objects(Data) /\ md5'.count = fed + len
    BY <2>2, <2>3, <2>4 DEF StreamInv
  <2>. QED BY <2>1, <2>2, <2>7, <2>8 DEF StreamInv
<1>2. CASE Hex
  <2>1. /\ ~final /\ final' = TRUE /\ fed' = fed /\ md5' = Finalize(md5)
    BY <1>2 DEF Hex
  <2>2. /\ Finalize(md5) \in Objects(Data)
        /\ Finalize(md5).hashed = Padded(md5.count)
    BY <2>1, FinalizePads DEF StreamInv
  <2>. QED BY <2>1, <2>2 DEF StreamInv
<1>3. CASE ResetMd5
  BY <1>3, FreshStream DEF ResetMd5, StreamInv, Stream, Index
<1>4. CASE UNCHANGED md5vars
  BY <1>4 DEF md5vars, StreamInv, Stream, Index
<1>. QED BY <1>1, <1>2, <1>3, <1>4 DEF Md5Next

(* The stream is what has been fed to it in every reachable state.           *)
THEOREM StreamInvariant == Md5Init /\ [][Md5Next]_md5vars => []StreamInv
<1>1. Md5Init => StreamInv
  <2>. SUFFICES ASSUME Md5Init
                PROVE  StreamInv
    OBVIOUS
  <2>1. md5 = Fresh /\ fed = 0 /\ final = FALSE
    BY DEF Md5Init
  <2>. QED BY <2>1, FreshStream DEF StreamInv
<1>. QED BY <1>1, StreamStep, PTL

(* However the message is cut, no byte of it is lost, repeated or stale.     *)
THEOREM NoByteLost == Md5Init /\ [][Md5Next]_md5vars => []NothingLost
<1>1. StreamInv => NothingLost
  BY DEF StreamInv, NothingLost, Stream
<1>. QED BY <1>1, StreamInvariant, PTL

(* The digest is that of the whole message, padded as RFC 1321 asks for.     *)
THEOREM DigestIsRight == Md5Init /\ [][Md5Next]_md5vars => []DigestIsOfMessage
<1>1. StreamInv => DigestIsOfMessage
  BY DEF StreamInv, DigestIsOfMessage
<1>. QED BY <1>1, StreamInvariant, PTL
=============================================================================
