-------------------------- MODULE HttpUploadProofs --------------------------
(***************************************************************************)
(* Proofs about HttpUpload, for any number of requests, names, seconds and *)
(* pieces, and every combination of disk faults.                           *)
(***************************************************************************)
EXTENDS HttpUpload, SequenceTheorems, TLAPS

Ino(r) == state[r].inode

(* Contents and buffers are sequences of units, and what is in the buffer    *)
(* and before it came with the pieces so far.                                *)
TypeInv ==
  /\ TypeOK
  /\ data \in [Requests -> Seq(Units)]
  /\ sent \in [Requests -> Seq(Units)]
  /\ \A r \in Requests : state[r].pos + Len(state[r].buf) <= state[r].pieces

(* A FILE is open only before the answer, and only the answer sets reply.    *)
PhaseInv ==
  \A r \in Requests :
    /\ Open(r) => state[r].phase \in {"receiving", "complete", "broken"} /\ Tmp(r) \in Temps
    /\ ~Open(r) => state[r].pos = 0
    /\ state[r].phase # "done" => state[r].reply = 0
    /\ state[r].phase = "free" => Tmp(r) = NoFile /\ state[r].pieces = 0

(* An inode has one path.  All that have opened it had it by the temporary   *)
(* path of the request that created it.                                      *)
DirInv ==
  /\ \A p, q \in Paths : dir[p] # NoFile /\ dir[p] = dir[q] => p = q
  /\ \A p \in Paths : dir[p] # NoFile => Tmp(dir[p]) # NoFile
  /\ \A t \in Temps : dir[t] # NoFile => Tmp(dir[t]) = t
  /\ \A r \in Requests : Open(r) => Tmp(Ino(r)) = Tmp(r)
  /\ \A i \in Requests : opener[i] # i => Tmp(i) # NoFile /\ Tmp(opener[i]) = Tmp(i)
  /\ \A p \in Paths : dir[p] # NoFile /\ Open(opener[dir[p]]) => Ino(opener[dir[p]]) = dir[p]

(* Two open FILEs share a temporary path only if it is spoilt.  Otherwise    *)
(* the path leads to the inode of the FILE, which is no firmware file.       *)
SharedInv ==
  /\ \A q, r \in Requests : q # r /\ Open(q) /\ Open(r) /\ Tmp(q) = Tmp(r) => Tmp(r) \in spoilt
  /\ \A r \in Requests : Open(r) /\ Tmp(r) \notin spoilt => dir[Tmp(r)] = Ino(r) /\ opener[Ino(r)] = r
  /\ \A n \in Names, r \in Requests : Open(r) /\ dir[n] = Ino(r) => Tmp(r) \in spoilt

(* What has been brought is in the inode and the buffer, in this order.      *)
BytesInv ==
  \A r \in Requests : Open(r) /\ ~Spoilt(r) =>
    /\ state[r].buf # << >> \/ serving => state[r].pos = Len(data[Ino(r)])
    /\ data[Ino(r)] \o state[r].buf = sent[r]

(* A temporary file is that of an open FILE or of an answer 500.             *)
TmpInv ==
  \A t \in Temps : dir[t] # NoFile =>
    \E r \in Requests : Tmp(r) = t /\ (Open(r) \/ state[r].reply = 500)

HttpInv ==
  TypeInv /\ PhaseInv /\ DirInv /\ SharedInv /\ BytesInv /\ FileIsWholeUpload /\ TmpInv

-----------------------------------------------------------------------------
(* write(). *)

Buffers == UNION {[1..n -> Requests \X (1..MaxPieces)] : n \in 0..MaxPieces}

(* Units are appended in any grouping.                                       *)
LEMMA UnitsConcat ==
  ASSUME NEW a \in Seq(Units), NEW b \in Seq(Units), NEW c \in Seq(Units)
  PROVE  (a \o b) \o c = a \o (b \o c)
BY ConcatAssociative

(* A buffer is a sequence of units.                                          *)
LEMMA BufferIsSeq ==
  ASSUME NEW b \in Buffers
  PROVE  b \in Seq(Requests \X (1..MaxPieces)) /\ b \in Seq(Units) /\ Len(b) \in 0..MaxPieces
<1>1. PICK n \in 0..MaxPieces : b \in [1..n -> Requests \X (1..MaxPieces)]
  BY DEF Buffers
<1>2. n \in Nat
  BY HttpAssumption
<1>3. b \in Seq(Requests \X (1..MaxPieces))
  BY <1>1, <1>2, SeqDef
<1>4. DOMAIN b = 1..n
  BY <1>1
<1>5. Len(b) = n
  BY <1>2, <1>3, <1>4, LenProperties
<1>6. b \in Seq(Units)
  BY <1>3, SeqMonotonic DEF Units
<1>. QED BY <1>1, <1>3, <1>5, <1>6

(* A short enough sequence of units is a buffer.                             *)
LEMMA SeqIsBuffer ==
  ASSUME NEW b \in Seq(Requests \X (1..MaxPieces)), Len(b) <= MaxPieces
  PROVE  b \in Buffers
<1>1. Len(b) \in 0..MaxPieces /\ b \in [1..Len(b) -> Requests \X (1..MaxPieces)]
  BY LenProperties, HttpAssumption
<1>. QED BY <1>1 DEF Buffers

(* No bytes are a buffer.                                                    *)
LEMMA EmptyBuffer == << >> \in Buffers /\ Len(<< >>) = 0
<1>1. << >> \in Seq(Requests \X (1..MaxPieces)) /\ Len(<< >>) = 0
  OBVIOUS
<1>2. Len(<< >>) <= MaxPieces
  BY <1>1, HttpAssumption
<1>. QED BY <1>1, <1>2, SeqIsBuffer

(* Whatever is written where, a content stays one.                           *)
LEMMA WriteAtType ==
  ASSUME NEW d \in Seq(Units), NEW pos \in Nat, NEW u \in Seq(Units)
  PROVE  WriteAt(d, pos, u) \in Seq(Units)
<1>1. Len(d) \in Nat /\ Len(u) \in Nat /\ \A k \in 1..Len(d) : d[k] \in Units
  BY LenProperties, ElementOfSeq
<1>2. \A k \in 1..Len(u) : u[k] \in Units
  BY ElementOfSeq
<1>. DEFINE end == pos + Len(u)
            m   == IF u # << >> /\ end > Len(d) THEN end ELSE Len(d)
            e(k) == IF k \in (pos + 1)..end THEN u[k - pos] ELSE IF k <= Len(d) THEN d[k] ELSE Hole
<1>3. m \in Nat /\ end \in Nat
  BY <1>1
<1>4. \A k \in 1..m : e(k) \in Units
  BY <1>1, <1>2 DEF Units
<1>5. WriteAt(d, pos, u) = [k \in 1..m |-> e(k)]
  BY DEF WriteAt
<1>. HIDE DEF e, m
<1>6. WriteAt(d, pos, u) \in [1..m -> Units]
  BY <1>4, <1>5
<1>. QED BY <1>3, <1>6, SeqDef

(* What is written at the end is added.                                      *)
LEMMA WriteAtEnd ==
  ASSUME NEW d \in Seq(Units), NEW u \in Seq(Units)
  PROVE  WriteAt(d, Len(d), u) = d \o u
<1>1. Len(d) \in Nat /\ Len(u) \in Nat /\ (u # << >> => Len(u) > 0) /\ (u = << >> => Len(u) = 0)
  BY LenProperties, EmptySeq
<1>. DEFINE w == WriteAt(d, Len(d), u)
            m == Len(d) + Len(u)
<1>2. w = [k \in 1..m |-> IF k \in (Len(d) + 1)..m THEN u[k - Len(d)]
                          ELSE IF k <= Len(d) THEN d[k] ELSE Hole]
  <2>1. (IF u # << >> /\ m > Len(d) THEN m ELSE Len(d)) = m
    BY <1>1
  <2>. QED BY <2>1 DEF WriteAt
<1>3. w \in Seq(Units)
  BY <1>1, WriteAtType
<1>4. m \in Nat
  BY <1>1
<1>. HIDE DEF w
<1>5. DOMAIN w = 1..m /\ Len(w) = m
  <2>1. DOMAIN w = 1..m
    BY <1>2
  <2>. HIDE DEF m
  <2>. QED BY <2>1, <1>3, <1>4, LenProperties
<1>6. /\ d \o u \in Seq(Units) /\ Len(d \o u) = m
      /\ \A k \in 1..m : (d \o u)[k] = IF k <= Len(d) THEN d[k] ELSE u[k - Len(d)]
  BY ConcatProperties
<1>7. \A k \in 1..m : w[k] = (d \o u)[k]
  <2>. SUFFICES ASSUME NEW k \in 1..m
                PROVE  w[k] = (d \o u)[k]
    OBVIOUS
  <2>1. k \in (Len(d) + 1)..m <=> ~(k <= Len(d))
    BY <1>1
  <2>2. w[k] = IF k \in (Len(d) + 1)..m THEN u[k - Len(d)]
               ELSE IF k <= Len(d) THEN d[k] ELSE Hole
    BY <1>2
  <2>3. (d \o u)[k] = IF k <= Len(d) THEN d[k] ELSE u[k - Len(d)]
    BY <1>6
  <2>. HIDE DEF m
  <2>. QED BY <2>1, <2>2, <2>3
<1>8. w = d \o u
  <2>. HIDE DEF m
  <2>. QED BY <1>3, <1>5, <1>6, <1>7, SeqEqual
<1>. QED BY <1>8 DEF w

-----------------------------------------------------------------------------
(* Steps that change one request. *)

(* The records a request can be.                                             *)
LEMMA Records ==
  ConnectionState =
    [phase    : {"free", "receiving", "complete", "done", "broken"},
     pieces   : 0..MaxPieces,
     tmp      : Temps \union {NoFile},
     inode    : Requests \union {NoFile},
     pos      : 0..MaxPieces,
     buf      : Buffers,
     received : BOOLEAN,
     reply    : {0, 200, 400, 500}]
BY DEF ConnectionState, Buffers

(* A callback with data counts.                                              *)
LEMMA ReceivedRecord ==
  ASSUME NEW r \in Requests, state[r] \in ConnectionState, state[r].pieces < MaxPieces
  PROVE  /\ Received(r) \in ConnectionState
         /\ Received(r).pieces = state[r].pieces + 1
         /\ Received(r).phase = state[r].phase /\ Received(r).tmp = state[r].tmp
         /\ Received(r).inode = state[r].inode /\ Received(r).pos = state[r].pos
         /\ Received(r).buf = state[r].buf     /\ Received(r).reply = state[r].reply
<1>. DEFINE c == [state[r] EXCEPT !.received = TRUE]
<1>1. /\ c.pieces = state[r].pieces
      /\ c.phase = state[r].phase /\ c.tmp = state[r].tmp
      /\ c.inode = state[r].inode /\ c.pos = state[r].pos
      /\ c.buf = state[r].buf     /\ c.reply = state[r].reply
  BY Records
<1>2. c \in ConnectionState
  <2>1. PICK s \in ConnectionState : s = state[r]
    OBVIOUS
  <2>2. [s EXCEPT !.received = TRUE] \in ConnectionState
    <3>1. \E G : G = BOOLEAN
      OBVIOUS
    <3>2. PICK G : G = BOOLEAN
      BY <3>1
    <3>3. PICK v \in G : G = BOOLEAN /\ v = TRUE
      BY <3>2
    <3>4. ConnectionState =
            [phase : {"free", "receiving", "complete", "done", "broken"}, pieces : 0..MaxPieces,
             tmp : Temps \union {NoFile}, inode : Requests \union {NoFile}, pos : 0..MaxPieces,
             buf : Buffers, received : G, reply : {0, 200, 400, 500}]
      BY <3>3, Records
    <3>5. [s EXCEPT !.received = v] \in ConnectionState
      BY <3>4
    <3>. QED BY <3>3, <3>5
  <2>. QED BY <2>1, <2>2
<1>3. Received(r) = [c EXCEPT !.pieces = state[r].pieces + 1]
  BY DEF Received
<1>4. state[r].pieces + 1 \in 0..MaxPieces
  BY Records, HttpAssumption
<1>. HIDE DEF c
<1>. QED BY <1>1, <1>2, <1>3, <1>4, Records

(* handleUpload answers.                                                     *)
Answered(r, code) ==
  [state[r] EXCEPT !.phase = "done", !.reply = code, !.inode = NoFile, !.pos = 0, !.buf = << >>]

(* The record of a request that is answered.                                 *)
LEMMA AnswerRecord ==
  ASSUME NEW r \in Requests, state[r] \in ConnectionState, NEW code \in {200, 400, 500}
  PROVE  /\ Answered(r, code) \in ConnectionState
         /\ Answered(r, code).phase = "done"   /\ Answered(r, code).reply = code
         /\ Answered(r, code).inode = NoFile   /\ Answered(r, code).pos = 0
         /\ Answered(r, code).buf = << >>      /\ Answered(r, code).tmp = state[r].tmp
         /\ Answered(r, code).pieces = state[r].pieces
<1>. DEFINE a == [state[r] EXCEPT !.phase = "done"]
            b == [a EXCEPT !.reply = code]
            c == [b EXCEPT !.inode = NoFile]
            d == [c EXCEPT !.pos = 0]
            e == [d EXCEPT !.buf = << >>]
<1>1. << >> \in Buffers
  BY EmptyBuffer
<1>2. 0 \in 0..MaxPieces
  BY HttpAssumption
<1>3. Answered(r, code) = e
  BY DEF Answered
<1>4. a \in ConnectionState /\ a.phase = "done" /\ a.tmp = state[r].tmp /\ a.pieces = state[r].pieces
  BY Records
<1>. HIDE DEF a
<1>5. /\ b \in ConnectionState /\ b.phase = "done" /\ b.tmp = state[r].tmp /\ b.pieces = state[r].pieces
      /\ b.reply = code
  BY <1>4, Records
<1>. HIDE DEF b
<1>6. /\ c \in ConnectionState /\ c.phase = "done" /\ c.tmp = state[r].tmp /\ c.pieces = state[r].pieces
      /\ c.reply = code /\ c.inode = NoFile
  BY <1>5, Records
<1>. HIDE DEF c
<1>7. /\ d \in ConnectionState /\ d.phase = "done" /\ d.tmp = state[r].tmp /\ d.pieces = state[r].pieces
      /\ d.reply = code /\ d.inode = NoFile /\ d.pos = 0
  BY <1>2, <1>6, Records
<1>. HIDE DEF d
<1>8. /\ e \in ConnectionState /\ e.phase = "done" /\ e.tmp = state[r].tmp /\ e.pieces = state[r].pieces
      /\ e.reply = code /\ e.inode = NoFile /\ e.pos = 0 /\ e.buf = << >>
  BY <1>1, <1>7, Records
<1>. QED BY <1>3, <1>8

(* A step of one request leaves the others alone.                            *)
LEMMA SetOne ==
  ASSUME state \in [Requests -> ConnectionState],
         NEW r \in Requests, NEW c \in ConnectionState, Set(r, c)
  PROVE  /\ state' \in [Requests -> ConnectionState]
         /\ state'[r] = c
         /\ \A q \in Requests : q # r => state'[q] = state[q]
BY DEF Set

(* A step that moves no data and touches no open FILE.                       *)
Quiet ==
  /\ UNCHANGED <<dir, data, opener, sent, spoilt>>
  /\ serving' => serving
  /\ \A q \in Requests :
       /\ Ino(q)' = Ino(q)
       /\ Tmp(q) # NoFile => Tmp(q)' = Tmp(q)
       /\ Open(q) => Tmp(q)' = Tmp(q) /\ state'[q].pos = state[q].pos /\ state'[q].buf = state[q].buf
       /\ state[q].reply = 500 => state'[q].reply = 500

(* Such a step keeps what is said of files and FILEs.                        *)
LEMMA QuietKeeps ==
  ASSUME HttpInv, Quiet
  PROVE  (DirInv /\ SharedInv /\ BytesInv /\ FileIsWholeUpload /\ TmpInv)'
<1>. USE DEF HttpInv
<1>1. \A q \in Requests : (Open(q)' <=> Open(q)) /\ Ino(q)' = Ino(q)
  BY DEF Quiet, Open, Ino
<1>2. \A q \in Requests : Tmp(q) # NoFile => Tmp(q)' = Tmp(q)
  BY DEF Quiet
<1>3. \A q \in Requests : Open(q) => Tmp(q)' = Tmp(q)
  BY DEF Quiet
<1>4. dir' = dir /\ data' = data /\ opener' = opener /\ sent' = sent /\ spoilt' = spoilt
  BY DEF Quiet
<1>5. /\ dir \in [Paths -> Requests \union {NoFile}]
      /\ opener \in [Requests -> Requests]
      /\ spoilt \subseteq Requests \union Temps
  BY DEF TypeInv, TypeOK
<1>6. NoFile \notin spoilt
  BY <1>5, HttpAssumption
<1>7. \A q \in Requests : Spoilt(q) => Spoilt(q)'
  BY <1>2, <1>4, <1>6 DEF Spoilt, Shared, Tmp
<1>8. DirInv'
  <2>1. \A p \in Paths : dir[p] # NoFile => Tmp(dir[p]) # NoFile /\ dir[p] \in Requests
    BY <1>5 DEF DirInv
  <2>2. \A t \in Temps : t \in Paths
    BY DEF Paths
  <2>3. \A q \in Requests : Open(q) => Ino(q) \in Requests /\ Tmp(q) \in Temps
    BY Records DEF PhaseInv, TypeInv, TypeOK, Open, Ino
  <2>. QED BY <1>1, <1>2, <1>3, <1>4, <1>5, <2>1, <2>2, <2>3, HttpAssumption DEF DirInv
<1>9. SharedInv'
  BY <1>1, <1>2, <1>3, <1>4, <1>5 DEF SharedInv
<1>10. BytesInv'
  <2>. SUFFICES ASSUME NEW r \in Requests, Open(r)', ~Spoilt(r)'
                PROVE  /\ state'[r].buf # << >> \/ serving' => state'[r].pos = Len(data'[Ino(r)'])
                       /\ data'[Ino(r)'] \o state'[r].buf = sent'[r]
    BY DEF BytesInv
  <2>1. Open(r) /\ ~Spoilt(r)
    BY <1>1, <1>7
  <2>2. state'[r].pos = state[r].pos /\ state'[r].buf = state[r].buf /\ (serving' => serving)
    BY <2>1 DEF Quiet
  <2>. QED BY <1>1, <1>4, <2>1, <2>2 DEF BytesInv
<1>11. FileIsWholeUpload'
  <2>. SUFFICES ASSUME NEW n \in Names, dir'[n] # NoFile, (~Spoilt(opener[dir[n]]))'
                PROVE  (data[dir[n]] = sent[opener[dir[n]]])'
    BY DEF FileIsWholeUpload
  <2>1. dir[n] \in Requests /\ opener[dir[n]] \in Requests
    BY <1>4, <1>5 DEF Paths
  <2>2. ~Spoilt(opener[dir[n]])
    <3>. DEFINE o == opener[dir[n]]
    <3>1. o' = o
      BY <1>4
    <3>2. ~(o \in spoilt' \/ state'[o].tmp \in spoilt')
      BY <3>1 DEF Spoilt, Shared
    <3>3. o \in Requests
      BY <2>1
    <3>. HIDE DEF o
    <3>4. ~Spoilt(o)
      BY <1>7, <3>2, <3>3 DEF Spoilt, Shared
    <3>. QED BY <3>4 DEF o
  <2>. QED BY <1>4, <2>2 DEF FileIsWholeUpload
<1>12. TmpInv'
  <2>. SUFFICES ASSUME NEW t \in Temps, dir'[t] # NoFile
                PROVE  \E r \in Requests : Tmp(r)' = t /\ (Open(r)' \/ state'[r].reply = 500)
    BY DEF TmpInv
  <2>1. PICK r \in Requests : Tmp(r) = t /\ (Open(r) \/ state[r].reply = 500)
    BY <1>4 DEF TmpInv
  <2>2. Tmp(r)' = t
    BY <1>2, <2>1, HttpAssumption
  <2>3. Open(r)' \/ state'[r].reply = 500
    BY <1>1, <2>1 DEF Quiet
  <2>. QED BY <2>2, <2>3
<1>. QED BY <1>8, <1>9, <1>10, <1>11, <1>12

(* What a record keeps when a callback moves no data.                        *)
QuietRecord(r, c) ==
  /\ c.inode = state[r].inode
  /\ Tmp(r) # NoFile => c.tmp = Tmp(r)
  /\ Open(r) => /\ c.tmp = Tmp(r) /\ c.pos = state[r].pos /\ c.buf = state[r].buf
                /\ c.phase \in {"receiving", "complete", "broken"}
  /\ ~Open(r) => c.pos = 0
  /\ c.pos + Len(c.buf) <= c.pieces
  /\ c.phase # "free"
  /\ c.phase # "done" => c.reply = 0
  /\ state[r].reply = 500 => c.reply = 500

(* A step that only sets such a record is quiet.                             *)
LEMMA QuietStep ==
  ASSUME TypeInv, PhaseInv,
         NEW r \in Requests, NEW c \in ConnectionState, Set(r, c), QuietRecord(r, c),
         UNCHANGED <<disk, serving, ghost>>
  PROVE  TypeInv' /\ PhaseInv' /\ Quiet
<1>1. /\ state' \in [Requests -> ConnectionState] /\ state'[r] = c
      /\ \A q \in Requests : q # r => state'[q] = state[q]
  BY SetOne DEF TypeInv, TypeOK
<1>2. UNCHANGED <<dir, data, opener, serving, sent, spoilt>>
  BY DEF disk, ghost
<1>3. Quiet
  BY <1>1, <1>2 DEF Quiet, QuietRecord, Ino, Tmp, Open
<1>4. Open(r) => c.phase # "done"
  BY DEF QuietRecord
<1>5. \A q \in Requests : state'[q].phase = "done" => state'[q].inode = NoFile
  <2>1. \A q \in Requests : state[q].phase = "done" => state[q].inode = NoFile
    BY DEF TypeInv, TypeOK
  <2>2. c.phase = "done" => c.inode = NoFile
    BY <1>4 DEF QuietRecord, Open
  <2>. QED BY <1>1, <2>1, <2>2
<1>6. TypeInv'
  <2>1. TypeOK'
    BY <1>1, <1>2, <1>5 DEF TypeInv, TypeOK
  <2>2. \A q \in Requests : state'[q].pos + Len(state'[q].buf) <= state'[q].pieces
    BY <1>1 DEF QuietRecord, TypeInv
  <2>. QED BY <1>2, <2>1, <2>2 DEF TypeInv
<1>7. PhaseInv'
  BY <1>1 DEF QuietRecord, PhaseInv, Open, Tmp
<1>. QED BY <1>3, <1>6, <1>7

(* accessHandler meets a new connection.                                     *)
LEMMA AcceptQuiet ==
  ASSUME HttpInv, NEW r \in Requests, Accept(r)
  PROVE  TypeInv' /\ PhaseInv' /\ Quiet
<1>. DEFINE c(code) == IF code = 0 THEN [state[r] EXCEPT !.phase = "receiving"]
                       ELSE [state[r] EXCEPT !.phase = "done", !.reply = 400]
<1>1. state[r] \in ConnectionState /\ state[r].phase = "free"
  BY DEF Accept, HttpInv, TypeInv, TypeOK
<1>2. /\ Tmp(r) = NoFile /\ state[r].reply = 0 /\ ~Open(r) /\ state[r].pos = 0
      /\ state[r].pos + Len(state[r].buf) <= state[r].pieces
  BY <1>1, HttpAssumption DEF HttpInv, TypeInv, PhaseInv
<1>3. PICK code \in {0, 400} : Set(r, c(code))
  BY DEF Accept
<1>4. c(code) \in ConnectionState /\ QuietRecord(r, c(code))
  <2>1. CASE code = 0
    BY <1>1, <1>2, <2>1, Records DEF QuietRecord, Open, Tmp
  <2>2. CASE code = 400
    <3>1. c(code) = [[state[r] EXCEPT !.phase = "done"] EXCEPT !.reply = 400]
      BY <2>2
    <3>5. [state[r] EXCEPT !.phase = "done"] \in ConnectionState
      BY <1>1, Records
    <3>2. PICK a \in ConnectionState : a = [state[r] EXCEPT !.phase = "done"]
      BY <3>5
    <3>3. c(code) \in ConnectionState
      <4>1. [a EXCEPT !.reply = 400] \in ConnectionState
        BY Records
      <4>. QED BY <3>1, <3>2, <4>1
    <3>4. /\ c(code).phase = "done" /\ c(code).pieces = state[r].pieces /\ c(code).pos = state[r].pos
          /\ c(code).inode = state[r].inode /\ c(code).buf = state[r].buf /\ c(code).reply = 400
      BY <1>1, <2>2, Records
    <3>. HIDE DEF c
    <3>. QED BY <1>2, <3>3, <3>4 DEF QuietRecord, Open, Tmp
  <2>. QED BY <2>1, <2>2
<1>5. UNCHANGED <<disk, serving, ghost>>
  BY DEF Accept
<1>. HIDE DEF c
<1>. QED BY <1>3, <1>4, <1>5, QuietStep DEF HttpInv

(* A callback with data that reaches no file.                                *)
LEMMA IgnoreQuiet ==
  ASSUME HttpInv, NEW r \in Requests, Ignore(r)
  PROVE  TypeInv' /\ PhaseInv' /\ Quiet
<1>1. /\ state[r] \in ConnectionState /\ state[r].phase = "receiving"
      /\ state[r].pieces < MaxPieces /\ Set(r, Received(r))
      /\ UNCHANGED <<disk, serving, ghost>>
  BY DEF Ignore, Receiving, HttpInv, TypeInv, TypeOK
<1>2. /\ state[r].reply = 0 /\ state[r].pos + Len(state[r].buf) <= state[r].pieces
      /\ ~Open(r) => state[r].pos = 0
  BY <1>1 DEF HttpInv, TypeInv, PhaseInv
<1>3. Received(r) \in ConnectionState
  BY <1>1, ReceivedRecord
<1>4. Len(state[r].buf) \in Nat
  BY <1>1, BufferIsSeq, Records
<1>6. state[r].pos \in Nat /\ state[r].pieces \in Nat
  BY <1>1, Records, HttpAssumption
<1>5. QuietRecord(r, Received(r))
  BY <1>1, <1>2, <1>4, <1>6, ReceivedRecord DEF QuietRecord, Open, Tmp
<1>. QED BY <1>1, <1>3, <1>5, QuietStep DEF HttpInv

(* fopen() fails in the callback.                                            *)
LEMMA OpenTmpFailsQuiet ==
  ASSUME HttpInv, NEW r \in Requests, NEW path \in Temps, OpenTmpFails(r, path)
  PROVE  TypeInv' /\ PhaseInv' /\ Quiet
<1>. DEFINE c == [Received(r) EXCEPT !.tmp = path]
<1>1. /\ state[r] \in ConnectionState /\ state[r].phase = "receiving"
      /\ state[r].pieces < MaxPieces /\ Tmp(r) = NoFile /\ Set(r, c)
      /\ UNCHANGED <<disk, serving, ghost>>
  BY DEF OpenTmpFails, Receiving, HttpInv, TypeInv, TypeOK, Tmp
<1>2. /\ state[r].reply = 0 /\ state[r].pos + Len(state[r].buf) <= state[r].pieces
      /\ ~Open(r) /\ state[r].pos = 0
  BY <1>1, HttpAssumption DEF HttpInv, TypeInv, PhaseInv
<1>3. /\ c \in ConnectionState /\ c.tmp = path
      /\ c.phase = "receiving" /\ c.pieces = state[r].pieces + 1 /\ c.inode = state[r].inode
      /\ c.pos = state[r].pos /\ c.buf = state[r].buf /\ c.reply = state[r].reply
  BY <1>1, ReceivedRecord, Records
<1>4. Len(state[r].buf) \in Nat /\ state[r].pos \in Nat /\ state[r].pieces \in Nat
  BY <1>1, BufferIsSeq, Records, HttpAssumption
<1>. HIDE DEF c
<1>5. QuietRecord(r, c)
  BY <1>1, <1>2, <1>3, <1>4 DEF QuietRecord, Open, Tmp
<1>. QED BY <1>1, <1>3, <1>5, QuietStep DEF HttpInv

(* The body ends, or the connection breaks.                                  *)
LEMMA PhaseStepQuiet ==
  ASSUME HttpInv, NEW r \in Requests, End(r) \/ Break(r)
  PROVE  TypeInv' /\ PhaseInv' /\ Quiet
<1>. DEFINE c(ph) == [state[r] EXCEPT !.phase = ph]
<1>1. /\ state[r] \in ConnectionState /\ state[r].phase \in {"receiving", "complete"}
      /\ UNCHANGED <<disk, serving, ghost>>
  BY DEF End, Break, HttpInv, TypeInv, TypeOK
<1>2. PICK ph \in {"complete", "broken"} : Set(r, c(ph))
  BY DEF End, Break
<1>3. /\ state[r].reply = 0 /\ state[r].pos + Len(state[r].buf) <= state[r].pieces
      /\ ~Open(r) => state[r].pos = 0
  BY <1>1 DEF HttpInv, TypeInv, PhaseInv
<1>4. c(ph) \in ConnectionState
  BY <1>1, Records
<1>5. QuietRecord(r, c(ph))
  BY <1>1, <1>3, Records DEF QuietRecord, Open, Tmp
<1>. HIDE DEF c
<1>. QED BY <1>1, <1>2, <1>4, <1>5, QuietStep DEF HttpInv

(* 400: no file was opened.                                                  *)
LEMMA NothingSavedQuiet ==
  ASSUME HttpInv, NEW r \in Requests, NothingSaved(r)
  PROVE  TypeInv' /\ PhaseInv' /\ Quiet
<1>. DEFINE c == Answered(r, 400)
<1>1. /\ state[r] \in ConnectionState /\ state[r].phase = "complete" /\ ~Open(r)
      /\ Set(r, c) /\ UNCHANGED <<disk, serving, ghost>>
  BY DEF NothingSaved, Answer, Answered, HttpInv, TypeInv, TypeOK
<1>2. state[r].reply = 0
  BY <1>1 DEF HttpInv, PhaseInv
<1>4. /\ c \in ConnectionState /\ c.inode = NoFile /\ c.tmp = state[r].tmp /\ c.pos = 0
      /\ c.buf = << >> /\ c.phase = "done" /\ c.pieces = state[r].pieces
  BY <1>1, AnswerRecord
<1>5. Len(<< >>) = 0
  OBVIOUS
<1>7. state[r].pieces \in Nat
  BY <1>1, Records, HttpAssumption
<1>. HIDE DEF c
<1>8. QuietRecord(r, c)
  BY <1>1, <1>2, <1>4, <1>5, <1>7 DEF QuietRecord, Open, Tmp
<1>. QED BY <1>1, <1>4, <1>8, QuietStep DEF HttpInv

(* MHD_stop_daemon().                                                        *)
LEMMA StopQuiet ==
  ASSUME HttpInv, Stop
  PROVE  TypeInv' /\ PhaseInv' /\ Quiet
<1>. DEFINE c(q) == IF state[q].phase \in {"receiving", "complete"}
                    THEN [state[q] EXCEPT !.phase = "broken"] ELSE state[q]
<1>1. /\ state \in [Requests -> ConnectionState] /\ state' = [q \in Requests |-> c(q)]
      /\ serving' = FALSE /\ UNCHANGED <<dir, data, opener, sent, spoilt>>
  BY DEF Stop, disk, ghost, HttpInv, TypeInv, TypeOK
<1>2. \A q \in Requests : c(q) \in ConnectionState
  BY <1>1, Records
<1>3. \A q \in Requests :
        /\ c(q).inode = state[q].inode /\ c(q).tmp = state[q].tmp /\ c(q).pos = state[q].pos
        /\ c(q).buf = state[q].buf /\ c(q).reply = state[q].reply /\ c(q).pieces = state[q].pieces
        /\ c(q).phase = IF state[q].phase \in {"receiving", "complete"} THEN "broken" ELSE state[q].phase
  BY <1>1, Records
<1>. HIDE DEF c
<1>4. state' \in [Requests -> ConnectionState] /\ \A q \in Requests : state'[q] = c(q)
  BY <1>1, <1>2
<1>5. Quiet
  BY <1>1, <1>3, <1>4 DEF Quiet, Ino, Tmp, Open
<1>6. TypeInv'
  BY <1>1, <1>3, <1>4 DEF HttpInv, TypeInv, TypeOK
<1>7. PhaseInv'
  BY <1>3, <1>4 DEF HttpInv, PhaseInv, Open, Tmp
<1>. QED BY <1>5, <1>6, <1>7

-----------------------------------------------------------------------------
(* Steps that write. *)

(* Two open FILEs on one inode have one temporary path, which is spoilt.     *)
LEMMA OneInode ==
  ASSUME HttpInv, NEW q \in Requests, NEW r \in Requests, q # r, Open(q), Open(r), Ino(q) = Ino(r)
  PROVE  Tmp(q) \in spoilt
BY DEF HttpInv, DirInv, SharedInv

(* A FILE that is open on a firmware file, and so the file, came from a      *)
(* temporary path that was shared.                                           *)
LEMMA OpenFirmware ==
  ASSUME HttpInv, NEW n \in Names, NEW r \in Requests, Open(r), dir[n] = Ino(r)
  PROVE  Shared(opener[dir[n]])
<1>. DEFINE i == Ino(r)
            o == opener[i]
<1>1. i \in Requests /\ o \in Requests
  BY Records DEF HttpInv, TypeInv, TypeOK, Open, Ino
<1>2. Tmp(i) = Tmp(r) /\ Tmp(r) \in spoilt
  BY DEF HttpInv, DirInv, SharedInv
<1>3. Tmp(o) = Tmp(i)
  BY <1>1 DEF HttpInv, DirInv
<1>. QED BY <1>2, <1>3 DEF Shared, Tmp

(* What write() does to the inodes.                                          *)
LEMMA HandOverEffect ==
  ASSUME TypeInv, NEW r \in Requests, Open(r), NEW u \in Seq(Units), NEW ok \in BOOLEAN,
         HandOver(r, u, ok)
  PROVE  /\ data' \in [Requests -> Seq(Units)]
         /\ \A i \in Requests : i # Ino(r) => data'[i] = data[i]
         /\ ok /\ state[r].pos = Len(data[Ino(r)]) => data'[Ino(r)] = data[Ino(r)] \o u
<1>1. Ino(r) \in Requests /\ state[r].pos \in Nat
  BY Records, HttpAssumption DEF TypeInv, TypeOK, Open, Ino
<1>2. data \in [Requests -> Seq(Units)]
  BY DEF TypeInv
<1>3. CASE ok
  <2>. DEFINE w == WriteAt(data[Ino(r)], state[r].pos, u)
  <2>1. w \in Seq(Units)
    BY <1>1, <1>2, WriteAtType
  <2>2. state[r].pos = Len(data[Ino(r)]) => w = data[Ino(r)] \o u
    BY <1>1, <1>2, WriteAtEnd
  <2>3. data' = [data EXCEPT ![Ino(r)] = w]
    BY <1>3 DEF HandOver, Ino
  <2>. HIDE DEF w
  <2>. QED BY <1>1, <1>2, <2>1, <2>2, <2>3
<1>4. CASE ~ok
  BY <1>2, <1>4 DEF HandOver
<1>. QED BY <1>3, <1>4

(* A step that writes to the inode of r, and to no other.                    *)
Writes(r) ==
  /\ UNCHANGED <<dir, opener, serving>>
  /\ spoilt \subseteq spoilt'
  /\ \A q \in Requests :
       /\ Ino(q)' = Ino(q) /\ Tmp(q)' = Tmp(q) /\ state'[q].reply = state[q].reply
       /\ q # r => /\ state'[q].pos = state[q].pos /\ state'[q].buf = state[q].buf
                   /\ sent'[q] = sent[q]
  /\ \A i \in Requests : i # Ino(r) => data'[i] = data[i]
  /\ ~Spoilt(r)' =>
       /\ state'[r].buf # << >> \/ serving' => state'[r].pos = Len(data'[Ino(r)])
       /\ data'[Ino(r)] \o state'[r].buf = sent'[r]

(* Such a step keeps what is said of files and FILEs.                        *)
LEMMA WriteKeeps ==
  ASSUME HttpInv, NEW r \in Requests, Open(r), Writes(r)
  PROVE  (DirInv /\ SharedInv /\ BytesInv /\ FileIsWholeUpload /\ TmpInv)'
<1>. USE DEF HttpInv
<1>1. \A q \in Requests : (Open(q)' <=> Open(q)) /\ Ino(q)' = Ino(q) /\ Tmp(q)' = Tmp(q)
                           /\ state'[q].reply = state[q].reply
  BY DEF Writes, Open, Ino
<1>2. dir' = dir /\ opener' = opener /\ spoilt \subseteq spoilt'
  BY DEF Writes
<1>3. dir \in [Paths -> Requests \union {NoFile}] /\ opener \in [Requests -> Requests]
  BY DEF TypeInv, TypeOK
<1>4. \A q \in Requests : Spoilt(q) => Spoilt(q)'
  BY <1>1, <1>2 DEF Spoilt, Shared, Tmp
<1>5. \A q \in Requests : Open(q) => Ino(q) \in Requests
  BY Records DEF TypeInv, TypeOK, Open, Ino
<1>6. \A p \in Paths : dir[p] # NoFile => dir[p] \in Requests
  BY <1>3
<1>7. DirInv'
  BY <1>1, <1>2, <1>3, <1>5, <1>6 DEF DirInv, Paths
<1>8. SharedInv'
  BY <1>1, <1>2, <1>5 DEF SharedInv
<1>9. BytesInv'
  <2>. SUFFICES ASSUME NEW q \in Requests, Open(q)', ~Spoilt(q)'
                PROVE  /\ state'[q].buf # << >> \/ serving' => state'[q].pos = Len(data'[Ino(q)'])
                       /\ data'[Ino(q)'] \o state'[q].buf = sent'[q]
    BY DEF BytesInv
  <2>1. Open(q) /\ ~Spoilt(q) /\ Ino(q)' = Ino(q)
    BY <1>1, <1>4
  <2>2. CASE q = r
    BY <2>1, <2>2 DEF Writes
  <2>3. CASE q # r
    <3>1. Ino(q) # Ino(r)
      BY <2>1, <2>3, OneInode DEF Spoilt, Shared, Tmp
    <3>2. data'[Ino(q)] = data[Ino(q)]
      BY <1>5, <2>1, <3>1 DEF Writes
    <3>3. state'[q].pos = state[q].pos /\ state'[q].buf = state[q].buf /\ sent'[q] = sent[q]
          /\ serving' = serving
      BY <2>3 DEF Writes
    <3>. QED BY <2>1, <3>2, <3>3 DEF BytesInv
  <2>. QED BY <2>2, <2>3
<1>10. FileIsWholeUpload'
  <2>. SUFFICES ASSUME NEW n \in Names, dir'[n] # NoFile, (~Spoilt(opener[dir[n]]))'
                PROVE  (data[dir[n]] = sent[opener[dir[n]]])'
    BY DEF FileIsWholeUpload
  <2>1. PICK i \in Requests : i = dir[n]
    BY <1>2, <1>3 DEF Paths
  <2>2. PICK o \in Requests : o = opener[i]
    BY <1>3
  <2>3. ~Spoilt(o)
    BY <1>2, <1>4, <2>1, <2>2 DEF Spoilt, Shared
  <2>4. i # Ino(r)
    BY <2>1, <2>2, <2>3, OpenFirmware DEF Spoilt
  <2>5. o # r
    BY <1>2, <2>1, <2>2, <2>4 DEF DirInv, Paths
  <2>6. data'[i] = data[i] /\ sent'[o] = sent[o]
    BY <2>4, <2>5 DEF Writes
  <2>7. data[i] = sent[o]
    BY <1>2, <2>1, <2>2, <2>3 DEF FileIsWholeUpload
  <2>. QED BY <1>2, <2>1, <2>2, <2>6, <2>7
<1>11. TmpInv'
  BY <1>1, <1>2 DEF TmpInv
<1>. QED BY <1>7, <1>8, <1>9, <1>10, <1>11

(* exit() writes out a buffer.                                               *)
LEMMA ExitFlushWrites ==
  ASSUME HttpInv, NEW r \in Requests, ExitFlush(r)
  PROVE  TypeInv' /\ PhaseInv' /\ Open(r) /\ Writes(r)
<1>. DEFINE c == [state[r] EXCEPT !.buf = << >>]
<1>1. /\ state \in [Requests -> ConnectionState] /\ state[r] \in ConnectionState
      /\ ~serving /\ Open(r) /\ state[r].buf # << >> /\ Set(r, c)
      /\ HandOver(r, state[r].buf, TRUE)
      /\ UNCHANGED <<dir, opener, serving, sent, spoilt>>
  BY DEF ExitFlush, ghost, HttpInv, TypeInv, TypeOK
<1>2. << >> \in Buffers /\ Len(<< >>) = 0
  BY EmptyBuffer
<1>3. /\ c \in ConnectionState /\ c.buf = << >> /\ c.phase = state[r].phase /\ c.tmp = state[r].tmp
      /\ c.inode = state[r].inode /\ c.pos = state[r].pos /\ c.pieces = state[r].pieces
      /\ c.reply = state[r].reply
  BY <1>1, <1>2, Records
<1>. HIDE DEF c
<1>4. /\ state' \in [Requests -> ConnectionState] /\ state'[r] = c
      /\ \A q \in Requests : q # r => state'[q] = state[q]
  BY <1>1, <1>3, SetOne
<1>5. state[r].buf \in Seq(Units) /\ Len(state[r].buf) \in Nat /\ state[r].pos \in Nat /\ state[r].pieces \in Nat
  BY <1>1, BufferIsSeq, Records, HttpAssumption
<1>6. /\ data' \in [Requests -> Seq(Units)]
      /\ \A i \in Requests : i # Ino(r) => data'[i] = data[i]
      /\ state[r].pos = Len(data[Ino(r)]) => data'[Ino(r)] = data[Ino(r)] \o state[r].buf
  BY <1>1, <1>5, HandOverEffect DEF HttpInv
<1>7. TypeInv'
  <2>1. TypeOK'
    <3>1. \A i \in Requests : \A k \in DOMAIN data'[i] : data'[i][k] \in Units
      BY <1>6
    <3>2. \A q \in Requests : state'[q].phase = "done" => state'[q].inode = NoFile
      BY <1>3, <1>4 DEF HttpInv, TypeInv, TypeOK
    <3>. QED BY <1>1, <1>4, <3>1, <3>2 DEF HttpInv, TypeInv, TypeOK
  <2>2. \A q \in Requests : state'[q].pos + Len(state'[q].buf) <= state'[q].pieces
    <3>1. state[r].pos + Len(state[r].buf) <= state[r].pieces
      BY DEF HttpInv, TypeInv
    <3>2. c.pos + Len(c.buf) <= c.pieces
      BY <1>2, <1>3, <1>5, <3>1
    <3>. QED BY <1>4, <3>2 DEF HttpInv, TypeInv
  <2>. QED BY <1>1, <1>6, <2>1, <2>2 DEF HttpInv, TypeInv
<1>8. PhaseInv'
  BY <1>3, <1>4 DEF HttpInv, PhaseInv, Open, Tmp
<1>9. Writes(r)
  <2>1. ~Spoilt(r)' => data'[Ino(r)] \o state'[r].buf = sent'[r]
    <3>. SUFFICES ASSUME ~Spoilt(r)'
                  PROVE  data'[Ino(r)] \o state'[r].buf = sent'[r]
      OBVIOUS
    <3>1. ~Spoilt(r)
      BY <1>1, <1>3, <1>4 DEF Spoilt, Shared
    <3>2. state[r].pos = Len(data[Ino(r)]) /\ data[Ino(r)] \o state[r].buf = sent[r]
      BY <1>1, <3>1 DEF HttpInv, BytesInv
    <3>3. data'[Ino(r)] = sent[r] /\ sent[r] \in Seq(Units)
      BY <1>6, <3>2 DEF HttpInv, TypeInv
    <3>. QED BY <1>1, <1>3, <1>4, <3>3, ConcatEmptySeq
  <2>2. state'[r].buf = << >> /\ ~serving'
    BY <1>1, <1>3, <1>4
  <2>3. \A q \in Requests : Ino(q)' = Ino(q) /\ Tmp(q)' = Tmp(q) /\ state'[q].reply = state[q].reply
    BY <1>3, <1>4 DEF Ino, Tmp
  <2>. QED BY <1>1, <1>4, <1>6, <2>1, <2>2, <2>3 DEF Writes
<1>. QED BY <1>1, <1>7, <1>8, <1>9

(* What a callback with data brings.                                         *)
LEMMA BytesType ==
  ASSUME NEW r \in Requests, state[r] \in ConnectionState, state[r].pieces < MaxPieces,
         NEW b \in Bytes(r)
  PROVE  b \in Seq(Requests \X (1..MaxPieces)) /\ b \in Seq(Units) /\ Len(b) \in {0, 1}
<1>1. state[r].pieces + 1 \in 1..MaxPieces
  BY Records, HttpAssumption
<1>2. <<r, state[r].pieces + 1>> \in Requests \X (1..MaxPieces)
  BY <1>1
<1>3. b = << >> \/ b = << <<r, state[r].pieces + 1>> >>
  BY DEF Bytes
<1>4. b \in Seq(Requests \X (1..MaxPieces)) /\ Len(b) \in {0, 1}
  <2>1. PICK x \in Requests \X (1..MaxPieces) : x = <<r, state[r].pieces + 1>>
    BY <1>2
  <2>2. b = << >> \/ b = <<x>>
    BY <1>3, <2>1
  <2>3. ASSUME NEW S, NEW y \in S
        PROVE  << >> \in Seq(S) /\ Len(<< >>) = 0 /\ <<y>> \in Seq(S) /\ Len(<<y>>) = 1
    OBVIOUS
  <2>4. << >> \in Seq(Requests \X (1..MaxPieces)) /\ Len(<< >>) = 0
        /\ <<x>> \in Seq(Requests \X (1..MaxPieces)) /\ Len(<<x>>) = 1
    BY <2>3
  <2>5. CASE b = << >>
    BY <2>4, <2>5
  <2>6. CASE b = <<x>>
    BY <2>4, <2>6
  <2>. QED BY <2>2, <2>5, <2>6
<1>. QED BY <1>4, SeqMonotonic DEF Units

(* What is in the buffer of a FILE and what comes fit in a buffer.           *)
LEMMA BufferGrows ==
  ASSUME TypeInv, NEW r \in Requests, state[r].pieces < MaxPieces, NEW b \in Bytes(r)
  PROVE  /\ state[r].buf \o b \in Buffers /\ state[r].buf \o b \in Seq(Units)
         /\ Len(state[r].buf \o b) \in Nat
         /\ state[r].pos + Len(state[r].buf \o b) <= state[r].pieces + 1
<1>1. state[r] \in ConnectionState
  BY DEF TypeInv, TypeOK
<1>2. PICK B \in Buffers : B = state[r].buf
  BY <1>1, Records
<1>3. PICK n \in Nat, p \in Nat : n = state[r].pieces /\ p = state[r].pos
  BY <1>1, Records, HttpAssumption
<1>4. p + Len(B) <= n /\ n < MaxPieces
  BY <1>2, <1>3 DEF TypeInv
<1>5. PICK S : S = Requests \X (1..MaxPieces)
  OBVIOUS
<1>6. B \in Seq(S) /\ b \in Seq(S) /\ Len(B) \in Nat /\ Len(b) \in {0, 1}
  BY <1>1, <1>5, BufferIsSeq, BytesType
<1>7. B \o b \in Seq(S) /\ Len(B \o b) = Len(B) + Len(b)
  BY <1>6, ConcatProperties
<1>8. Len(B \o b) \in Nat /\ p + Len(B \o b) <= n + 1
  <2>1. PICK k \in Nat, j \in {0, 1} : k = Len(B) /\ j = Len(b)
    BY <1>6
  <2>2. Len(B \o b) = k + j /\ p + k <= n
    BY <1>4, <1>7, <2>1
  <2>. QED BY <2>2
<1>9. Len(B \o b) <= MaxPieces
  BY <1>4, <1>8, HttpAssumption
<1>10. B \o b \in Buffers
  BY <1>5, <1>7, <1>9, SeqIsBuffer
<1>. QED BY <1>2, <1>3, <1>8, <1>10, BufferIsSeq

(* A callback with firmware data for an open FILE.                           *)
LEMMA WriteTmpWrites ==
  ASSUME HttpInv, NEW r \in Requests, WriteTmp(r)
  PROVE  TypeInv' /\ PhaseInv' /\ Open(r) /\ Writes(r)
<1>1. /\ state \in [Requests -> ConnectionState] /\ state[r] \in ConnectionState
      /\ serving /\ state[r].phase = "receiving" /\ state[r].pieces < MaxPieces /\ Open(r)
      /\ UNCHANGED <<dir, opener, serving>>
  BY DEF WriteTmp, Receiving, HttpInv, TypeInv, TypeOK
<1>. DEFINE all(b)     == state[r].buf \o b
            out(b, k)  == IF k THEN << >> ELSE all(b)
            left(b, k) == IF k THEN all(b) ELSE << >>
            c(b, k)    == [Received(r) EXCEPT !.buf = left(b, k), !.pos = @ + Len(out(b, k))]
<1>2. PICK b \in Bytes(r), second \in BOOLEAN, keep \in BOOLEAN, ok \in BOOLEAN :
        /\ HandOver(r, out(b, keep), ok) /\ Set(r, c(b, keep))
        /\ sent' = IF second THEN sent ELSE [sent EXCEPT ![r] = @ \o b]
        /\ spoilt' = spoilt \union (IF second \/ ~ok THEN {r} ELSE {})
  BY DEF WriteTmp, May
<1>3. PICK B \in Seq(Units) : B = state[r].buf
  BY <1>1, Records, BufferIsSeq
<1>4. PICK u \in Buffers, l \in Buffers : u = out(b, keep) /\ l = left(b, keep)
  BY <1>1, BufferGrows, EmptyBuffer DEF HttpInv
<1>5. /\ u \in Seq(Units) /\ l \in Seq(Units) /\ Len(u) \in Nat /\ Len(l) \in Nat
      /\ b \in Seq(Units)
  <2>1. u \in Seq(Units) /\ l \in Seq(Units)
    BY <1>4, BufferIsSeq
  <2>2. b \in Seq(Units)
    BY <1>1, BytesType
  <2>. QED BY <2>1, <2>2, LenProperties
<1>6. u \o l = B \o b /\ Len(u) + Len(l) = Len(B \o b)
  <2>1. B \o b \in Seq(Units) /\ Len(B \o b) \in Nat
    BY <1>3, <1>5, ConcatProperties, LenProperties
  <2>2. CASE keep
    <3>1. u = << >> /\ l = B \o b
      BY <1>3, <1>4, <2>2
    <3>. QED BY <2>1, <3>1, ConcatEmptySeq, EmptyBuffer
  <2>3. CASE ~keep
    <3>1. l = << >> /\ u = B \o b
      BY <1>3, <1>4, <2>3
    <3>. QED BY <2>1, <3>1, ConcatEmptySeq, EmptyBuffer
  <2>. QED BY <2>2, <2>3
<1>7. state[r].pos \in Nat /\ state[r].pieces \in Nat /\ state[r].pos + Len(u) + Len(l) <= state[r].pieces + 1
  <2>1. state[r].pos \in Nat /\ state[r].pieces \in Nat
    BY <1>1, Records, HttpAssumption
  <2>2. state[r].pos + Len(B \o b) <= state[r].pieces + 1
    BY <1>1, <1>3, BufferGrows DEF HttpInv
  <2>. QED BY <1>5, <1>6, <2>1, <2>2
<1>8. PICK d \in ConnectionState :
        /\ Set(r, d) /\ d.buf = l /\ d.pos = state[r].pos + Len(u) /\ d.pieces = state[r].pieces + 1
        /\ d.phase = "receiving" /\ d.tmp = state[r].tmp /\ d.inode = state[r].inode
        /\ d.reply = state[r].reply
  <2>1. PICK e \in ConnectionState : e = Received(r)
    BY <1>1, ReceivedRecord
  <2>2. /\ e.pieces = state[r].pieces + 1 /\ e.phase = "receiving" /\ e.tmp = state[r].tmp
        /\ e.inode = state[r].inode /\ e.pos = state[r].pos /\ e.reply = state[r].reply
    BY <1>1, <2>1, ReceivedRecord
  <2>3. state[r].pos + Len(u) \in 0..MaxPieces
    BY <1>1, <1>5, <1>7, HttpAssumption, SMTT(20)
  <2>. DEFINE f == [e EXCEPT !.buf = l]
  <2>4. /\ f \in ConnectionState /\ f.pieces = e.pieces /\ f.phase = e.phase /\ f.tmp = e.tmp
        /\ f.inode = e.inode /\ f.pos = e.pos /\ f.reply = e.reply /\ f.buf = l
    BY Records
  <2>5. c(b, keep) = [f EXCEPT !.pos = state[r].pos + Len(u)]
    BY <1>4, <2>1, <2>2
  <2>. HIDE DEF f
  <2>6. /\ c(b, keep) \in ConnectionState /\ c(b, keep).pieces = f.pieces /\ c(b, keep).phase = f.phase
        /\ c(b, keep).tmp = f.tmp /\ c(b, keep).inode = f.inode /\ c(b, keep).reply = f.reply
        /\ c(b, keep).buf = f.buf /\ c(b, keep).pos = state[r].pos + Len(u)
    <3>. HIDE DEF c
    <3>. QED BY <2>3, <2>4, <2>5, Records, SMTT(20)
  <2>. HIDE DEF c
  <2>. QED BY <1>2, <2>2, <2>4, <2>6
<1>9. HandOver(r, u, ok)
  BY <1>2, <1>4
<1>. HIDE DEF all, out, left, c
<1>10. /\ state' \in [Requests -> ConnectionState] /\ state'[r] = d
       /\ \A q \in Requests : q # r => state'[q] = state[q]
  BY <1>1, <1>8, SetOne
<1>11. /\ data' \in [Requests -> Seq(Units)]
       /\ \A i \in Requests : i # Ino(r) => data'[i] = data[i]
       /\ ok /\ state[r].pos = Len(data[Ino(r)]) => data'[Ino(r)] = data[Ino(r)] \o u
  BY <1>1, <1>5, <1>9, HandOverEffect DEF HttpInv
<1>12. /\ sent' \in [Requests -> Seq(Units)]
       /\ \A q \in Requests : q # r => sent'[q] = sent[q]
       /\ ~second => sent'[r] = sent[r] \o b
  <2>1. sent \in [Requests -> Seq(Units)]
    BY DEF HttpInv, TypeInv
  <2>2. sent[r] \o b \in Seq(Units)
    BY <1>5, <2>1, ConcatProperties
  <2>. QED BY <1>2, <2>1, <2>2
<1>13. TypeInv'
  <2>1. TypeOK'
    <3>1. /\ \A i \in Requests : \A k \in DOMAIN data'[i] : data'[i][k] \in Units
          /\ \A i \in Requests : \A k \in DOMAIN sent'[i] : sent'[i][k] \in Units
      BY <1>11, <1>12
    <3>2. \A q \in Requests : state'[q].phase = "done" => state'[q].inode = NoFile
      BY <1>8, <1>10 DEF HttpInv, TypeInv, TypeOK
    <3>3. spoilt' \subseteq Requests \union Temps
      BY <1>2 DEF HttpInv, TypeInv, TypeOK
    <3>. QED BY <1>1, <1>10, <3>1, <3>2, <3>3 DEF HttpInv, TypeInv, TypeOK
  <2>2. \A q \in Requests : state'[q].pos + Len(state'[q].buf) <= state'[q].pieces
    <3>1. d.pos + Len(d.buf) <= d.pieces
      BY <1>5, <1>7, <1>8
    <3>. QED BY <1>10, <3>1 DEF HttpInv, TypeInv
  <2>. QED BY <1>11, <1>12, <2>1, <2>2 DEF TypeInv
<1>14. PhaseInv'
  BY <1>1, <1>8, <1>10 DEF HttpInv, PhaseInv, Open, Tmp
<1>15. Writes(r)
  <2>1. ASSUME ~Spoilt(r)'
        PROVE  /\ state'[r].pos = Len(data'[Ino(r)])
               /\ data'[Ino(r)] \o state'[r].buf = sent'[r]
    <3>1. ~Spoilt(r) /\ ~second /\ ok
      BY <1>2, <1>8, <1>10, <2>1 DEF Spoilt, Shared
    <3>2. PICK D \in Seq(Units) : D = data[Ino(r)]
      BY <1>1, Records DEF HttpInv, TypeInv, Open, Ino
    <3>3. state[r].pos = Len(D) /\ D \o B = sent[r]
      BY <1>1, <1>3, <3>1, <3>2 DEF HttpInv, BytesInv
    <3>4. data'[Ino(r)] = D \o u
      BY <1>11, <3>1, <3>2, <3>3
    <3>5. Len(D \o u) = Len(D) + Len(u)
      BY <1>5, ConcatProperties
    <3>6. (D \o u) \o l = (D \o B) \o b
      <4>1. u \in Seq(Units) /\ l \in Seq(Units) /\ b \in Seq(Units)
        BY <1>5
      <4>2. (D \o u) \o l = D \o (u \o l)
        BY <4>1, UnitsConcat
      <4>3. (D \o B) \o b = D \o (B \o b)
        BY <4>1, UnitsConcat
      <4>. QED BY <1>6, <4>2, <4>3
    <3>. QED BY <1>8, <1>10, <1>12, <3>1, <3>3, <3>4, <3>5, <3>6
  <2>2. \A q \in Requests : Ino(q)' = Ino(q) /\ Tmp(q)' = Tmp(q) /\ state'[q].reply = state[q].reply
    BY <1>8, <1>10 DEF Ino, Tmp
  <2>3. spoilt \subseteq spoilt'
    BY <1>2
  <2>. QED BY <1>1, <1>10, <1>11, <1>12, <2>1, <2>2, <2>3 DEF Writes
<1>. QED BY <1>1, <1>13, <1>14, <1>15

-----------------------------------------------------------------------------
(* fopen() of a temporary path. *)

(* r has opened path, and what its FILE now holds has just come in.          *)
Opens(r, path) ==
  LET i == OpenedInode(r, path)
  IN  /\ dir' = [dir EXCEPT ![path] = i]
      /\ opener' = [opener EXCEPT ![i] = r]
      /\ data' \in [Requests -> Seq(Units)] /\ data'[i] = << >>
      /\ \A j \in Requests : j # i => data'[j] = data[j]
      /\ spoilt \subseteq spoilt'
      /\ \A q \in Requests : Open(q) /\ Tmp(q) = path => path \in spoilt'
      /\ serving' = serving
      /\ Ino(r)' = i /\ Tmp(r)' = path /\ state'[r].pos = 0
      /\ sent' \in [Requests -> Seq(Units)] /\ state'[r].buf = sent'[r]
      /\ \A q \in Requests : q # r => state'[q] = state[q] /\ sent'[q] = sent[q]

(* The first firmware part.                                                  *)
LEMMA OpenTmpOpens ==
  ASSUME HttpInv, NEW r \in Requests, NEW path \in Temps, OpenTmp(r, path)
  PROVE  TypeInv' /\ PhaseInv' /\ Tmp(r) = NoFile /\ Opens(r, path)
<1>1. /\ state \in [Requests -> ConnectionState] /\ state[r] \in ConnectionState
      /\ state[r].phase = "receiving" /\ state[r].pieces < MaxPieces /\ Tmp(r) = NoFile
      /\ serving' = serving
  BY DEF OpenTmp, Receiving, Tmp, HttpInv, TypeInv, TypeOK
<1>2. PICK i \in Requests : i = OpenedInode(r, path)
  BY DEF OpenedInode, HttpInv, TypeInv, TypeOK, Paths
<1>3. /\ dir' = [dir EXCEPT ![path] = i]
      /\ opener' = [opener EXCEPT ![i] = r]
      /\ data' = [data EXCEPT ![i] = << >>]
  BY <1>2 DEF OpenTmp, Fopen, OpensAt
<1>4. PICK b \in Bytes(r) :
        /\ Set(r, [Received(r) EXCEPT !.tmp = path, !.inode = i, !.buf = b])
        /\ sent' = [sent EXCEPT ![r] = b]
  BY <1>2 DEF OpenTmp
<1>5. b \in Buffers /\ b \in Seq(Units) /\ Len(b) \in {0, 1}
  <2>1. b \in Seq(Requests \X (1..MaxPieces)) /\ b \in Seq(Units) /\ Len(b) \in {0, 1}
    BY <1>1, BytesType
  <2>2. 1 <= MaxPieces
    BY <1>1, Records, HttpAssumption
  <2>3. Len(b) <= MaxPieces
    BY <2>1, <2>2, HttpAssumption
  <2>. QED BY <2>1, <2>3, SeqIsBuffer
<1>6. state[r].reply = 0 /\ ~Open(r) /\ state[r].pos = 0
  BY <1>1, HttpAssumption DEF HttpInv, PhaseInv
<1>7. PICK d \in ConnectionState :
        /\ Set(r, d) /\ d.buf = b /\ d.pos = 0 /\ d.pieces = state[r].pieces + 1
        /\ d.phase = "receiving" /\ d.tmp = path /\ d.inode = i /\ d.reply = 0
  <2>1. PICK e \in ConnectionState : e = Received(r)
    BY <1>1, ReceivedRecord
  <2>2. /\ e.pieces = state[r].pieces + 1 /\ e.phase = "receiving" /\ e.pos = 0 /\ e.reply = 0
    BY <1>1, <1>6, <2>1, ReceivedRecord
  <2>. DEFINE f == [e EXCEPT !.tmp = path]
              g == [f EXCEPT !.inode = i]
              h == [g EXCEPT !.buf = b]
  <2>3. f \in ConnectionState /\ f.pieces = e.pieces /\ f.phase = e.phase /\ f.tmp = path
        /\ f.pos = e.pos /\ f.reply = e.reply
    BY Records
  <2>4. Set(r, h)
    BY <1>4, <2>1
  <2>. HIDE DEF f
  <2>5. g \in ConnectionState /\ g.pieces = e.pieces /\ g.phase = e.phase /\ g.tmp = path
        /\ g.pos = e.pos /\ g.reply = e.reply /\ g.inode = i
    BY <2>3, Records
  <2>. HIDE DEF g
  <2>6. h \in ConnectionState /\ h.pieces = e.pieces /\ h.phase = e.phase /\ h.tmp = path
        /\ h.pos = e.pos /\ h.reply = e.reply /\ h.inode = i /\ h.buf = b
    BY <1>5, <2>5, Records
  <2>. HIDE DEF h
  <2>. QED BY <2>2, <2>4, <2>6
<1>8. /\ state' \in [Requests -> ConnectionState] /\ state'[r] = d
      /\ \A q \in Requests : q # r => state'[q] = state[q]
  BY <1>1, <1>7, SetOne
<1>9. /\ data' \in [Requests -> Seq(Units)] /\ data'[i] = << >>
      /\ \A j \in Requests : j # i => data'[j] = data[j]
  <2>1. << >> \in Seq(Units)
    BY EmptySeq
  <2>. QED BY <1>3, <2>1 DEF HttpInv, TypeInv
<1>10. /\ sent' \in [Requests -> Seq(Units)] /\ sent'[r] = b
       /\ \A q \in Requests : q # r => sent'[q] = sent[q]
  BY <1>4, <1>5 DEF HttpInv, TypeInv
<1>11. spoilt' = spoilt \union {path : q \in {q \in Requests : Open(q) /\ state[q].tmp = path}}
  BY DEF OpenTmp
<1>12. TypeInv'
  <2>1. TypeOK'
    <3>1. /\ \A j \in Requests : \A k \in DOMAIN data'[j] : data'[j][k] \in Units
          /\ \A j \in Requests : \A k \in DOMAIN sent'[j] : sent'[j][k] \in Units
      BY <1>9, <1>10
    <3>2. \A q \in Requests : state'[q].phase = "done" => state'[q].inode = NoFile
      BY <1>7, <1>8 DEF HttpInv, TypeInv, TypeOK
    <3>3. spoilt' \subseteq Requests \union Temps
      BY <1>11 DEF HttpInv, TypeInv, TypeOK
    <3>4. dir' \in [Paths -> Requests \union {NoFile}] /\ opener' \in [Requests -> Requests]
      BY <1>3 DEF HttpInv, TypeInv, TypeOK
    <3>. QED BY <1>1, <1>8, <3>1, <3>2, <3>3, <3>4 DEF HttpInv, TypeInv, TypeOK
  <2>2. \A q \in Requests : state'[q].pos + Len(state'[q].buf) <= state'[q].pieces
    <3>1. d.pos + Len(d.buf) <= d.pieces
      <4>1. PICK n \in Nat : n = state[r].pieces
        BY <1>1, Records, HttpAssumption
      <4>2. PICK m \in {0, 1} : m = Len(b)
        BY <1>5
      <4>3. d.pos = 0 /\ Len(d.buf) = m /\ d.pieces = n + 1
        BY <1>7, <4>1, <4>2
      <4>. QED BY <4>3
    <3>. QED BY <1>8, <3>1 DEF HttpInv, TypeInv
  <2>. QED BY <1>9, <1>10, <2>1, <2>2 DEF TypeInv
<1>13. PhaseInv'
  BY <1>7, <1>8, HttpAssumption DEF HttpInv, PhaseInv, Open, Tmp
<1>14. Opens(r, path)
  <2>1. \A q \in Requests : Open(q) /\ Tmp(q) = path => path \in spoilt'
    BY <1>11 DEF Tmp
  <2>2. spoilt \subseteq spoilt'
    BY <1>11
  <2>3. Ino(r)' = i /\ Tmp(r)' = path /\ state'[r].pos = 0 /\ state'[r].buf = sent'[r]
    BY <1>7, <1>8, <1>10 DEF Ino, Tmp
  <2>. QED BY <1>1, <1>2, <1>3, <1>8, <1>9, <1>10, <2>1, <2>2, <2>3 DEF Opens
<1>. QED BY <1>1, <1>12, <1>13, <1>14

(* An opened file is empty and one that no firmware name leads to.           *)
LEMMA OpenKeeps ==
  ASSUME HttpInv, NEW r \in Requests, NEW path \in Temps, Tmp(r) = NoFile, Opens(r, path)
  PROVE  (DirInv /\ SharedInv /\ BytesInv /\ FileIsWholeUpload /\ TmpInv)'
<1>. USE DEF HttpInv
<1>1. /\ dir \in [Paths -> Requests \union {NoFile}] /\ opener \in [Requests -> Requests]
      /\ path \in Paths /\ path # NoFile /\ NoFile \notin Requests
      /\ \A t \in Temps : t \in Paths /\ t # NoFile
      /\ \A n \in Names : n \in Paths /\ n \notin Temps
  BY HttpAssumption DEF TypeInv, TypeOK, Paths
<1>2. PICK i \in Requests : i = OpenedInode(r, path)
  BY <1>1 DEF OpenedInode
<1>3. (i = r /\ dir[path] = NoFile) \/ dir[path] = i
  BY <1>2 DEF OpenedInode
<1>4. /\ dir'[path] = i /\ \A p \in Paths : p # path => dir'[p] = dir[p]
      /\ opener'[i] = r /\ \A j \in Requests : j # i => opener'[j] = opener[j]
      /\ opener' \in [Requests -> Requests]
  BY <1>1, <1>2 DEF Opens
<1>5. /\ \A q \in Requests : q # r => /\ Ino(q)' = Ino(q) /\ Tmp(q)' = Tmp(q) /\ (Open(q)' <=> Open(q))
                                      /\ state'[q] = state[q] /\ sent'[q] = sent[q]
      /\ Ino(r)' = i /\ Tmp(r)' = path /\ Open(r)' /\ ~Open(r)
      /\ spoilt \subseteq spoilt' /\ \A q \in Requests : Open(q) /\ Tmp(q) = path => path \in spoilt'
  BY <1>1, <1>2 DEF Opens, Ino, Tmp, Open, PhaseInv
<1>6. \A q \in Requests : Open(q) => Ino(q) \in Requests /\ Tmp(q) \in Temps
  <2>1. \A q \in Requests : Open(q) => Tmp(q) \in Temps
    BY DEF PhaseInv
  <2>2. \A q \in Requests : Open(q) => Ino(q) \in Requests
    BY Records DEF TypeInv, TypeOK, Open, Ino
  <2>. QED BY <2>1, <2>2
<1>7. \A p \in Paths : dir[p] # NoFile => dir[p] \in Requests /\ dir[p] # r /\ Tmp(dir[p]) # NoFile
  BY <1>1 DEF DirInv
<1>8. \A p \in Paths : p # path => dir[p] # i
  BY <1>1, <1>3, <1>7 DEF DirInv
<1>9. Tmp(i)' = path
  BY <1>1, <1>3, <1>5 DEF DirInv
<1>10. \A p \in Paths : dir[p] # NoFile => opener[dir[p]] \in Requests /\ opener[dir[p]] # r
  BY <1>1, <1>7 DEF DirInv
<1>11. DirInv'
  <2>1. (\A p, q \in Paths : dir[p] # NoFile /\ dir[p] = dir[q] => p = q)'
    BY <1>4, <1>8 DEF DirInv
  <2>2. (\A p \in Paths : dir[p] # NoFile => Tmp(dir[p]) # NoFile)'
    <3>. SUFFICES ASSUME NEW p \in Paths, dir'[p] # NoFile
                  PROVE  Tmp(dir[p])' # NoFile
      OBVIOUS
    <3>1. CASE p = path
      BY <1>1, <1>4, <1>9, <3>1 DEF Tmp
    <3>2. CASE p # path
      BY <1>4, <1>5, <1>7, <3>2 DEF Tmp
    <3>. QED BY <3>1, <3>2
  <2>3. (\A t \in Temps : dir[t] # NoFile => Tmp(dir[t]) = t)'
    <3>. SUFFICES ASSUME NEW t \in Temps, dir'[t] # NoFile
                  PROVE  Tmp(dir[t])' = t
      OBVIOUS
    <3>1. CASE t = path
      BY <1>1, <1>4, <1>9, <3>1 DEF Tmp
    <3>2. CASE t # path
      <4>1. dir'[t] = dir[t] /\ dir[t] \in Requests /\ dir[t] # r /\ Tmp(dir[t]) = t
        BY <1>1, <1>4, <1>7, <3>2 DEF DirInv
      <4>. QED BY <1>5, <4>1 DEF Tmp
    <3>. QED BY <3>1, <3>2
  <2>4. (\A q \in Requests : Open(q) => Tmp(Ino(q)) = Tmp(q))'
    <3>. SUFFICES ASSUME NEW q \in Requests, Open(q)'
                  PROVE  Tmp(Ino(q))' = Tmp(q)'
      OBVIOUS
    <3>1. CASE q = r
      BY <1>5, <1>9, <3>1 DEF Tmp
    <3>2. CASE q # r
      <4>1. Open(q) /\ Ino(q) \in Requests /\ Ino(q)' = Ino(q) /\ Tmp(q)' = Tmp(q) /\ Tmp(Ino(q)) = Tmp(q)
        BY <1>5, <1>6, <3>2 DEF DirInv
      <4>2. Ino(q) # r
        BY <1>1, <1>6, <4>1
      <4>. QED BY <1>5, <4>1, <4>2 DEF Tmp
    <3>. QED BY <3>1, <3>2
  <2>5. (\A j \in Requests : opener[j] # j => Tmp(j) # NoFile /\ Tmp(opener[j]) = Tmp(j))'
    <3>. SUFFICES ASSUME NEW j \in Requests, opener'[j] # j
                  PROVE  Tmp(j)' # NoFile /\ Tmp(opener[j])' = Tmp(j)'
      OBVIOUS
    <3>1. CASE j = i
      BY <1>1, <1>4, <1>5, <1>9, <3>1 DEF Tmp
    <3>2. CASE j # i
      <4>1. opener'[j] = opener[j] /\ opener[j] \in Requests /\ Tmp(j) # NoFile /\ Tmp(opener[j]) = Tmp(j)
        BY <1>1, <1>4, <3>2 DEF DirInv
      <4>2. j # r /\ opener[j] # r
        BY <4>1
      <4>. QED BY <1>5, <4>1, <4>2 DEF Tmp
    <3>. QED BY <3>1, <3>2
  <2>6. (\A p \in Paths : dir[p] # NoFile /\ Open(opener[dir[p]]) => Ino(opener[dir[p]]) = dir[p])'
    <3>. SUFFICES ASSUME NEW p \in Paths, dir'[p] # NoFile, Open(opener[dir[p]])'
                  PROVE  Ino(opener[dir[p]])' = dir'[p]
      OBVIOUS
    <3>1. CASE p = path
      BY <1>4, <1>5, <3>1 DEF Ino
    <3>2. CASE p # path
      <4>1. dir'[p] = dir[p] /\ dir[p] \in Requests /\ dir[p] # i /\ opener'[dir[p]] = opener[dir[p]]
        BY <1>4, <1>7, <1>8, <3>2
      <4>2. opener[dir[p]] \in Requests /\ opener[dir[p]] # r
        BY <1>10, <4>1, <1>1
      <4>3. state'[opener[dir[p]]] = state[opener[dir[p]]]
        BY <1>5, <4>2
      <4>. QED BY <4>1, <4>3, <1>1 DEF Open, Ino, DirInv
    <3>. QED BY <3>1, <3>2
  <2>. QED BY <2>1, <2>2, <2>3, <2>4, <2>5, <2>6 DEF DirInv
<1>12. ASSUME NEW q \in Requests, q # r, Open(q), Tmp(q) \notin spoilt'
       PROVE  Tmp(q) # path /\ dir[Tmp(q)] = Ino(q) /\ opener[Ino(q)] = q /\ Ino(q) # i
  <2>1. Tmp(q) # path /\ Tmp(q) \notin spoilt
    BY <1>5, <1>12
  <2>2. dir[Tmp(q)] = Ino(q) /\ opener[Ino(q)] = q
    BY <1>12, <2>1 DEF SharedInv
  <2>. QED BY <1>1, <1>6, <1>8, <1>12, <2>1, <2>2
<1>13. SharedInv'
  <2>1. ASSUME NEW q \in Requests, NEW s \in Requests, q # s, Open(q)', Open(s)', Tmp(q)' = Tmp(s)'
        PROVE  Tmp(s)' \in spoilt'
    <3>1. CASE q = r
      BY <1>5, <2>1, <3>1
    <3>2. CASE s = r
      BY <1>5, <2>1, <3>2
    <3>3. CASE q # r /\ s # r
      BY <1>5, <2>1, <3>3 DEF SharedInv
    <3>. QED BY <3>1, <3>2, <3>3
  <2>2. ASSUME NEW q \in Requests, Open(q)', Tmp(q)' \notin spoilt'
        PROVE  dir'[Tmp(q)'] = Ino(q)' /\ opener'[Ino(q)'] = q
    <3>1. CASE q = r
      BY <1>4, <1>5, <3>1
    <3>2. CASE q # r
      BY <1>1, <1>4, <1>5, <1>6, <1>12, <2>2, <3>2
    <3>. QED BY <3>1, <3>2
  <2>3. ASSUME NEW n \in Names, NEW q \in Requests, Open(q)', dir'[n] = Ino(q)'
        PROVE  Tmp(q)' \in spoilt'
    <3>1. dir'[n] = dir[n] /\ dir[n] # i
      BY <1>1, <1>4, <1>8
    <3>2. q # r
      BY <1>5, <2>3, <3>1
    <3>3. Open(q) /\ Tmp(q) \in spoilt
      BY <1>5, <2>3, <3>1, <3>2 DEF SharedInv
    <3>. QED BY <1>5, <3>2, <3>3
  <2>. QED BY <2>1, <2>2, <2>3 DEF SharedInv
<1>14. BytesInv'
  <2>. SUFFICES ASSUME NEW q \in Requests, Open(q)', ~Spoilt(q)'
                PROVE  /\ state'[q].buf # << >> \/ serving' => state'[q].pos = Len(data'[Ino(q)'])
                       /\ data'[Ino(q)'] \o state'[q].buf = sent'[q]
    BY DEF BytesInv
  <2>1. CASE q = r
    <3>1. /\ state'[r].pos = 0 /\ state'[r].buf = sent'[r] /\ sent'[r] \in Seq(Units)
          /\ data'[i] = << >>
      BY <1>2 DEF Opens
    <3>2. << >> \o sent'[r] = sent'[r] /\ Len(<< >>) = 0
      BY <3>1, ConcatEmptySeq, EmptyBuffer
    <3>. QED BY <1>5, <2>1, <3>1, <3>2
  <2>2. CASE q # r
    <3>1. Open(q) /\ Tmp(q) \notin spoilt' /\ ~Spoilt(q)
      BY <1>5, <2>2 DEF Spoilt, Shared, Tmp
    <3>2. Ino(q) # i /\ Ino(q) \in Requests
      BY <1>6, <1>12, <2>2, <3>1
    <3>3. data'[Ino(q)] = data[Ino(q)]
      BY <1>2, <3>2 DEF Opens
    <3>4. serving' = serving
      BY DEF Opens
    <3>. QED BY <1>5, <2>2, <3>1, <3>3, <3>4 DEF BytesInv
  <2>. QED BY <2>1, <2>2
<1>15. FileIsWholeUpload'
  <2>. SUFFICES ASSUME NEW n \in Names, dir'[n] # NoFile, (~Spoilt(opener[dir[n]]))'
                PROVE  (data[dir[n]] = sent[opener[dir[n]]])'
    BY DEF FileIsWholeUpload
  <2>1. PICK j \in Requests : j = dir[n] /\ j = dir'[n] /\ j # i
    BY <1>1, <1>4, <1>7, <1>8
  <2>2. PICK o \in Requests : o = opener[j] /\ o = opener'[j] /\ o # r
    BY <1>1, <1>4, <1>10, <2>1
  <2>3. ~Spoilt(o)
    BY <1>5, <2>1, <2>2 DEF Spoilt, Shared
  <2>4. data'[j] = data[j] /\ sent'[o] = sent[o]
    BY <1>2, <1>5, <2>1, <2>2 DEF Opens
  <2>5. data[j] = sent[o]
    BY <1>1, <2>1, <2>2, <2>3 DEF FileIsWholeUpload
  <2>. QED BY <2>1, <2>2, <2>4, <2>5
<1>16. TmpInv'
  <2>. SUFFICES ASSUME NEW t \in Temps, dir'[t] # NoFile
                PROVE  \E q \in Requests : Tmp(q)' = t /\ (Open(q)' \/ state'[q].reply = 500)
    BY DEF TmpInv
  <2>1. CASE t = path
    BY <1>5, <2>1
  <2>2. CASE t # path
    <3>1. PICK q \in Requests : Tmp(q) = t /\ (Open(q) \/ state[q].reply = 500)
      BY <1>1, <1>4, <2>2 DEF TmpInv
    <3>. QED BY <1>1, <1>5, <3>1
  <2>. QED BY <2>1, <2>2
<1>. QED BY <1>11, <1>13, <1>14, <1>15, <1>16

-----------------------------------------------------------------------------
(* fclose(), access(), rename(). *)

(* r is answered, after what was in its buffer was handed over; moved: its   *)
(* temporary file, or the one that has its path, got the firmware name.      *)
Saves(r, flushed, moved) ==
  /\ opener' = opener /\ sent' = sent /\ serving' = serving
  /\ spoilt \subseteq spoilt' /\ (r \in spoilt' \/ flushed)
  /\ \A q \in Requests : q # r => state'[q] = state[q]
  /\ ~Open(r)' /\ Tmp(r)' = Tmp(r) /\ state[r].reply = 0
  /\ state'[r].reply = IF moved \/ dir[Tmp(r)] = NoFile THEN 200 ELSE 500
  /\ \A i \in Requests : i # Ino(r) => data'[i] = data[i]
  /\ flushed /\ state[r].pos = Len(data[Ino(r)]) => data'[Ino(r)] = data[Ino(r)] \o state[r].buf
  /\ moved => dir[Tmp(r)] # NoFile
  /\ dir' = IF moved THEN [dir EXCEPT ![Final(r)] = dir[Tmp(r)], ![Tmp(r)] = NoFile] ELSE dir

(* The last call of the handler for an open file.                            *)
LEMMA SaveSaves ==
  ASSUME HttpInv, NEW r \in Requests, Save(r)
  PROVE  /\ TypeInv' /\ PhaseInv' /\ Open(r) /\ serving
         /\ \E flushed, moved \in BOOLEAN : Saves(r, flushed, moved)
<1>1. /\ state \in [Requests -> ConnectionState] /\ state[r] \in ConnectionState
      /\ state[r].phase = "complete" /\ Open(r) /\ serving
      /\ opener' = opener /\ sent' = sent /\ serving' = serving
  BY DEF Save, Saving, HttpInv, TypeInv, TypeOK
<1>2. PICK flushed \in BOOLEAN, renamed \in BOOLEAN :
        /\ HandOver(r, state[r].buf, flushed)
        /\ spoilt' = spoilt \union (IF flushed THEN {} ELSE {r})
        /\ IF renamed \/ dir[Tmp(r)] = NoFile THEN Answer(r, 200) ELSE Answer(r, 500)
        /\ dir' = IF renamed /\ dir[Tmp(r)] # NoFile
                  THEN [dir EXCEPT ![Final(r)] = dir[Tmp(r)], ![Tmp(r)] = NoFile] ELSE dir
  <2>1. May("flush") \subseteq BOOLEAN /\ May("rename") \subseteq BOOLEAN
    BY DEF May
  <2>. QED BY <2>1 DEF Save
<1>3. PICK moved \in BOOLEAN : moved <=> renamed /\ dir[Tmp(r)] # NoFile
  <2>1. CASE renamed /\ dir[Tmp(r)] # NoFile
    BY <2>1
  <2>2. CASE ~(renamed /\ dir[Tmp(r)] # NoFile)
    BY <2>2
  <2>. QED BY <2>1, <2>2
<1>4. PICK code \in {200, 400, 500} :
        /\ Answer(r, code)
        /\ code = IF moved \/ dir[Tmp(r)] = NoFile THEN 200 ELSE 500
  <2>1. CASE renamed \/ dir[Tmp(r)] = NoFile
    <3>1. Answer(r, 200) /\ (moved \/ dir[Tmp(r)] = NoFile)
      BY <1>2, <1>3, <2>1
    <3>. QED BY <3>1
  <2>2. CASE ~(renamed \/ dir[Tmp(r)] = NoFile)
    <3>1. Answer(r, 500) /\ ~(moved \/ dir[Tmp(r)] = NoFile)
      BY <1>2, <1>3, <2>2
    <3>. QED BY <3>1
  <2>. QED BY <2>1, <2>2
<1>5. PICK d \in ConnectionState :
        /\ Set(r, d) /\ d.phase = "done" /\ d.reply = code /\ d.inode = NoFile /\ d.pos = 0
        /\ d.buf = << >> /\ d.tmp = state[r].tmp /\ d.pieces = state[r].pieces
  <2>1. PICK d \in ConnectionState : d = Answered(r, code)
    BY <1>1, AnswerRecord
  <2>2. Set(r, d)
    BY <1>4, <2>1 DEF Answer, Answered
  <2>. QED BY <1>1, <2>1, <2>2, AnswerRecord
<1>6. /\ state' \in [Requests -> ConnectionState] /\ state'[r] = d
      /\ \A q \in Requests : q # r => state'[q] = state[q]
  BY <1>1, <1>5, SetOne
<1>7. state[r].buf \in Seq(Units)
  BY <1>1, Records, BufferIsSeq
<1>8. /\ data' \in [Requests -> Seq(Units)]
      /\ \A i \in Requests : i # Ino(r) => data'[i] = data[i]
      /\ flushed /\ state[r].pos = Len(data[Ino(r)]) => data'[Ino(r)] = data[Ino(r)] \o state[r].buf
  <2>1. PICK u \in Seq(Units) : u = state[r].buf
    BY <1>7
  <2>2. HandOver(r, u, flushed) /\ TypeInv /\ Open(r)
    BY <1>1, <1>2, <2>1 DEF HttpInv
  <2>3. /\ data' \in [Requests -> Seq(Units)]
        /\ \A i \in Requests : i # Ino(r) => data'[i] = data[i]
        /\ flushed /\ state[r].pos = Len(data[Ino(r)]) => data'[Ino(r)] = data[Ino(r)] \o u
    BY <2>2, HandOverEffect
  <2>. QED BY <2>1, <2>3
<1>9. state[r].reply = 0 /\ Tmp(r) \in Temps /\ Tmp(r) # NoFile
  BY <1>1, HttpAssumption DEF HttpInv, PhaseInv
<1>10. /\ spoilt \subseteq spoilt' /\ (r \in spoilt' \/ flushed)
       /\ spoilt' \subseteq Requests \union Temps
  BY <1>2 DEF HttpInv, TypeInv, TypeOK
<1>11. /\ dir' = IF moved THEN [dir EXCEPT ![Final(r)] = dir[Tmp(r)], ![Tmp(r)] = NoFile] ELSE dir
       /\ dir' \in [Paths -> Requests \union {NoFile}]
  <2>1. dir \in [Paths -> Requests \union {NoFile}] /\ Tmp(r) \in Paths
    BY <1>9 DEF HttpInv, TypeInv, TypeOK, Paths
  <2>. QED BY <1>2, <1>3, <2>1
<1>12. TypeInv'
  <2>1. TypeOK'
    <3>1. \A j \in Requests : \A k \in DOMAIN data'[j] : data'[j][k] \in Units
      BY <1>8
    <3>2. \A q \in Requests : state'[q].phase = "done" => state'[q].inode = NoFile
      <4>1. \A q \in Requests : state[q].phase = "done" => state[q].inode = NoFile
        BY DEF HttpInv, TypeInv, TypeOK
      <4>. QED BY <1>5, <1>6, <4>1
    <3>. QED BY <1>1, <1>6, <1>10, <1>11, <3>1, <3>2 DEF HttpInv, TypeInv, TypeOK
  <2>2. \A q \in Requests : state'[q].pos + Len(state'[q].buf) <= state'[q].pieces
    <3>1. d.pos + Len(d.buf) <= d.pieces
      <4>1. PICK n \in Nat : n = state[r].pieces
        BY <1>1, Records, HttpAssumption
      <4>2. d.pos = 0 /\ Len(d.buf) = 0 /\ d.pieces = n
        BY <1>5, <4>1, EmptyBuffer
      <4>. QED BY <4>2
    <3>. QED BY <1>6, <3>1 DEF HttpInv, TypeInv
  <2>. QED BY <1>1, <1>8, <2>1, <2>2 DEF HttpInv, TypeInv
<1>13. PhaseInv'
  BY <1>5, <1>6 DEF HttpInv, PhaseInv, Open, Tmp
<1>14. Saves(r, flushed, moved)
  <2>1. ~Open(r)' /\ Tmp(r)' = Tmp(r) /\ state'[r].reply = code
    BY <1>5, <1>6 DEF Open, Tmp
  <2>2. moved => dir[Tmp(r)] # NoFile
    BY <1>3
  <2>3. state'[r].reply = IF moved \/ dir[Tmp(r)] = NoFile THEN 200 ELSE 500
    BY <1>4, <2>1
  <2>4. dir' = IF moved THEN [dir EXCEPT ![Final(r)] = dir[Tmp(r)], ![Tmp(r)] = NoFile] ELSE dir
    BY <1>11
  <2>. QED BY <1>1, <1>6, <1>8, <1>9, <1>10, <2>1, <2>2, <2>3, <2>4 DEF Saves
<1>. QED BY <1>1, <1>12, <1>13, <1>14

(* What rename() leaves and moves.                                           *)
LEMMA SaveDir ==
  ASSUME HttpInv, NEW r \in Requests, Open(r),
         NEW flushed \in BOOLEAN, NEW moved \in BOOLEAN, Saves(r, flushed, moved)
  PROVE  /\ Tmp(r) \in Temps /\ Final(r) \in Names /\ Tmp(r) # Final(r)
         /\ \A p \in Paths : p # Tmp(r) /\ p # Final(r) => dir'[p] = dir[p]
         /\ moved  => dir'[Tmp(r)] = NoFile /\ dir'[Final(r)] = dir[Tmp(r)]
         /\ ~moved => dir' = dir
<1>1. Tmp(r) \in Temps
  BY DEF HttpInv, PhaseInv
<1>2. Final(r) \in Names
  BY <1>1 DEF Temps, Tmp, Final
<1>3. Tmp(r) # Final(r) /\ Tmp(r) \in Paths /\ Final(r) \in Paths
  BY <1>1, <1>2, HttpAssumption DEF Paths
<1>4. dir \in [Paths -> Requests \union {NoFile}]
  BY DEF HttpInv, TypeInv, TypeOK
<1>5. CASE moved
  <2>1. dir' = [dir EXCEPT ![Final(r)] = dir[Tmp(r)], ![Tmp(r)] = NoFile]
    BY <1>5 DEF Saves
  <2>. QED BY <1>1, <1>2, <1>3, <1>4, <1>5, <2>1
<1>6. CASE ~moved
  BY <1>1, <1>2, <1>3, <1>6 DEF Saves
<1>. QED BY <1>5, <1>6

(* What gets a firmware name is the whole upload.                            *)
LEMMA SaveKeeps ==
  ASSUME HttpInv, NEW r \in Requests, Open(r), serving,
         NEW flushed \in BOOLEAN, NEW moved \in BOOLEAN, Saves(r, flushed, moved)
  PROVE  (DirInv /\ SharedInv /\ BytesInv /\ FileIsWholeUpload /\ TmpInv)'
<1>. USE DEF HttpInv
<1>1. /\ dir \in [Paths -> Requests \union {NoFile}] /\ opener \in [Requests -> Requests]
      /\ NoFile \notin Requests
      /\ \A t \in Temps : t \in Paths /\ t \notin Names
      /\ \A n \in Names : n \in Paths /\ n \notin Temps
      /\ \A p \in Paths : p \in Temps \/ p \in Names
  BY HttpAssumption DEF TypeInv, TypeOK, Paths
<1>2. PICK t \in Temps, f \in Names : t = Tmp(r) /\ f = Final(r)
  BY SaveDir
<1>3. /\ \A p \in Paths : p # t /\ p # f => dir'[p] = dir[p]
      /\ moved  => dir'[t] = NoFile /\ dir'[f] = dir[t] /\ dir[t] # NoFile
      /\ ~moved => dir' = dir
  <2>1. moved => dir[Tmp(r)] # NoFile
    BY DEF Saves
  <2>. QED BY <1>2, <2>1, SaveDir
<1>4. /\ opener' = opener /\ sent' = sent /\ serving' = serving
      /\ spoilt \subseteq spoilt' /\ (r \in spoilt' \/ flushed)
      /\ \A q \in Requests : q # r => state'[q] = state[q]
      /\ ~Open(r)'
      /\ \A i \in Requests : i # Ino(r) => data'[i] = data[i]
  BY DEF Saves
<1>5. \A q \in Requests : Tmp(q)' = Tmp(q)
  BY <1>4 DEF Saves, Tmp
<1>6. \A q \in Requests : Open(q)' => q # r /\ Open(q) /\ Ino(q)' = Ino(q)
  BY <1>4 DEF Open, Ino
<1>7. \A q \in Requests : Spoilt(q) => Spoilt(q)'
  BY <1>4, <1>5 DEF Spoilt, Shared, Tmp
<1>8. \A q \in Requests : Open(q) => Ino(q) \in Requests /\ Tmp(q) \in Temps
  <2>1. \A q \in Requests : Open(q) => Tmp(q) \in Temps
    BY DEF PhaseInv
  <2>2. \A q \in Requests : Open(q) => Ino(q) \in Requests
    BY Records DEF TypeInv, TypeOK, Open, Ino
  <2>. QED BY <2>1, <2>2
<1>. DEFINE from(p) == IF moved /\ p = f THEN t ELSE p
<1>9. \A p \in Paths : dir'[p] # NoFile =>
        /\ from(p) \in Paths /\ dir'[p] = dir[from(p)] /\ dir'[p] \in Requests
        /\ ~(moved /\ p = t)
  BY <1>1, <1>3
<1>10. DirInv'
  <2>1. (\A p, q \in Paths : dir[p] # NoFile /\ dir[p] = dir[q] => p = q)'
    <3>. SUFFICES ASSUME NEW p \in Paths, NEW q \in Paths, dir'[p] # NoFile, dir'[p] = dir'[q]
                  PROVE  p = q
      OBVIOUS
    <3>1. from(p) = from(q)
      BY <1>9 DEF DirInv
    <3>. QED BY <1>9, <3>1
  <2>2. (\A p \in Paths : dir[p] # NoFile => Tmp(dir[p]) # NoFile)'
    <3>. SUFFICES ASSUME NEW p \in Paths, dir'[p] # NoFile
                  PROVE  Tmp(dir[p])' # NoFile
      OBVIOUS
    <3>1. PICK j \in Requests : j = dir'[p] /\ j = dir[from(p)] /\ from(p) \in Paths
      BY <1>9
    <3>2. Tmp(j) # NoFile
      BY <1>1, <3>1 DEF DirInv
    <3>. QED BY <1>5, <3>1, <3>2 DEF Tmp
  <2>3. (\A s \in Temps : dir[s] # NoFile => Tmp(dir[s]) = s)'
    <3>. SUFFICES ASSUME NEW s \in Temps, dir'[s] # NoFile
                  PROVE  Tmp(dir[s])' = s
      OBVIOUS
    <3>1. PICK j \in Requests : j = dir'[s] /\ j = dir[s]
      BY <1>1, <1>9
    <3>2. Tmp(j) = s
      BY <1>1, <3>1 DEF DirInv
    <3>. QED BY <1>5, <3>1, <3>2 DEF Tmp
  <2>4. (\A q \in Requests : Open(q) => Tmp(Ino(q)) = Tmp(q))'
    <3>. SUFFICES ASSUME NEW q \in Requests, Open(q)'
                  PROVE  Tmp(Ino(q))' = Tmp(q)'
      OBVIOUS
    <3>1. PICK j \in Requests : j = Ino(q) /\ j = Ino(q)'
      BY <1>6, <1>8
    <3>2. Tmp(j) = Tmp(q)
      BY <1>6, <3>1 DEF DirInv
    <3>. QED BY <1>5, <3>1, <3>2 DEF Tmp
  <2>5. (\A j \in Requests : opener[j] # j => Tmp(j) # NoFile /\ Tmp(opener[j]) = Tmp(j))'
    <3>. SUFFICES ASSUME NEW j \in Requests, opener'[j] # j
                  PROVE  Tmp(j)' # NoFile /\ Tmp(opener[j])' = Tmp(j)'
      OBVIOUS
    <3>1. PICK o \in Requests : o = opener[j] /\ o = opener'[j]
      BY <1>1, <1>4
    <3>2. Tmp(j) # NoFile /\ Tmp(o) = Tmp(j)
      BY <3>1 DEF DirInv
    <3>. QED BY <1>5, <3>1, <3>2 DEF Tmp
  <2>6. (\A p \in Paths : dir[p] # NoFile /\ Open(opener[dir[p]]) => Ino(opener[dir[p]]) = dir[p])'
    <3>. SUFFICES ASSUME NEW p \in Paths, dir'[p] # NoFile, Open(opener[dir[p]])'
                  PROVE  Ino(opener[dir[p]])' = dir'[p]
      OBVIOUS
    <3>1. PICK j \in Requests : j = dir'[p] /\ j = dir[from(p)] /\ from(p) \in Paths
      BY <1>9
    <3>2. PICK o \in Requests : o = opener[j] /\ o = opener'[j]
      BY <1>1, <1>4
    <3>3. Open(o)'
      BY <3>1, <3>2 DEF Open
    <3>4. Open(o) /\ Ino(o)' = Ino(o)
      BY <1>6, <3>3
    <3>5. Ino(o) = j
      BY <1>1, <3>1, <3>2, <3>4 DEF DirInv
    <3>. QED BY <3>1, <3>2, <3>4, <3>5 DEF Ino
  <2>. QED BY <2>1, <2>2, <2>3, <2>4, <2>5, <2>6 DEF DirInv
<1>11. SharedInv'
  <2>1. ASSUME NEW q \in Requests, NEW s \in Requests, q # s, Open(q)', Open(s)', Tmp(q)' = Tmp(s)'
        PROVE  Tmp(s)' \in spoilt'
    BY <1>4, <1>5, <1>6, <2>1 DEF SharedInv
  <2>2. ASSUME NEW q \in Requests, Open(q)', Tmp(q)' \notin spoilt'
        PROVE  dir'[Tmp(q)'] = Ino(q)' /\ opener'[Ino(q)'] = q
    <3>1. q # r /\ Open(q) /\ Ino(q)' = Ino(q) /\ Tmp(q)' = Tmp(q) /\ Tmp(q) \notin spoilt
      BY <1>4, <1>5, <1>6, <2>2
    <3>2. Tmp(q) # t
      BY <1>2, <3>1 DEF SharedInv
    <3>3. Tmp(q) \in Paths /\ Tmp(q) # f
      BY <1>1, <1>8, <3>1
    <3>4. dir'[Tmp(q)] = dir[Tmp(q)]
      BY <1>3, <3>2, <3>3
    <3>. QED BY <1>4, <3>1, <3>4 DEF SharedInv
  <2>3. ASSUME NEW n \in Names, NEW q \in Requests, Open(q)', dir'[n] = Ino(q)'
        PROVE  Tmp(q)' \in spoilt'
    <3>1. q # r /\ Open(q) /\ dir'[n] = Ino(q) /\ Ino(q) \in Requests
      BY <1>6, <1>8, <2>3
    <3>2. CASE moved /\ n = f
      <4>1. dir[t] = Ino(q)
        BY <1>3, <3>1, <3>2
      <4>2. Tmp(q) = t
        BY <1>1, <3>1, <4>1 DEF DirInv
      <4>. QED BY <1>2, <1>4, <1>5, <3>1, <4>2 DEF SharedInv
    <3>3. CASE ~(moved /\ n = f)
      <4>1. dir[n] = Ino(q)
        BY <1>1, <1>3, <3>1, <3>3
      <4>. QED BY <1>4, <1>5, <3>1, <4>1 DEF SharedInv
    <3>. QED BY <3>2, <3>3
  <2>. QED BY <2>1, <2>2, <2>3 DEF SharedInv
<1>12. BytesInv'
  <2>. SUFFICES ASSUME NEW q \in Requests, Open(q)', ~Spoilt(q)'
                PROVE  /\ state'[q].buf # << >> \/ serving' => state'[q].pos = Len(data'[Ino(q)'])
                       /\ data'[Ino(q)'] \o state'[q].buf = sent'[q]
    BY DEF BytesInv
  <2>1. q # r /\ Open(q) /\ ~Spoilt(q) /\ Ino(q)' = Ino(q) /\ state'[q] = state[q]
    BY <1>4, <1>6, <1>7
  <2>2. Ino(q) # Ino(r) /\ Ino(q) \in Requests
    BY <1>8, <2>1, OneInode DEF Spoilt, Shared, Tmp
  <2>3. data'[Ino(q)] = data[Ino(q)]
    BY <1>4, <2>2
  <2>. QED BY <1>4, <2>1, <2>3 DEF BytesInv
<1>13. FileIsWholeUpload'
  <2>. SUFFICES ASSUME NEW n \in Names, dir'[n] # NoFile, (~Spoilt(opener[dir[n]]))'
                PROVE  (data[dir[n]] = sent[opener[dir[n]]])'
    BY DEF FileIsWholeUpload
  <2>1. PICK j \in Requests : j = dir'[n] /\ j = dir[from(n)]
    BY <1>1, <1>9
  <2>2. PICK o \in Requests : o = opener[j] /\ o = opener'[j]
    BY <1>1, <1>4
  <2>3. ~Spoilt(o)' /\ ~Spoilt(o)
    BY <1>7, <2>1, <2>2 DEF Spoilt, Shared
  <2>4. CASE moved /\ n = f
    <3>1. j = dir[t]
      BY <2>1, <2>4
    <3>2. Tmp(j) = t /\ Tmp(o) = t
      <4>1. Tmp(j) = t
        BY <1>1, <3>1 DEF DirInv
      <4>2. o # j => Tmp(o) = Tmp(j)
        BY <2>2 DEF DirInv
      <4>. QED BY <4>1, <4>2
    <3>3. t \notin spoilt
      BY <2>3, <3>2 DEF Spoilt, Shared, Tmp
    <3>4. j = Ino(r) /\ o = r
      BY <1>2, <2>2, <3>1, <3>3 DEF SharedInv
    <3>5. flushed
      BY <1>4, <2>3, <3>4 DEF Spoilt, Shared
    <3>6. state[r].pos = Len(data[j]) /\ data[j] \o state[r].buf = sent[r]
      BY <2>3, <3>4 DEF BytesInv
    <3>7. data'[j] = data[j] \o state[r].buf
      BY <3>4, <3>5, <3>6 DEF Saves
    <3>. QED BY <1>4, <2>1, <2>2, <3>4, <3>6, <3>7
  <2>5. CASE ~(moved /\ n = f)
    <3>1. j = dir[n]
      BY <2>1, <2>5
    <3>2. j # Ino(r)
      BY <2>2, <2>3, <3>1, OpenFirmware DEF Spoilt
    <3>3. data[j] = sent[o]
      BY <1>1, <2>2, <2>3, <3>1 DEF FileIsWholeUpload
    <3>. QED BY <1>4, <2>1, <2>2, <3>2, <3>3
  <2>. QED BY <2>4, <2>5
<1>14. TmpInv'
  <2>. SUFFICES ASSUME NEW s \in Temps, dir'[s] # NoFile
                PROVE  \E q \in Requests : Tmp(q)' = s /\ (Open(q)' \/ state'[q].reply = 500)
    BY DEF TmpInv
  <2>1. dir[s] # NoFile /\ ~(moved /\ s = t)
    BY <1>1, <1>9
  <2>2. PICK q \in Requests : Tmp(q) = s /\ (Open(q) \/ state[q].reply = 500)
    BY <2>1 DEF TmpInv
  <2>3. CASE q = r
    <3>1. ~moved /\ dir[Tmp(r)] # NoFile
      BY <1>2, <2>1, <2>2, <2>3
    <3>2. state'[r].reply = 500
      BY <3>1 DEF Saves
    <3>. QED BY <1>5, <2>2, <2>3, <3>2
  <2>4. CASE q # r
    <3>1. Open(q)' <=> Open(q)
      BY <1>4, <2>4 DEF Open
    <3>. QED BY <1>4, <1>5, <2>2, <2>4, <3>1
  <2>. QED BY <2>3, <2>4
<1>. QED BY <1>10, <1>11, <1>12, <1>13, <1>14

-----------------------------------------------------------------------------
(* The invariant. *)

(* At the start there is no file and no request.                             *)
LEMMA HttpInvInit == Init => HttpInv
<1>. SUFFICES ASSUME Init PROVE HttpInv
  OBVIOUS
<1>1. New \in ConnectionState
  BY EmptyBuffer, Records, HttpAssumption DEF New
<1>2. /\ state \in [Requests -> ConnectionState]
      /\ \A r \in Requests : state[r].phase = "free" /\ ~Open(r) /\ Tmp(r) = NoFile /\ state[r].pos = 0
                             /\ state[r].buf = << >> /\ state[r].pieces = 0 /\ state[r].reply = 0
                             /\ state[r].inode = NoFile
  BY <1>1 DEF Init, New, Open, Tmp
<1>3. << >> \in Seq(Units)
  BY EmptySeq
<1>4. /\ data \in [Requests -> Seq(Units)] /\ sent \in [Requests -> Seq(Units)]
      /\ opener \in [Requests -> Requests] /\ dir \in [Paths -> Requests \union {NoFile}]
      /\ \A p \in Paths : dir[p] = NoFile
      /\ \A i \in Requests : opener[i] = i
      /\ \A r \in Requests : sent[r] = << >> /\ data[r] = << >>
      /\ serving = TRUE /\ spoilt = {}
  BY <1>3 DEF Init
<1>5. TypeInv
  BY <1>2, <1>4, EmptyBuffer DEF TypeInv, TypeOK
<1>6. \A t \in Temps : t \in Paths
  BY DEF Paths
<1>7. \A n \in Names : n \in Paths
  BY DEF Paths
<1>. QED BY <1>2, <1>4, <1>5, <1>6, <1>7
         DEF HttpInv, PhaseInv, DirInv, SharedInv, BytesInv, FileIsWholeUpload, TmpInv

(* Every callback keeps it.                                                  *)
LEMMA HttpInvStep == HttpInv /\ [Next]_vars => HttpInv'
<1>. SUFFICES ASSUME HttpInv, [Next]_vars PROVE HttpInv'
  OBVIOUS
<1>1. ASSUME TypeInv', PhaseInv', Quiet PROVE HttpInv'
  BY <1>1, QuietKeeps DEF HttpInv
<1>2. ASSUME NEW r \in Requests, Accept(r) PROVE HttpInv'
  BY <1>1, <1>2, AcceptQuiet
<1>3. ASSUME NEW r \in Requests, Ignore(r) PROVE HttpInv'
  BY <1>1, <1>3, IgnoreQuiet
<1>4. ASSUME NEW r \in Requests, WriteTmp(r) PROVE HttpInv'
  BY <1>4, WriteTmpWrites, WriteKeeps DEF HttpInv
<1>5. ASSUME NEW r \in Requests, End(r) \/ Break(r) PROVE HttpInv'
  BY <1>1, <1>5, PhaseStepQuiet
<1>6. ASSUME NEW r \in Requests, NEW path \in Temps, OpenTmp(r, path) PROVE HttpInv'
  BY <1>6, OpenTmpOpens, OpenKeeps DEF HttpInv
<1>7. ASSUME NEW r \in Requests, NEW path \in Temps, OpenTmpFails(r, path) PROVE HttpInv'
  BY <1>1, <1>7, OpenTmpFailsQuiet
<1>8. ASSUME NEW r \in Requests, NothingSaved(r) PROVE HttpInv'
  BY <1>1, <1>8, NothingSavedQuiet
<1>9. ASSUME NEW r \in Requests, Save(r) PROVE HttpInv'
  <2>1. TypeInv' /\ PhaseInv' /\ Open(r) /\ serving
    BY <1>9, SaveSaves
  <2>2. PICK flushed \in BOOLEAN, moved \in BOOLEAN : Saves(r, flushed, moved)
    BY <1>9, SaveSaves
  <2>. QED BY <2>1, <2>2, SaveKeeps DEF HttpInv
<1>10. ASSUME NEW r \in Requests, ExitFlush(r) PROVE HttpInv'
  BY <1>10, ExitFlushWrites, WriteKeeps DEF HttpInv
<1>11. CASE Stop
  BY <1>1, <1>11, StopQuiet
<1>12. CASE UNCHANGED vars
  <2>1. /\ state' = state /\ dir' = dir /\ data' = data /\ opener' = opener
        /\ serving' = serving /\ sent' = sent /\ spoilt' = spoilt
    BY <1>12 DEF vars, disk, ghost
  <2>2. TypeInv' /\ PhaseInv'
    BY <2>1 DEF HttpInv, TypeInv, TypeOK, PhaseInv, Open, Tmp
  <2>3. Quiet
    BY <2>1 DEF Quiet, Ino, Tmp
  <2>. QED BY <1>1, <2>2, <2>3
<1>. QED BY <1>2, <1>3, <1>4, <1>5, <1>6, <1>7, <1>8, <1>9, <1>10, <1>11, <1>12 DEF Next

(* The inductive invariant of the uploads.                                   *)
THEOREM HttpInvariant == Spec => []HttpInv
<1>1. Init => HttpInv
  BY HttpInvInit
<1>2. HttpInv /\ [Next]_vars => HttpInv'
  BY HttpInvStep
<1>. QED BY <1>1, <1>2, PTL DEF Spec

(* Every variable keeps its type.                                            *)
THEOREM HttpTypeCorrect == Spec => []TypeOK
<1>1. HttpInv => TypeOK
  BY DEF HttpInv, TypeInv
<1>. QED BY <1>1, HttpInvariant, PTL

(* A firmware file is the whole upload of the request that made it, however  *)
(* the callbacks interleave and whatever breaks.                             *)
THEOREM FilesAreWhole == Spec => []FileIsWholeUpload
<1>1. HttpInv => FileIsWholeUpload
  BY DEF HttpInv
<1>. QED BY <1>1, HttpInvariant, PTL

(* Only a request on its way, a broken one or one answered 500 has a         *)
(* temporary file.                                                           *)
THEOREM TmpIsAccounted == Spec => []TmpAccounted
<1>1. HttpInv => TmpAccounted
  BY DEF HttpInv, TmpInv, TmpAccounted, PhaseInv, Tmp
<1>. QED BY <1>1, HttpInvariant, PTL

(* One step changes a firmware file only by answering 200 for its name.      *)
FilesChange ==
  \A n \in Names :
    \/ dir'[n] = dir[n] /\ (dir[n] # NoFile => data'[dir[n]] = data[dir[n]])
    \/ \E r \in Requests : /\ state[r].reply = 0 /\ state'[r].reply = 200
                           /\ state[r].tmp[2] = n
    \/ dir[n] # NoFile /\ Shared(opener[dir[n]])

(* No callback changes a firmware file in another way.                       *)
LEMMA FilesChangeStep == HttpInv /\ [Next]_vars => FilesChange
<1>. SUFFICES ASSUME HttpInv, [Next]_vars, NEW n \in Names
              PROVE  \/ dir'[n] = dir[n] /\ (dir[n] # NoFile => data'[dir[n]] = data[dir[n]])
                     \/ \E r \in Requests : /\ state[r].reply = 0 /\ state'[r].reply = 200
                                            /\ state[r].tmp[2] = n
                     \/ dir[n] # NoFile /\ Shared(opener[dir[n]])
  BY DEF FilesChange
<1>. DEFINE same == dir'[n] = dir[n] /\ (dir[n] # NoFile => data'[dir[n]] = data[dir[n]])
            sharedFile == dir[n] # NoFile /\ Shared(opener[dir[n]])
            answered == \E r \in Requests : state[r].reply = 0 /\ state'[r].reply = 200 /\ state[r].tmp[2] = n
<1>1. dir[n] \in Requests \union {NoFile} /\ NoFile \notin Requests /\ n \in Paths /\ n \notin Temps
  BY HttpAssumption DEF HttpInv, TypeInv, TypeOK, Paths
<1>2. (dir' = dir /\ data' = data) => same
  OBVIOUS
<1>3. Quiet => same
  BY DEF Quiet
<1>4. ASSUME NEW r \in Requests, Open(r), Writes(r) PROVE same \/ sharedFile
  <2>1. dir[n] = Ino(r) => sharedFile
    BY <1>4, OpenFirmware DEF Open, Ino
  <2>2. dir[n] # Ino(r) => same
    BY <1>1, <1>4 DEF Writes
  <2>. QED BY <2>1, <2>2
<1>5. ASSUME NEW r \in Requests, NEW path \in Temps, Tmp(r) = NoFile, Opens(r, path) PROVE same
  <2>1. PICK i \in Requests : i = OpenedInode(r, path)
    BY DEF OpenedInode, HttpInv, TypeInv, TypeOK, Paths
  <2>2. path \in Paths /\ path # n
    BY <1>1 DEF Paths
  <2>3. dir'[n] = dir[n]
    BY <1>1, <1>5, <2>1, <2>2 DEF Opens, HttpInv, TypeInv, TypeOK
  <2>4. dir[n] # i
    <3>1. dir[n] # NoFile => Tmp(dir[n]) # NoFile
      BY <1>1 DEF HttpInv, DirInv
    <3>2. dir[path] # NoFile => dir[n] # dir[path]
      BY <1>1, <2>2 DEF HttpInv, DirInv
    <3>. QED BY <1>1, <1>5, <2>1, <3>1, <3>2 DEF OpenedInode
  <2>. QED BY <1>1, <1>5, <2>1, <2>3, <2>4 DEF Opens
<1>6. ASSUME NEW r \in Requests, Save(r)
      PROVE  same \/ sharedFile \/ answered
  <2>1. Open(r) /\ serving
    BY <1>6, SaveSaves
  <2>2. PICK flushed \in BOOLEAN, moved \in BOOLEAN : Saves(r, flushed, moved)
    BY <1>6, SaveSaves
  <2>3. CASE moved /\ n = Final(r)
    BY <2>2, <2>3 DEF Saves, Final
  <2>4. CASE ~(moved /\ n = Final(r))
    <3>1. dir'[n] = dir[n]
      BY <1>1, <2>1, <2>2, <2>4, SaveDir
    <3>2. dir[n] = Ino(r) => sharedFile
      BY <2>1, OpenFirmware DEF Open, Ino
    <3>3. dir[n] # Ino(r) => same
      BY <1>1, <2>2, <3>1 DEF Saves
    <3>. QED BY <3>2, <3>3
  <2>. QED BY <2>3, <2>4
<1>7. ASSUME NEW r \in Requests, Accept(r) PROVE same
  BY <1>3, <1>7, AcceptQuiet
<1>8. ASSUME NEW r \in Requests, Ignore(r) PROVE same
  BY <1>3, <1>8, IgnoreQuiet
<1>9. ASSUME NEW r \in Requests, WriteTmp(r) PROVE same \/ sharedFile
  BY <1>4, <1>9, WriteTmpWrites
<1>10. ASSUME NEW r \in Requests, End(r) \/ Break(r) PROVE same
  BY <1>3, <1>10, PhaseStepQuiet
<1>11. ASSUME NEW r \in Requests, NEW path \in Temps, OpenTmp(r, path) PROVE same
  BY <1>5, <1>11, OpenTmpOpens
<1>12. ASSUME NEW r \in Requests, NEW path \in Temps, OpenTmpFails(r, path) PROVE same
  BY <1>3, <1>12, OpenTmpFailsQuiet
<1>13. ASSUME NEW r \in Requests, NothingSaved(r) PROVE same
  BY <1>3, <1>13, NothingSavedQuiet
<1>14. ASSUME NEW r \in Requests, ExitFlush(r) PROVE same \/ sharedFile
  BY <1>4, <1>14, ExitFlushWrites
<1>15. ASSUME Stop PROVE same
  BY <1>3, <1>15, StopQuiet
<1>16. ASSUME UNCHANGED vars PROVE same
  BY <1>2, <1>16 DEF vars, disk
<1>. HIDE DEF same, sharedFile, answered
<1>17. ASSUME NEW r \in Requests,
              \/ Accept(r) \/ Ignore(r) \/ WriteTmp(r) \/ End(r)
              \/ \E path \in Temps : OpenTmp(r, path) \/ OpenTmpFails(r, path)
              \/ NothingSaved(r) \/ Save(r) \/ Break(r) \/ ExitFlush(r)
       PROVE  same \/ sharedFile \/ answered
  <2>1. CASE Save(r)
    BY <1>6, <2>1
  <2>2. CASE \E path \in Temps : OpenTmp(r, path) \/ OpenTmpFails(r, path)
    BY <1>11, <1>12, <2>2
  <2>. QED BY <1>7, <1>8, <1>9, <1>10, <1>13, <1>14, <1>17, <2>1, <2>2
<1>18. same \/ sharedFile \/ answered
  BY <1>15, <1>16, <1>17 DEF Next
<1>. QED BY <1>18 DEF same, sharedFile, answered

(* A firmware file changes only by an upload of its name that is answered    *)
(* 200, or through a temporary path that two open FILEs have shared; neither *)
(* a failed write nor a second part changes another file.                    *)
THEOREM FilesChangeOnlyByAnswers == Spec => FilesChangeOnlyByOk
<1>1. HttpInv /\ [Next]_vars => [FilesChange]_vars
  BY FilesChangeStep
<1>2. Spec => [][FilesChange]_vars
  BY <1>1, HttpInvariant, PTL DEF Spec
<1>. QED BY <1>2 DEF FilesChangeOnlyByOk, FilesChange
=============================================================================
