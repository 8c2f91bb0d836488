------------------------ MODULE UploadProtocolProofs ------------------------
(***************************************************************************)
(* Proofs about UploadProtocol, for every set of names, frames and         *)
(* digests, uploads of any length, every combination of disk faults, with  *)
(* and without crashes.                                                    *)
(***************************************************************************)
EXTENDS UploadProtocol, SequenceTheorems, TLAPS

(* An active upload has its temporary file.                                 *)
TmpExists == u.active => fs[Tmp] \in Contents

IInv == TypeOK /\ TmpExists /\ HashMatchesFile

-----------------------------------------------------------------------------
(* Lemmas on the data: names, frames and the parts of a file.               *)

(* The temporary file of a name is no firmware file.                        *)
LEMMA TmpIsPath == \A n \in Names : n \in Paths /\ TmpOf[n] \in Paths \ Names
  BY UploadAssumption DEF Paths

(* What is left of a file after a short write or a crash is a content.      *)
LEMMA PrefixIsContent ==
  \A c \in Contents : \A k \in 0..Len(c) : SubSeq(c, 1, k) \in Contents
<1>. SUFFICES ASSUME NEW c \in Contents, NEW k \in 0..Len(c)
              PROVE  SubSeq(c, 1, k) \in Contents
  OBVIOUS
<1>1. Len(c) \in Nat /\ \A i \in 1..Len(c) : c[i] \in Symbols
  BY LenProperties DEF Contents
<1>2. 1 \in Int /\ k \in Int /\ \A i \in 1..k : c[i] \in Symbols
  BY <1>1
<1>. QED BY <1>2, SubSeqProperties DEF Contents

(* Appending adds the lengths.                                              *)
LEMMA Append2 ==
  \A c, d \in Contents : c \o d \in Contents /\ Len(c \o d) = Len(c) + Len(d)
  BY ConcatProperties DEF Contents

(* An active upload has the fields of one, an idle one is Idle.             *)
LEMMA States ==
  ASSUME NEW v \in ActiveStates \union {Idle}
  PROVE  IF v.active THEN v \in ActiveStates ELSE v = Idle
<1>1. CASE v \in ActiveStates
  <2>1. v.active = TRUE
    BY <1>1 DEF ActiveStates
  <2>. QED BY <1>1, <2>1
<1>2. CASE v = Idle
  <2>1. v.active = FALSE
    BY <1>2 DEF Idle
  <2>. QED BY <1>2, <2>1
<1>. QED BY <1>1, <1>2

-----------------------------------------------------------------------------
(* The three ways in which most steps change the state. *)

(* A command that is only answered.                                         *)
LEMMA QuietStep ==
  ASSUME IInv, UNCHANGED <<u, fs, flaws>>, reply' \in Kinds
  PROVE  IInv'
  BY DEF IInv, TypeOK, TmpExists, HashMatchesFile, Tmp, flaws, ActiveStates

(* What fclose() leaves of the temporary file is a content.                 *)
LEMMA ClosedIsContent ==
  ASSUME IInv, u.active
  PROVE  Closed \subseteq Contents
<1>1. fs[Tmp] \in Contents
  BY DEF IInv, TmpExists
<1>2. \A k \in 0..Len(fs[Tmp]) : SubSeq(fs[Tmp], 1, k) \in Contents
  BY <1>1, PrefixIsContent
<1>. QED BY <1>1, <1>2 DEF Closed

(* An upload ends without a result: its temporary file goes, or unlink()    *)
(* fails and leaves what fclose() made of it.                               *)
LEMMA DiscardFile ==
  ASSUME IInv, u.active, NEW k \in Kinds, Discard(k)
  PROVE  \E c \in Contents \union {NoFile} :
           /\ fs' = [fs EXCEPT ![Tmp] = c]
           /\ (c = NoFile /\ left' = left) \/ left' = left \union {u.name}
  BY ClosedIsContent DEF Discard

(* Such an end keeps the invariant.                                         *)
LEMMA DiscardStep ==
  ASSUME IInv, u.active, NEW k \in Kinds, Discard(k)
  PROVE  IInv'
<1>1. u' = Idle /\ ~u'.active
  BY DEF Discard, Idle
<1>2. u.name \in Names
  BY States DEF IInv, TypeOK, ActiveStates
<1>3. PICK c \in Contents \union {NoFile} :
        /\ fs' = [fs EXCEPT ![Tmp] = c]
        /\ (c = NoFile /\ left' = left) \/ left' = left \union {u.name}
  BY DiscardFile
<1>4. fs' \in [Paths -> Contents \union {NoFile}] /\ left' \subseteq Names
  BY <1>2, <1>3 DEF IInv, TypeOK
<1>. QED
  BY <1>1, <1>4 DEF IInv, TypeOK, TmpExists, HashMatchesFile, Discard, Answer

(* A step that leaves no upload active only has to keep the types.           *)
LEMMA IdleStep ==
  ASSUME IInv, u' = Idle, hit' = FALSE, reply' \in Kinds, flawed' \subseteq Names, left' \subseteq Names,
         fs' \in [Paths -> Contents \union {NoFile}]
  PROVE  IInv'
  BY DEF IInv, TypeOK, TmpExists, HashMatchesFile, Idle

-----------------------------------------------------------------------------
(* The steps that bring bytes. *)

(* PREUPLOAD begins with an empty file and a digest of nothing, or fails.    *)
LEMMA PreuploadStep ==
  ASSUME IInv, NEW n \in Names, NEW size \in 1..MaxBytes, NEW d \in Digests,
         NEW up \in UpperCase, Preupload(n, size, d, up)
  PROVE  IInv'
<1>1. u' = [active |-> TRUE, name |-> n, size |-> size, received |-> 0,
            hashed |-> << >>, expected |-> d, upper |-> up]
  BY DEF Preupload
<1>2. << >> \in Contents /\ Len(<< >>) = 0 /\ 0 \in 0..MaxBytes
  BY EmptySeq, UploadAssumption DEF Contents
<1>3. u' \in ActiveStates
  BY <1>1, <1>2 DEF ActiveStates
<1>4. fs' \in [Paths -> Contents \union {NoFile}] /\ fs'[TmpOf[n]] = << >>
  BY <1>2, TmpIsPath DEF IInv, TypeOK, Preupload
<1>5. TypeOK'
  BY <1>3, <1>4 DEF IInv, TypeOK, Preupload, Answer, Kinds
<1>6. TmpExists' /\ HashMatchesFile'
  BY <1>1, <1>2, <1>4 DEF TmpExists, HashMatchesFile, Tmp
<1>. QED BY <1>5, <1>6 DEF IInv

(* A short fwrite() changes the temporary file alone.                        *)
LEMMA ShortWriteStep ==
  ASSUME IInv, NEW f \in Frames, FrameShortWrite(f)
  PROVE  IInv'
<1>1. u \in ActiveStates /\ fs[Tmp] \in Contents /\ Tmp \in Paths
  BY States, TmpIsPath DEF IInv, TypeOK, TmpExists, FrameShortWrite, ActiveStates, Tmp
<1>2. f.data \in Contents
  BY UploadAssumption
<1>3. PICK k \in 0..(Len(f.data) - 1) : fs' = [fs EXCEPT ![Tmp] = @ \o SubSeq(f.data, 1, k)]
  BY DEF FrameShortWrite
<1>4. k \in 0..Len(f.data)
  BY <1>2, LenProperties DEF Contents
<1>5. fs[Tmp] \o SubSeq(f.data, 1, k) \in Contents
  BY <1>1, <1>2, <1>4, PrefixIsContent, Append2
<1>6. fs' \in [Paths -> Contents \union {NoFile}] /\ fs'[Tmp] \in Contents
  BY <1>1, <1>3, <1>5 DEF IInv, TypeOK
<1>7. u' = u /\ hit' = TRUE /\ flawed' = flawed /\ left' = left /\ reply' \in Kinds
  BY DEF FrameShortWrite, Answer, Kinds
<1>8. Tmp' = Tmp
  BY <1>7 DEF Tmp
<1>. QED
  BY <1>6, <1>7, <1>8 DEF IInv, TypeOK, TmpExists, HashMatchesFile

(* A frame goes into the file, the digest and the count alike.               *)
LEMMA AcceptedStep ==
  ASSUME IInv, NEW f \in Frames, FrameAccepted(f)
  PROVE  IInv'
<1>1. u \in ActiveStates /\ fs[Tmp] \in Contents /\ Tmp \in Paths
  BY States, TmpIsPath DEF IInv, TypeOK, TmpExists, FrameAccepted, ActiveStates, Tmp
<1>2. f.data \in Contents /\ Len(f.data) \in Nat /\ u.hashed \in Contents
  BY <1>1, UploadAssumption, LenProperties DEF ActiveStates, Contents
<1>3. /\ fs[Tmp] \o f.data \in Contents
      /\ u.hashed \o f.data \in Contents
      /\ Len(u.hashed \o f.data) = Len(u.hashed) + Len(f.data)
  BY <1>1, <1>2, Append2
<1>4. u.received + Len(f.data) \in 0..MaxBytes
  BY <1>1, <1>2, UploadAssumption DEF FrameAccepted, ActiveStates
<1>5. /\ u' = [u EXCEPT !.hashed = u.hashed \o f.data, !.received = u.received + Len(f.data)]
      /\ fs' = [fs EXCEPT ![Tmp] = fs[Tmp] \o f.data]
      /\ hit' = hit /\ flawed' = flawed /\ left' = left /\ reply' \in Kinds
  BY DEF FrameAccepted, Answer, Kinds, flaws
<1>6. /\ u' \in ActiveStates /\ u'.name = u.name
      /\ u'.hashed = u.hashed \o f.data
      /\ u'.received = u.received + Len(f.data)
  BY <1>1, <1>3, <1>4, <1>5 DEF ActiveStates
<1>7. /\ fs' \in [Paths -> Contents \union {NoFile}]
      /\ Tmp' = Tmp /\ fs'[Tmp] = fs[Tmp] \o f.data
  BY <1>1, <1>3, <1>5, <1>6 DEF IInv, TypeOK, Tmp
<1>8. TypeOK' /\ TmpExists'
  BY <1>3, <1>5, <1>6, <1>7 DEF IInv, TypeOK, TmpExists
<1>9. HashMatchesFile'
  BY <1>3, <1>5, <1>6, <1>7 DEF IInv, HashMatchesFile, FrameAccepted
<1>. QED BY <1>8, <1>9 DEF IInv

-----------------------------------------------------------------------------
(* The steps that end an upload. *)

(* A verified file that is renamed, whatever fclose() made of it.            *)
LEMMA SaveStep ==
  ASSUME IInv, u.active, Save
  PROVE  IInv'
<1>1. u.name \in Names
  BY States DEF IInv, TypeOK, ActiveStates
<1>2. PICK c \in Closed :
        /\ fs' = [fs EXCEPT ![Tmp] = NoFile, ![u.name] = c]
        /\ flawed' = IF hit \/ c # fs[Tmp] THEN flawed \union {u.name}
                     ELSE flawed \ {u.name}
  BY DEF Save
<1>3. c \in Contents
  BY ClosedIsContent
<1>4. fs' \in [Paths -> Contents \union {NoFile}] /\ flawed' \subseteq Names
  BY <1>1, <1>2, <1>3, TmpIsPath DEF IInv, TypeOK
<1>5. u' = Idle /\ hit' = FALSE /\ reply' \in Kinds /\ left' \subseteq Names
  BY DEF Save, Answer, Kinds, IInv, TypeOK
<1>. QED BY <1>4, <1>5, IdleStep

(* A crash, which leaves some of the temporary file.                         *)
LEMMA CrashStep ==
  ASSUME IInv, Crash
  PROVE  IInv'
<1>1. fs' \in [Paths -> Contents \union {NoFile}]
  <2>1. CASE u.active
    <3>1. PICK k \in 0..Len(fs[Tmp]) : fs' = [fs EXCEPT ![Tmp] = SubSeq(@, 1, k)]
      BY <2>1 DEF Crash
    <3>2. SubSeq(fs[Tmp], 1, k) \in Contents
      BY <2>1, PrefixIsContent DEF IInv, TmpExists
    <3>. QED BY <3>1, <3>2 DEF IInv, TypeOK
  <2>2. CASE ~u.active
    BY <2>2 DEF Crash, IInv, TypeOK
  <2>. QED BY <2>1, <2>2
<1>2. u' = Idle /\ hit' = FALSE /\ reply' \in Kinds /\ flawed' \subseteq Names
  BY DEF Crash, Answer, Kinds, IInv, TypeOK
<1>3. left' \subseteq Names
  BY States DEF Crash, IInv, TypeOK, ActiveStates
<1>. QED BY <1>1, <1>2, <1>3, IdleStep

-----------------------------------------------------------------------------
(* The inductive invariant: one step per action. *)

(* Every step keeps the invariant.                                           *)
LEMMA InvStep == IInv /\ [Next]_vars => IInv'
<1>. SUFFICES ASSUME IInv, [Next]_vars PROVE IInv'
  OBVIOUS
<1>1. CASE BadArgument \/ PreuploadBusy \/ FrameRefused \/ DoneNoUpload \/ CancelNothing
  BY <1>1, QuietStep
  DEF BadArgument, PreuploadBusy, FrameRefused, DoneNoUpload, CancelNothing, Answer, Kinds
<1>2. ASSUME NEW n \in Names, PreuploadFails(n) PROVE IInv'
  BY <1>2, QuietStep DEF PreuploadFails, Answer, Kinds
<1>3. ASSUME NEW n \in Names, NEW size \in 1..MaxBytes, NEW d \in Digests,
             NEW up \in UpperCase, Preupload(n, size, d, up)
      PROVE  IInv'
  BY <1>3, PreuploadStep
<1>4. ASSUME NEW f \in Frames, FrameBadLength(f) \/ FrameBadCrc(f) PROVE IInv'
  BY <1>4, QuietStep DEF FrameBadLength, FrameBadCrc, Answer, Kinds
<1>5. ASSUME NEW f \in Frames, FrameShortWrite(f) PROVE IInv'
  BY <1>5, ShortWriteStep
<1>6. ASSUME NEW f \in Frames, FrameAccepted(f) PROVE IInv'
  BY <1>6, AcceptedStep
<1>7. CASE DoneSizeMismatch
  BY <1>7, DiscardStep, "size" \in Kinds DEF DoneSizeMismatch, Kinds
<1>8. CASE DoneDigestMismatch
  BY <1>8, DiscardStep, "md5" \in Kinds DEF DoneDigestMismatch, Kinds
<1>9. CASE DoneRenameFails
  BY <1>9, DiscardStep, "save" \in Kinds DEF DoneRenameFails, Kinds
<1>10. CASE Done
  BY <1>10, SaveStep DEF Done
<1>11. CASE Cancel
  BY <1>11, DiscardStep, "cancelled" \in Kinds DEF Cancel, Kinds
<1>12. CASE Crash
  BY <1>12, CrashStep
<1>13. CASE UNCHANGED vars
  BY <1>13 DEF vars, IInv, TypeOK, TmpExists, HashMatchesFile, Tmp, flaws
<1>. QED
  BY <1>1, <1>2, <1>3, <1>4, <1>5, <1>6, <1>7, <1>8, <1>9, <1>10, <1>11, <1>12, <1>13
  DEF Next

(* The invariant holds initially.                                            *)
LEMMA InvInit == Init => IInv
<1>. SUFFICES ASSUME Init PROVE IInv
  OBVIOUS
<1>1. u.active = FALSE
  BY DEF Init, Idle
<1>2. TypeOK
  BY DEF Init, TypeOK, Kinds
<1>. QED BY <1>1, <1>2 DEF IInv, TmpExists, HashMatchesFile

(* Every reachable state satisfies it.                                       *)
THEOREM Invariant == Spec => []IInv
<1>. QED BY InvInit, InvStep, PTL DEF Spec

(* The state of the upload, the files and the answers keep their types; in  *)
(* particular the count never passes the announced bound and a file that is *)
(* written to is there.                                                     *)
THEOREM TypeCorrect == Spec => []TypeOK
<1>1. IInv => TypeOK
  BY DEF IInv
<1>. QED BY <1>1, Invariant, PTL

(* What UPLOADDONE verifies, the digest and the count, is that of the       *)
(* temporary file, unless fwrite() failed in this upload.                   *)
THEOREM HashCorrect == Spec => []HashMatchesFile
<1>1. IInv => HashMatchesFile
  BY DEF IInv
<1>. QED BY <1>1, Invariant, PTL

-----------------------------------------------------------------------------
(* The temporary files and the firmware files. *)

(* A step that moves bytes within an upload leaves all files but its        *)
(* temporary one alone; the end of an upload also touches its own file.     *)
LEMMA FilesOfStep ==
  ASSUME IInv, [Next]_vars, NEW p \in Paths, fs'[p] # fs[p]
  PROVE  \/ u.active /\ p = Tmp
         \/ u'.active /\ p = TmpOf[u'.name]
         \/ u.active /\ p = u.name /\ Done
<1>1. CASE UNCHANGED fs
  BY <1>1
<1>2. ASSUME NEW n \in Names, NEW size \in 1..MaxBytes, NEW d \in Digests,
             NEW up \in UpperCase, Preupload(n, size, d, up)
      PROVE  u'.active /\ p = TmpOf[u'.name]
  <2>1. u'.active /\ u'.name = n
    BY <1>2 DEF Preupload
  <2>. QED BY <1>2, <2>1 DEF Preupload, IInv, TypeOK
<1>3. ASSUME NEW f \in Frames, FrameShortWrite(f) \/ FrameAccepted(f)
      PROVE  u.active /\ p = Tmp
  BY <1>3 DEF FrameShortWrite, FrameAccepted, IInv, TypeOK
<1>4. CASE \/ DoneSizeMismatch \/ DoneDigestMismatch \/ DoneRenameFails \/ Cancel
  <2>1. u.active /\ \E k \in Kinds : Discard(k)
    BY <1>4 DEF DoneSizeMismatch, DoneDigestMismatch, DoneRenameFails, Cancel, Kinds
  <2>. QED BY <2>1, DiscardFile DEF IInv, TypeOK
<1>5. CASE Done
  BY <1>5 DEF Done, Save, IInv, TypeOK
<1>6. CASE Crash
  BY <1>6 DEF Crash, IInv, TypeOK
<1>7. CASE \/ BadArgument \/ PreuploadBusy \/ FrameRefused \/ DoneNoUpload \/ CancelNothing
           \/ \E n \in Names : PreuploadFails(n)
           \/ \E f \in Frames : FrameBadLength(f) \/ FrameBadCrc(f)
           \/ UNCHANGED vars
  BY <1>1, <1>7
  DEF BadArgument, PreuploadBusy, FrameRefused, DoneNoUpload, CancelNothing,
      PreuploadFails, FrameBadLength, FrameBadCrc, vars
<1>. QED BY <1>2, <1>3, <1>4, <1>5, <1>6, <1>7 DEF Next

(* A firmware file changes only when its own upload is answered OK, whatever *)
(* disk call fails and wherever the daemon crashes.                          *)
THEOREM OnlyDoneChangesFiles == Spec => FilesChangeOnlyByDone
<1>1. ASSUME IInv, [Next]_vars, NEW n \in Names, fs'[n] # fs[n]
      PROVE  u.active /\ u.name = n /\ reply' = "done"
  <2>1. n \in Paths /\ (u.active => n # Tmp) /\ (u'.active => n # TmpOf[u'.name])
    <3>1. u.active => u.name \in Names
      BY <1>1, States DEF IInv, TypeOK, ActiveStates
    <3>2. u'.active => u'.name \in Names
      BY <1>1, InvStep, States DEF IInv, TypeOK, ActiveStates
    <3>. QED BY <3>1, <3>2, TmpIsPath DEF Tmp
  <2>2. u.active /\ n = u.name /\ Done
    BY <1>1, <2>1, FilesOfStep
  <2>. QED BY <2>2 DEF Done, Save, Answer
<1>2. IInv /\ [Next]_vars =>
        [\A n \in Names : fs'[n] # fs[n] => u.active /\ u.name = n /\ reply' = "done"]_vars
  BY <1>1
<1>. QED BY <1>2, Invariant, PTL DEF Spec, FilesChangeOnlyByDone

(* The temporary file of a name exists only while an upload of that name is  *)
(* active, unless a failed unlink() or a crash left it behind and the name   *)
(* has not been opened since: no other fault of the disk leaves one.         *)
THEOREM TmpOfUpload == Spec => []TmpOnlyDuringUpload
<1>1. Init => TmpOnlyDuringUpload
  BY TmpIsPath DEF Init, TmpOnlyDuringUpload
<1>2. IInv /\ TmpOnlyDuringUpload /\ [Next]_vars => TmpOnlyDuringUpload'
  <2>. SUFFICES ASSUME IInv, TmpOnlyDuringUpload, [Next]_vars,
                       NEW n \in Names, fs'[TmpOf[n]] # NoFile
                PROVE  (u'.active /\ u'.name = n) \/ n \in left'
    BY DEF TmpOnlyDuringUpload
  <2>. DEFINE Accounted == (u'.active /\ u'.name = n) \/ n \in left'
  <2>1. u.active => u \in ActiveStates /\ u.name \in Names
    BY States DEF IInv, TypeOK, ActiveStates
  <2>2. ASSUME NEW m \in Names, NEW size \in 1..MaxBytes, NEW d \in Digests,
               NEW up \in UpperCase, Preupload(m, size, d, up)
        PROVE  Accounted
    <3>1. u'.active /\ u'.name = m /\ left' = left \ {m}
      BY <2>2 DEF Preupload
    <3>2. TmpOf[n] = TmpOf[m] \/ n \in left
      BY <2>2, TmpIsPath DEF Preupload, TmpOnlyDuringUpload, IInv, TypeOK
    <3>. QED BY <3>1, <3>2, UploadAssumption
  <2>3. ASSUME NEW f \in Frames, FrameShortWrite(f) \/ FrameAccepted(f)
        PROVE  Accounted
    <3>1. u.active /\ u'.active = u.active /\ u'.name = u.name /\ left' = left
      BY <2>1, <2>3 DEF FrameShortWrite, FrameAccepted, ActiveStates, flaws
    <3>2. TmpOf[n] = TmpOf[u.name] \/ n \in left
      BY <2>1, <2>3, <3>1, TmpIsPath
      DEF FrameShortWrite, FrameAccepted, TmpOnlyDuringUpload, IInv, TypeOK, Tmp
    <3>. QED BY <2>1, <3>1, <3>2, UploadAssumption
  <2>4. CASE DoneSizeMismatch \/ DoneDigestMismatch \/ DoneRenameFails \/ Cancel
    <3>1. u.active /\ \E k \in Kinds : Discard(k)
      BY <2>4 DEF DoneSizeMismatch, DoneDigestMismatch, DoneRenameFails, Cancel, Kinds
    <3>2. PICK c \in Contents \union {NoFile} :
            /\ fs' = [fs EXCEPT ![Tmp] = c]
            /\ (c = NoFile /\ left' = left) \/ left' = left \union {u.name}
      BY <3>1, DiscardFile
    <3>3. CASE TmpOf[n] = Tmp
      BY <2>1, <3>1, <3>2, <3>3, TmpIsPath, UploadAssumption DEF Tmp, IInv, TypeOK
    <3>4. CASE TmpOf[n] # Tmp
      BY <3>1, <3>2, <3>4, TmpIsPath DEF TmpOnlyDuringUpload, Tmp, IInv, TypeOK
    <3>. QED BY <3>3, <3>4
  <2>5. CASE Done
    BY <2>1, <2>5, TmpIsPath DEF Done, Save, TmpOnlyDuringUpload, IInv, TypeOK, Tmp
  <2>6. CASE Crash
    <3>1. CASE u.active
      <4>1. PICK c : fs' = [fs EXCEPT ![Tmp] = c]
        BY <2>6, <3>1 DEF Crash
      <4>2. left' = left \union {u.name}
        BY <2>6, <3>1 DEF Crash
      <4>3. TmpOf[n] = Tmp \/ n \in left
        BY <3>1, <4>1, TmpIsPath DEF TmpOnlyDuringUpload, Tmp, IInv, TypeOK
      <4>. QED BY <2>1, <3>1, <4>2, <4>3, UploadAssumption DEF Tmp
    <3>2. CASE ~u.active
      BY <2>6, <3>2 DEF Crash, TmpOnlyDuringUpload
    <3>. QED BY <3>1, <3>2
  <2>7. CASE \/ BadArgument \/ PreuploadBusy \/ FrameRefused \/ DoneNoUpload \/ CancelNothing
             \/ \E m \in Names : PreuploadFails(m)
             \/ \E f \in Frames : FrameBadLength(f) \/ FrameBadCrc(f)
             \/ UNCHANGED vars
    BY <2>7
    DEF BadArgument, PreuploadBusy, FrameRefused, DoneNoUpload, CancelNothing,
        PreuploadFails, FrameBadLength, FrameBadCrc, vars, flaws, TmpOnlyDuringUpload
  <2>. QED BY <2>2, <2>3, <2>4, <2>5, <2>6, <2>7 DEF Next
<1>. QED BY <1>1, <1>2, Invariant, PTL DEF Spec

-----------------------------------------------------------------------------
(* Refinement *)

StoreFiles == [n \in Names |-> fs[n]]
Pending    == IF u.active THEN {<<u.name, u.expected>>} ELSE {}

(* A step that keeps the upload and touches at most its temporary file.      *)
LEMMA StutterStep ==
  ASSUME IInv, u' = u, flawed' = flawed,
         fs' = fs \/ (u.active /\ \E c : fs' = [fs EXCEPT ![Tmp] = c])
  PROVE  UNCHANGED <<StoreFiles, Pending, flawed>>
<1>1. u.active => u.name \in Names
  BY States DEF IInv, TypeOK, ActiveStates
<1>2. \A n \in Names : fs'[n] = fs[n]
  BY <1>1, TmpIsPath DEF IInv, TypeOK, Tmp
<1>. QED BY <1>2 DEF StoreFiles, Pending

(* An upload that ends without a result, also by a crash: Abandon.           *)
LEMMA AbandonStep ==
  ASSUME IInv, u' = Idle, flawed' = flawed,
         fs' = fs \/ (u.active /\ \E c : fs' = [fs EXCEPT ![Tmp] = c])
  PROVE  Pending' = {} /\ UNCHANGED <<StoreFiles, flawed>>
<1>1. u.active => u.name \in Names
  BY States DEF IInv, TypeOK, ActiveStates
<1>2. \A n \in Names : fs'[n] = fs[n]
  BY <1>1, TmpIsPath DEF IInv, TypeOK, Tmp
<1>3. u'.active = FALSE
  BY DEF Idle
<1>. QED BY <1>2, <1>3 DEF StoreFiles, Pending

(* UPLOADDONE commits what was announced, or spoils the file of that name    *)
(* if the disk has failed.                                                   *)
LEMMA CommitStep ==
  ASSUME IInv, Done
  PROVE  /\ u.name \in Names /\ u.expected \in Digests
         /\ Store!Commit(u.name, u.expected) \/ Store!Spoil(u.name, u.expected)
<1>1. u \in ActiveStates /\ u.name \in Names /\ u.expected \in Digests
  BY States DEF IInv, TypeOK, Done, ActiveStates
<1>2. PICK c \in Closed :
        /\ fs' = [fs EXCEPT ![Tmp] = NoFile, ![u.name] = c]
        /\ flawed' = IF hit \/ c # fs[Tmp] THEN flawed \union {u.name}
                     ELSE flawed \ {u.name}
  BY DEF Done, Save
<1>3. Pending = {<<u.name, u.expected>>} /\ Pending' = {}
  <2>1. u.active /\ u'.active = FALSE
    BY DEF Done, Save, Idle
  <2>. QED BY <2>1 DEF Pending
<1>4. \A m \in Names : fs'[m] = IF m = u.name THEN c ELSE fs[m]
  BY <1>1, <1>2, TmpIsPath DEF IInv, TypeOK, Tmp
<1>5. StoreFiles' = [StoreFiles EXCEPT ![u.name] = c]
  BY <1>1, <1>4 DEF StoreFiles
<1>6. CASE hit \/ c # fs[Tmp]
  <2>1. DOMAIN StoreFiles' = Names /\ \A m \in Names \ {u.name} : StoreFiles'[m] = StoreFiles[m]
    BY <1>4 DEF StoreFiles
  <2>2. flawed' = flawed \union {u.name}
    BY <1>2, <1>6
  <2>3. Store!Spoil(u.name, u.expected)
    BY <1>3, <2>1, <2>2 DEF Store!Spoil, Store!None, StoreFiles, Pending
  <2>. QED BY <1>1, <2>3
<1>7. CASE ~hit /\ c = fs[Tmp]
  <2>1. c = u.expected
    BY <1>7 DEF IInv, HashMatchesFile, Done, DigestFits
  <2>2. flawed' = flawed \ {u.name}
    BY <1>2, <1>7
  <2>3. Store!Commit(u.name, u.expected)
    BY <1>3, <1>5, <2>1, <2>2 DEF Store!Commit, Store!None, StoreFiles, Pending
  <2>. QED BY <1>1, <2>3
<1>. QED BY <1>6, <1>7

(* The upload protocol implements FirmwareStore: firmware files change as a  *)
(* whole and only to announced contents, except where the disk failed.       *)
THEOREM Implementation == Spec => ImplementsStore
<1>1. Init => Store!Init
  <2>. SUFFICES ASSUME Init PROVE Store!Init
    OBVIOUS
  <2>1. u.active = FALSE /\ flawed = {}
    BY DEF Init, Idle
  <2>2. \A n \in Names : fs[n] = NoFile
    BY TmpIsPath DEF Init
  <2>. QED BY <2>1, <2>2 DEF Store!Init, Store!None
<1>2. IInv /\ [Next]_vars => [Store!Next]_(Store!vars)
  <2>. SUFFICES ASSUME IInv, [Next]_vars
                PROVE  Store!Next \/ UNCHANGED <<StoreFiles, Pending, flawed>>
    BY DEF Store!vars, StoreFiles, Pending
  <2>1. ASSUME NEW n \in Names, NEW size \in 1..MaxBytes, NEW d \in Digests,
               NEW up \in UpperCase, Preupload(n, size, d, up)
        PROVE  Store!Announce(n, d)
    <3>1. ~u.active /\ u'.active = TRUE /\ u'.name = n /\ u'.expected = d
      BY <2>1 DEF Preupload
    <3>2. \A m \in Names : fs'[m] = fs[m]
      BY <2>1, TmpIsPath DEF Preupload, IInv, TypeOK
    <3>3. flawed' = flawed
      BY <2>1 DEF Preupload
    <3>. QED BY <3>1, <3>2, <3>3 DEF Store!Announce, Store!None
  <2>2. CASE \/ BadArgument \/ PreuploadBusy \/ FrameRefused \/ DoneNoUpload \/ CancelNothing
             \/ \E n \in Names : PreuploadFails(n)
             \/ \E f \in Frames : FrameBadLength(f) \/ FrameBadCrc(f)
             \/ UNCHANGED vars
    BY <2>2, StutterStep
    DEF BadArgument, PreuploadBusy, FrameRefused, DoneNoUpload, CancelNothing,
        PreuploadFails, FrameBadLength, FrameBadCrc, vars, flaws
  <2>3. ASSUME NEW f \in Frames, FrameShortWrite(f)
        PROVE  UNCHANGED <<StoreFiles, Pending, flawed>>
    BY <2>3, StutterStep DEF FrameShortWrite
  <2>4. ASSUME NEW f \in Frames, FrameAccepted(f)
        PROVE  Store!Next \/ UNCHANGED <<StoreFiles, Pending, flawed>>
    <3>1. u \in ActiveStates
      BY <2>4, States DEF FrameAccepted, IInv, TypeOK
    <3>2. /\ u.active /\ u'.active = u.active /\ u'.name = u.name /\ u'.expected = u.expected
          /\ flawed' = flawed
      BY <2>4, <3>1 DEF FrameAccepted, ActiveStates, flaws
    <3>3. \A m \in Names : fs'[m] = fs[m]
      BY <2>4, <3>1, TmpIsPath DEF FrameAccepted, IInv, TypeOK, Tmp, ActiveStates
    <3>. QED BY <3>2, <3>3 DEF StoreFiles, Pending
  <2>5. CASE Crash
    <3>1. u' = Idle /\ flawed' = flawed
      BY <2>5 DEF Crash
    <3>2. fs' = fs \/ (u.active /\ \E c : fs' = [fs EXCEPT ![Tmp] = c])
      BY <2>5 DEF Crash
    <3>3. Pending' = {} /\ UNCHANGED <<StoreFiles, flawed>>
      BY <3>1, <3>2, AbandonStep
    <3>. QED BY <3>3 DEF Store!Next, Store!Abandon, Store!None, StoreFiles, Pending
  <2>6. CASE DoneSizeMismatch \/ DoneDigestMismatch \/ DoneRenameFails \/ Cancel
    <3>1. u.active /\ \E k \in Kinds : Discard(k)
      BY <2>6 DEF DoneSizeMismatch, DoneDigestMismatch, DoneRenameFails, Cancel, Kinds
    <3>2. u' = Idle /\ flawed' = flawed /\ \E c : fs' = [fs EXCEPT ![Tmp] = c]
      BY <3>1, DiscardFile DEF Discard
    <3>3. Pending' = {} /\ UNCHANGED <<StoreFiles, flawed>>
      BY <3>1, <3>2, AbandonStep
    <3>. QED BY <3>3 DEF Store!Next, Store!Abandon, Store!None, StoreFiles, Pending
  <2>7. CASE Done
    <3>1. PICK n \in Names, c \in Digests : n = u.name /\ c = u.expected
      BY <2>7, CommitStep
    <3>2. Store!Commit(n, c) \/ Store!Spoil(n, c)
      BY <2>7, <3>1, CommitStep DEF Store!Commit, Store!Spoil
    <3>. QED BY <3>2 DEF Store!Next
  <2>. QED BY <2>1, <2>2, <2>3, <2>4, <2>5, <2>6, <2>7 DEF Next, Store!Next
<1>. QED BY <1>1, <1>2, Invariant, PTL DEF Spec, ImplementsStore, Store!Spec
=============================================================================
