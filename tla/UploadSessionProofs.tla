------------------------- MODULE UploadSessionProofs -------------------------
(***************************************************************************)
(* Proofs about UploadSession, for any number of sides, every set of names *)
(* and frames, uploads of any length and every combination of disk faults. *)
(***************************************************************************)
EXTENDS UploadSession, SequenceTheorems, TLAPS

Contents == Seq(Symbols)
Paths    == Names \union {TmpOf[n] : n \in Names}
Files    == {f \in [Paths -> Contents \union {NoFile}] :
               \A p \in Paths : f[p] # NoFile => Len(f[p]) <= MaxBytes}
Uploads  == ActiveStates \union {Blank}
Ghosts   == [begun : Sides \union {"NONE"}, by : SUBSET Sides, ended : BOOLEAN, hit : BOOLEAN,
             kept : BOOLEAN]
Rests    == [u : Uploads, fs : Files, hit : BOOLEAN, flawed : SUBSET Names, left : SUBSET Names]

Tmp     == TmpOf[u.name]
Kept    == rest.fs[Tmp]           \* the temporary file before the last command
Busy(t) == ~Idle(t)

TypeInv ==
  /\ TypeOK
  /\ pc \in [Sides -> Steps] /\ DOMAIN cmd = Sides
  /\ result \in [Sides -> Kinds]
  /\ fs \in Files /\ rest \in Rests /\ upload \in Ghosts

(* Between two commands the file of an active upload is open, and no other,  *)
(* and what was received is in the temporary file.                           *)
Whole(v, f) ==
  /\ v.active = v.open
  /\ v.active => f[TmpOf[v.name]] \in Contents /\ v.received <= Len(f[TmpOf[v.name]])

(* Nothing has changed since the last command.                               *)
Same == rest.u = u /\ rest.fs = fs /\ rest.hit = upload.hit /\ ~upload.kept

(* Only the FILE was closed.                                                 *)
Closing ==
  /\ u.active /\ ~u.open
  /\ rest.u.active /\ rest.u.name = u.name /\ rest.u.size = u.size
  /\ rest.u.received = u.received /\ rest.u.hashed = u.hashed /\ rest.u.expected = u.expected

\* k bytes were in the file when it was closed.
ClosedAt(k) ==
  /\ k < Len(Kept) => "flush" \in DiskFaults
  /\ upload.hit <=> rest.hit \/ k < Len(Kept)

\* The temporary file is what fclose() made of it.
Cut == \E k \in 0..Len(Kept) :
         ClosedAt(k) /\ fs = [rest.fs EXCEPT ![Tmp] = SubSeq(Kept, 1, k)]

Verified == u.received = u.size /\ u.hashed = u.expected

\* The end of an upload that saves nothing.
Failed(k) ==
  \/ k = "cancelled"
  \/ k = "size" /\ u.received # u.size
  \/ k = "md5"  /\ u.received = u.size /\ u.hashed # u.expected
  \/ k = "save" /\ "rename" \in DiskFaults /\ Verified

(* What is left once the answer k is decided and the files are dealt with:   *)
(* a failed upload whose file is gone, one whose unlink() failed, a saved    *)
(* one.                                                                      *)
Removed(k)  == Failed(k) /\ ~upload.kept /\ fs = [rest.fs EXCEPT ![Tmp] = NoFile]
LeftOver(k) == Failed(k) /\ upload.kept /\ "unlink" \in DiskFaults /\ Cut
Saved(k) ==
  /\ k = "done" /\ Verified /\ ~upload.kept
  /\ \E i \in 0..Len(Kept) :
       /\ ClosedAt(i)
       /\ fs = [rest.fs EXCEPT ![u.name] = SubSeq(Kept, 1, i), ![Tmp] = NoFile]

(* What the handler of t knows at each step.                                 *)
Mid(t) ==
  LET c == cmd[t]
  IN  /\ c \in Commands
      /\ pc[t] \in {"preupload", "open", "begin"} => c.op = "preupload"
      /\ pc[t] \in {"frame", "fwrite", "update"} =>
           /\ c.op = "frame"
           /\ rest.u.active => Len(rest.fs[TmpOf[rest.u.name]]) + Len(c.data) <= MaxBytes
      /\ pc[t] \in {"preupload", "open", "frame", "fwrite", "done", "cancel"} => Same
      /\ pc[t] = "open" => ~u.active
      /\ pc[t] = "begin" =>
           ~u.active /\ rest.u = u /\ fs = [rest.fs EXCEPT ![TmpOf[c.name]] = << >>]
      /\ pc[t] \in {"fwrite", "update"} => c.fits /\ u.active /\ u.open
      /\ pc[t] = "update" =>
           /\ rest.u = u /\ rest.hit = upload.hit
           /\ fs = [rest.fs EXCEPT ![Tmp] = @ \o c.data]
      /\ pc[t] \in {"verify", "rename", "unlink", "reset"} => Closing
      /\ pc[t] \in {"verify", "rename", "unlink"} => Cut
      /\ pc[t] = "rename" => Verified
      /\ pc[t] = "unlink" => Failed(result[t])
      /\ pc[t] = "reset" => Removed(result[t]) \/ LeftOver(result[t]) \/ Saved(result[t])
      /\ pc[t] # "reset" => ~upload.kept

(* As long as no two handlers have met.                                      *)
MidInv ==
  ~overlap => \A t \in Sides : Busy(t) => Mid(t) /\ \A s \in Sides : Busy(s) => s = t

RestInv == Whole(rest.u, rest.fs) /\ (AllIdle => Same)

DataInv == TypeInv /\ RestInv /\ MidInv

(* A protected command is that of the holder.  A handler is protected, and   *)
(* the upload that of the holder, unless a session ended since.              *)
SideInv ==
  /\ \A t \in running : holder = t /\ Busy(t)
  /\ ~upload.ended => \A t \in Sides : Busy(t) => t \in running
  /\ u.active /\ ~upload.ended =>
       upload.begun \in Sides /\ holder = upload.begun /\ upload.by \subseteq {upload.begun}

-----------------------------------------------------------------------------
(* Lemmas on the data. *)

(* An upload state is active with all its fields, or it is blank.            *)
LEMMA UploadFields ==
  ASSUME NEW v \in Uploads
  PROVE  /\ v.active \in BOOLEAN /\ v.open \in BOOLEAN
         /\ ~v.active => v = Blank /\ ~v.open
         /\ v.active => /\ v \in ActiveStates
                        /\ v.name \in Names /\ v.size \in 1..MaxBytes /\ v.received \in 0..MaxBytes
                        /\ v.hashed \in Contents /\ v.expected \in Announced
<1>1. CASE v \in ActiveStates
  BY <1>1 DEF ActiveStates, Contents
<1>2. CASE v = Blank
  BY <1>2 DEF Blank
<1>. QED BY <1>1, <1>2 DEF Uploads

(* Closing the FILE changes one field.                                       *)
LEMMA CloseFile ==
  ASSUME NEW v \in ActiveStates
  PROVE  LET w == [v EXCEPT !.open = FALSE]
         IN  /\ w \in ActiveStates /\ ~w.open /\ w.active = v.active /\ w.name = v.name
             /\ w.size = v.size /\ w.received = v.received /\ w.hashed = v.hashed
             /\ w.expected = v.expected
<1>1. \E B : B = BOOLEAN
  OBVIOUS
<1>2. PICK B : B = BOOLEAN
  BY <1>1
<1>3. PICK b \in B : b = FALSE
  BY <1>2
<1>4. ActiveStates =
        [active : {TRUE}, open : B, name : Names, size : 1..MaxBytes,
         received : 0..MaxBytes, hashed : Seq(Symbols), expected : Announced]
  BY <1>2 DEF ActiveStates
<1>. DEFINE w == [v EXCEPT !.open = b]
<1>5. w \in ActiveStates
  BY <1>4
<1>6. w.open = b /\ w.active = v.active /\ w.name = v.name /\ w.size = v.size
      /\ w.received = v.received /\ w.hashed = v.hashed /\ w.expected = v.expected
  BY <1>4
<1>. HIDE DEF w
<1>7. w = [v EXCEPT !.open = FALSE]
  BY <1>3 DEF w
<1>. QED BY <1>3, <1>5, <1>6, <1>7

(* What the commands bring.                                                  *)
LEMMA CommandFields ==
  ASSUME NEW c \in Commands
  PROVE  /\ c.op \in {"preupload", "frame", "done", "cancel"}
         /\ c.op = "preupload" => c.name \in Names /\ c.size \in 1..MaxBytes /\ c.md5 \in Announced
         /\ c.op = "frame" => c.data \in FrameData /\ c.data \in Contents
BY SessionAssumption DEF Commands, Contents

(* The temporary file of a name is a path, and no firmware file.             *)
LEMMA TmpIsPath ==
  \A n \in Names : n \in Paths /\ TmpOf[n] \in Paths /\ TmpOf[n] \notin Names
BY SessionAssumption DEF Paths

(* What is left of a file is a content.                                      *)
LEMMA PrefixIsContent ==
  ASSUME NEW c \in Contents, NEW k \in 0..Len(c)
  PROVE  SubSeq(c, 1, k) \in Contents /\ Len(SubSeq(c, 1, k)) = k
<1>1. Len(c) \in Nat /\ \A i \in 1..Len(c) : c[i] \in Symbols
  BY LenProperties DEF Contents
<1>2. 1 \in Int /\ k \in Int /\ k \in Nat /\ \A i \in 1..k : c[i] \in Symbols
  BY <1>1
<1>3. SubSeq(c, 1, k) \in Contents
  BY <1>2, SubSeqProperties DEF Contents
<1>4. Len(SubSeq(c, 1, k)) = IF 1 <= k THEN k - 1 + 1 ELSE 0
  BY <1>2, SubSeqProperties
<1>. QED BY <1>2, <1>3, <1>4

(* An empty file is one.                                                     *)
LEMMA EmptyFile == << >> \in Contents /\ Len(<< >>) = 0 /\ Len(<< >>) <= MaxBytes
<1>1. Len(<< >>) = 0 /\ << >> \in Contents
  BY EmptySeq DEF Contents
<1>2. 0 <= MaxBytes
  BY SessionAssumption
<1>. QED BY <1>1, <1>2

(* Appending adds the lengths.                                               *)
LEMMA Append2 ==
  ASSUME NEW c \in Contents, NEW d \in Contents
  PROVE  c \o d \in Contents /\ Len(c \o d) = Len(c) + Len(d) /\ Len(c) \in Nat /\ Len(d) \in Nat
BY ConcatProperties, LenProperties DEF Contents

(* A file that is there is a content, and no longer than the bound.          *)
LEMMA FileFields ==
  ASSUME NEW f \in Files, NEW p \in Paths
  PROVE  f[p] # NoFile => f[p] \in Contents /\ Len(f[p]) \in Nat /\ Len(f[p]) <= MaxBytes
BY LenProperties DEF Files, Contents

(* One file changes.                                                         *)
LEMMA FileChange ==
  ASSUME NEW f \in Files, NEW p \in Paths, NEW c \in Contents \union {NoFile},
         c # NoFile => Len(c) <= MaxBytes
  PROVE  /\ [f EXCEPT ![p] = c] \in Files
         /\ [f EXCEPT ![p] = c][p] = c
         /\ \A q \in Paths : q # p => [f EXCEPT ![p] = c][q] = f[q]
BY DEF Files

-----------------------------------------------------------------------------
(* The two ways in which a step of a handler ends. *)

(* The handler goes on.                                                      *)
LEMMA GotoKeeps ==
  ASSUME DataInv, NEW t \in Sides, Calm, Busy(t), NEW q \in Steps \ {"idle"}, Goto(t, q),
         result' \in [Sides -> Kinds], u' \in Uploads, fs' \in Files, upload' \in Ghosts,
         rest' = rest, Mid(t)'
  PROVE  DataInv'
<1>1. \A s \in Sides : s # t => Idle(s)
  BY DEF DataInv, MidInv, Calm, Busy
<1>2. pc' \in [Sides -> Steps] /\ pc'[t] = q /\ \A s \in Sides : s # t => pc'[s] = pc[s]
  BY DEF Goto, DataInv, TypeInv
<1>3. holder' = holder /\ running' = running /\ cmd' = cmd /\ reply' = reply /\ overlap' = overlap
  BY DEF Goto, session
<1>4. Busy(t)' /\ \A s \in Sides : s # t => ~Busy(s)'
  BY <1>1, <1>2 DEF Busy, Idle
<1>5. TypeInv'
  <2>1. \A s \in Sides : pc'[s] # "idle" => cmd'[s] \in Commands
    BY <1>1, <1>2, <1>3 DEF Idle, Mid
  <2>2. \A p \in DOMAIN fs' : fs'[p] # NoFile => Len(fs'[p]) <= MaxBytes
    BY DEF Files
  <2>. QED BY <1>2, <1>3, <2>1, <2>2 DEF DataInv, TypeInv, TypeOK, Uploads
<1>6. RestInv'
  BY <1>4 DEF DataInv, RestInv, AllIdle, Busy
<1>7. MidInv'
  BY <1>4 DEF MidInv
<1>. QED BY <1>5, <1>6, <1>7 DEF DataInv

(* What is seen once no handler is running.                                  *)
Settles(t) ==
  rest' = [u |-> u', fs |-> fs', hit |-> upload'.hit,
           flawed |-> IF pc[t] # "reset" \/ result[t] # "done" THEN rest.flawed
                      ELSE IF upload.hit THEN rest.flawed \union {u.name}
                      ELSE rest.flawed \ {u.name},
           left |-> IF pc[t] = "begin" THEN rest.left \ {cmd[t].name}
                    ELSE IF pc[t] = "reset" /\ upload.kept THEN rest.left \union {u.name}
                    ELSE rest.left]

(* The effect of an answer on the control state.                             *)
LEMMA AnswerEffect ==
  ASSUME DataInv, NEW t \in Sides, Calm, Busy(t), NEW k \in Kinds, Answer(t, k)
  PROVE  /\ pc' \in [Sides -> Steps] /\ pc'[t] = "idle" /\ \A s \in Sides : pc'[s] = "idle"
         /\ DOMAIN cmd' = Sides /\ result' \in [Sides -> Kinds] /\ reply' = k
         /\ overlap' = overlap /\ holder' = holder
         /\ running' = running \ {t}
<1>1. \A s \in Sides : s # t => Idle(s)
  BY DEF DataInv, MidInv, Calm, Busy
<1>2. /\ pc' = [pc EXCEPT ![t] = "idle"] /\ cmd' = [cmd EXCEPT ![t] = "none"]
      /\ result' = [result EXCEPT ![t] = "none"] /\ reply' = k /\ overlap' = overlap
  BY DEF Answer
<1>3. holder' = holder /\ running' = running \ {t}
  BY DEF Answer, Session!Finish, session
<1>. QED BY <1>1, <1>2, <1>3 DEF Idle, DataInv, TypeInv, Steps, Kinds

(* The handler answers.                                                      *)
LEMMA AnswerKeeps ==
  ASSUME DataInv, NEW t \in Sides, Calm, Busy(t), NEW k \in Kinds, Answer(t, k),
         u' \in Uploads, fs' \in Files, upload' \in Ghosts, Settles(t), u.active => u.name \in Names,
         Whole(u', fs'), ~upload'.kept
  PROVE  DataInv'
<1>1. /\ pc' \in [Sides -> Steps] /\ \A s \in Sides : pc'[s] = "idle"
      /\ DOMAIN cmd' = Sides /\ result' \in [Sides -> Kinds] /\ reply' = k
      /\ overlap' = overlap /\ holder' = holder
      /\ running' = running \ {t}
  BY AnswerEffect
<1>2. rest' \in Rests /\ rest'.u = u' /\ rest'.fs = fs' /\ rest'.hit = upload'.hit
  <2>0. pc[t] = "reset" => u.name \in Names
    BY DEF DataInv, MidInv, Mid, Calm, Closing
  <2>1. rest.flawed \in SUBSET Names /\ rest.left \in SUBSET Names
    BY DEF DataInv, TypeInv, Rests
  <2>2. PICK flawed \in SUBSET Names, left \in SUBSET Names :
          rest' = [u |-> u', fs |-> fs', hit |-> upload'.hit, flawed |-> flawed, left |-> left]
    BY <2>0, <2>1 DEF Settles
  <2>3. upload'.hit \in BOOLEAN
    BY DEF Ghosts
  <2>. QED BY <2>2, <2>3 DEF Rests
<1>3. TypeInv'
  <2>1. \A p \in DOMAIN fs' : fs'[p] # NoFile => Len(fs'[p]) <= MaxBytes
    BY DEF Files
  <2>2. holder' \in Sides \union {"NONE"} /\ running' \subseteq Sides /\ overlap' \in BOOLEAN
    BY <1>1 DEF DataInv, TypeInv, TypeOK
  <2>. QED BY <1>1, <1>2, <2>1, <2>2 DEF TypeInv, TypeOK, Uploads
<1>4. RestInv'
  BY <1>1, <1>2 DEF RestInv, Same
<1>5. MidInv'
  BY <1>1 DEF MidInv, Busy, Idle
<1>. QED BY <1>3, <1>4, <1>5 DEF DataInv

-----------------------------------------------------------------------------
(* The steps of a handler. *)

(* What the next step of a handler can rely on.                              *)
LEMMA Handling ==
  ASSUME DataInv, NEW t \in Sides, NEW p \in Steps \ {"idle"}, At(t, p)
  PROVE  /\ Calm /\ Busy(t) /\ pc[t] = p /\ Mid(t) /\ cmd[t] \in Commands
         /\ u \in Uploads /\ fs \in Files /\ rest.fs \in Files /\ upload \in Ghosts
         /\ result \in [Sides -> Kinds]
         /\ Whole(rest.u, rest.fs)
         /\ Same => Whole(u, fs)
         /\ u.active => u \in ActiveStates /\ u.name \in Names
         /\ u.active => Tmp \in Paths /\ u.name \in Paths /\ Tmp # u.name
<1>1. Calm /\ Busy(t) /\ pc[t] = p
  BY DEF At, Busy, Idle
<1>2. Mid(t) /\ cmd[t] \in Commands
  BY <1>1 DEF DataInv, MidInv, Mid, Calm
<1>3. u \in Uploads /\ fs \in Files /\ rest.fs \in Files /\ upload \in Ghosts
      /\ result \in [Sides -> Kinds]
  BY DEF DataInv, TypeInv, TypeOK, Rests, Uploads
<1>4. Whole(rest.u, rest.fs) /\ (Same => Whole(u, fs))
  BY DEF DataInv, RestInv, Same
<1>5. u.active => u \in ActiveStates /\ u.name \in Names
  BY <1>3, UploadFields
<1>6. u.active => Tmp \in Paths /\ u.name \in Paths /\ Tmp # u.name
  BY <1>5, TmpIsPath DEF Tmp
<1>. QED BY <1>1, <1>2, <1>3, <1>4, <1>5, <1>6

(* A step that changes nothing but the control state.                        *)
LEMMA PlainAnswer ==
  ASSUME DataInv, NEW t \in Sides, NEW p \in Steps \ {"idle"}, At(t, p), Same,
         NEW k \in Kinds, Answer(t, k), UNCHANGED <<u, fs, upload>>, Settles(t)
  PROVE  DataInv'
<1>1. Whole(u', fs') /\ ~upload'.kept
  BY Handling DEF Same
<1>. QED BY <1>1, Handling, AnswerKeeps

(* AT+PREUPLOAD: is another upload active?                                   *)
LEMMA PreuploadCheckKeeps ==
  ASSUME DataInv, NEW t \in Sides, PreuploadCheck(t), HandlerStep(t)
  PROVE  DataInv'
<1>. "preupload" \in Steps \ {"idle"} /\ "open" \in Steps \ {"idle"}
     /\ "busy" \in Kinds /\ "badarg" \in Kinds
  BY DEF Steps, Kinds
<1>1. At(t, "preupload") /\ UNCHANGED <<u, fs, upload>>
  BY DEF PreuploadCheck
<1>2. Same /\ cmd[t].op = "preupload" /\ cmd[t] \in Commands
  BY <1>1, Handling DEF Mid
<1>3. ASSUME NEW k \in {"badarg", "busy"}, Answer(t, k) PROVE DataInv'
  <2>1. Settles(t)
    BY <1>1, <1>3, Handling, AnswerEffect DEF HandlerStep, Settles
  <2>. QED BY <1>1, <1>2, <1>3, <2>1, PlainAnswer
<1>4. CASE ~u.active /\ Goto(t, "open") /\ result' = result
  <2>1. pc'[t] = "open" /\ cmd' = cmd
    BY <1>4 DEF Goto, DataInv, TypeInv
  <2>2. rest' = rest
    BY <2>1 DEF HandlerStep
  <2>3. Mid(t)'
    BY <1>1, <1>2, <1>4, <2>1, <2>2 DEF Mid, Same
  <2>. QED BY <1>1, <1>4, <2>2, <2>3, Handling, GotoKeeps
<1>. QED BY <1>3, <1>4 DEF PreuploadCheck

(* fopen() of the temporary file.                                            *)
LEMMA PreuploadOpenKeeps ==
  ASSUME DataInv, NEW t \in Sides, PreuploadOpen(t), HandlerStep(t)
  PROVE  DataInv'
<1>. "open" \in Steps \ {"idle"} /\ "begin" \in Steps \ {"idle"} /\ "cannot create" \in Kinds
  BY DEF Steps, Kinds
<1>1. At(t, "open") /\ UNCHANGED <<u, upload>>
  BY DEF PreuploadOpen
<1>2. Same /\ cmd[t].op = "preupload" /\ cmd[t] \in Commands /\ ~u.active
  BY <1>1, Handling DEF Mid
<1>3. CASE Answer(t, "cannot create") /\ UNCHANGED fs
  <2>2. Settles(t)
    BY <1>1, <1>3, Handling, AnswerEffect DEF HandlerStep, Settles
  <2>. QED BY <1>1, <1>2, <1>3, <2>2, PlainAnswer
<1>4. CASE fs' = [fs EXCEPT ![TmpOf[cmd[t].name]] = << >>] /\ Goto(t, "begin") /\ UNCHANGED result
  <2>1. TmpOf[cmd[t].name] \in Paths
    BY <1>2, CommandFields, TmpIsPath
  <2>2. << >> \in Contents /\ Len(<< >>) <= MaxBytes
    BY EmptyFile
  <2>3. fs' \in Files
    BY <1>1, <1>4, <2>1, <2>2, FileChange, Handling
  <2>4. pc'[t] = "begin" /\ cmd' = cmd
    BY <1>4 DEF Goto, DataInv, TypeInv
  <2>5. rest' = rest
    BY <2>4 DEF HandlerStep
  <2>6. Mid(t)'
    BY <1>1, <1>2, <1>4, <2>4, <2>5 DEF Mid, Same
  <2>. QED BY <1>1, <1>4, <2>3, <2>5, <2>6, Handling, GotoKeeps
<1>. QED BY <1>3, <1>4 DEF PreuploadOpen

(* The state of the new upload.                                              *)
LEMMA BegunState ==
  ASSUME NEW c \in Commands, c.op = "preupload"
  PROVE  LET v == [active |-> TRUE, open |-> TRUE, name |-> c.name, size |-> c.size,
                   received |-> 0, hashed |-> << >>, expected |-> c.md5]
         IN  v \in Uploads
<1>1. c.name \in Names /\ c.size \in 1..MaxBytes /\ c.md5 \in Announced
  BY CommandFields
<1>2. 0 \in 0..MaxBytes /\ << >> \in Seq(Symbols)
  BY SessionAssumption, EmptySeq
<1>. QED BY <1>1, <1>2 DEF Uploads, ActiveStates

(* The upload becomes active.                                                *)
LEMMA PreuploadBeginKeeps ==
  ASSUME DataInv, NEW t \in Sides, PreuploadBegin(t), HandlerStep(t)
  PROVE  DataInv'
<1>. "begin" \in Steps \ {"idle"} /\ "ready" \in Kinds
  BY DEF Steps, Kinds
<1>1. At(t, "begin") /\ UNCHANGED fs /\ Answer(t, "ready")
  BY DEF PreuploadBegin
<1>2. cmd[t].op = "preupload" /\ cmd[t] \in Commands /\ ~u.active /\ rest.u = u
      /\ fs = [rest.fs EXCEPT ![TmpOf[cmd[t].name]] = << >>]
  BY <1>1, Handling DEF Mid
<1>3. u' = [active |-> TRUE, open |-> TRUE, name |-> cmd[t].name, size |-> cmd[t].size,
            received |-> 0, hashed |-> << >>, expected |-> cmd[t].md5]
  BY DEF PreuploadBegin
<1>4. u' \in Uploads
  BY <1>2, <1>3, BegunState
<1>5. Settles(t)
  BY <1>1, Handling, AnswerEffect DEF HandlerStep, Settles
<1>6. upload' \in Ghosts /\ ~upload'.kept
  <2>1. upload' = [begun |-> t, by |-> {}, ended |-> t \notin running, hit |-> FALSE, kept |-> FALSE]
    BY DEF PreuploadBegin, NoUpload
  <2>2. (t \notin running) \in BOOLEAN /\ FALSE \in BOOLEAN
    OBVIOUS
  <2>. QED BY <2>1, <2>2 DEF Ghosts
<1>7. PICK n \in Names : n = cmd[t].name
  BY <1>2, CommandFields
<1>8. fs'[TmpOf[n]] = << >>
  BY <1>1, <1>2, <1>7, TmpIsPath, Handling DEF Files
<1>9. Whole(u', fs')
  <2>1. u'.active /\ u'.open /\ u'.name = n /\ u'.received = 0
    BY <1>3, <1>7
  <2>2. << >> \in Contents /\ 0 <= Len(<< >>)
    BY EmptySeq DEF Contents
  <2>. QED BY <1>8, <2>1, <2>2 DEF Whole
<1>. QED BY <1>1, <1>2, <1>4, <1>5, <1>6, <1>9, Handling, AnswerKeeps

(* AT+UPLOAD: is there an upload, and does the CRC fit?                      *)
LEMMA FrameCheckKeeps ==
  ASSUME DataInv, NEW t \in Sides, FrameCheck(t), HandlerStep(t)
  PROVE  DataInv'
<1>. "frame" \in Steps \ {"idle"} /\ "fwrite" \in Steps \ {"idle"}
     /\ {"badarg", "noupload", "crc"} \subseteq Kinds
  BY DEF Steps, Kinds
<1>1. At(t, "frame") /\ UNCHANGED <<u, fs, upload>>
  BY DEF FrameCheck
<1>2. /\ Same /\ cmd[t].op = "frame" /\ cmd[t] \in Commands
      /\ rest.u.active => Len(rest.fs[TmpOf[rest.u.name]]) + Len(cmd[t].data) <= MaxBytes
  BY <1>1, Handling DEF Mid
<1>3. ASSUME NEW k \in {"badarg", "noupload", "crc"}, Answer(t, k) PROVE DataInv'
  <2>1. Settles(t)
    BY <1>1, <1>3, Handling, AnswerEffect DEF HandlerStep, Settles
  <2>. QED BY <1>1, <1>2, <1>3, <2>1, PlainAnswer
<1>4. CASE u.active /\ u.open /\ cmd[t].fits /\ Goto(t, "fwrite") /\ result' = result
  <2>1. Goto(t, "fwrite") /\ result' = result
    BY <1>4
  <2>2. pc'[t] = "fwrite" /\ cmd' = cmd
    BY <2>1 DEF Goto, DataInv, TypeInv
  <2>3. rest' = rest
    BY <2>2 DEF HandlerStep
  <2>4. Mid(t)'
    BY <1>1, <1>2, <1>4, <2>2, <2>3 DEF Mid, Same
  <2>. QED BY <1>1, <2>1, <2>3, <2>4, Handling, GotoKeeps
<1>. QED BY <1>3, <1>4 DEF FrameCheck

(* The temporary file grows within the bound.                                *)
LEMMA AppendToTmp ==
  ASSUME DataInv, NEW t \in Sides, NEW p \in {"fwrite", "update"}, At(t, p),
         NEW d \in Contents, Len(d) <= Len(cmd[t].data)
  PROVE  /\ Kept \in Contents /\ Kept \o d \in Contents /\ Len(Kept \o d) = Len(Kept) + Len(d)
         /\ Len(Kept) \in Nat /\ Len(d) \in Nat /\ u.received <= Len(Kept)
         /\ Len(Kept) + Len(d) <= MaxBytes /\ Kept \o d # NoFile
         /\ [rest.fs EXCEPT ![Tmp] = Kept \o d] \in Files
         /\ cmd[t].data \in Contents
<1>1. p \in Steps \ {"idle"}
  BY DEF Steps
<1>2. /\ cmd[t].op = "frame" /\ cmd[t] \in Commands /\ u.active /\ rest.u = u
      /\ rest.u.active => Len(rest.fs[TmpOf[rest.u.name]]) + Len(cmd[t].data) <= MaxBytes
  BY <1>1, Handling DEF Mid, Same
<1>3. Kept \in Contents /\ u.received <= Len(Kept)
  BY <1>1, <1>2, Handling DEF Whole, Kept, Tmp
<1>4. cmd[t].data \in Contents
  BY <1>2, CommandFields
<1>5. Len(Kept) + Len(cmd[t].data) <= MaxBytes
  BY <1>2 DEF Kept, Tmp
<1>6. Kept \o d \in Contents /\ Len(Kept \o d) = Len(Kept) + Len(d) /\ Len(Kept) \in Nat /\ Len(d) \in Nat
  BY <1>3, Append2
<1>7. Len(cmd[t].data) \in Nat
  BY <1>4, Append2
<1>8. Len(Kept) + Len(d) <= MaxBytes
  BY <1>5, <1>6, <1>7, SessionAssumption
<1>9. Kept \o d # NoFile
  BY <1>6, SessionAssumption DEF Contents
<1>10. rest.fs \in Files /\ Tmp \in Paths
  BY <1>1, <1>2, Handling
<1>11. [rest.fs EXCEPT ![Tmp] = Kept \o d] \in Files
  <2>1. PICK f \in Files, q \in Paths, c \in Contents \union {NoFile} :
          f = rest.fs /\ q = Tmp /\ c = Kept \o d
    BY <1>6, <1>10
  <2>2. c # NoFile => Len(c) <= MaxBytes
    BY <1>6, <1>8, <2>1
  <2>3. [f EXCEPT ![q] = c] \in Files
    BY <2>2, FileChange
  <2>. QED BY <2>1, <2>3
<1>. QED BY <1>3, <1>4, <1>6, <1>8, <1>9, <1>11

(* fwrite().                                                                 *)
LEMMA FrameWriteKeeps ==
  ASSUME DataInv, NEW t \in Sides, FrameWrite(t), HandlerStep(t)
  PROVE  DataInv'
<1>0. "fwrite" \in Steps \ {"idle"} /\ "update" \in Steps \ {"idle"} /\ "write failed" \in Kinds
  BY DEF Steps, Kinds
<1>1. At(t, "fwrite") /\ UNCHANGED u
  BY DEF FrameWrite
<1>2. /\ Same /\ cmd[t].op = "frame" /\ cmd[t] \in Commands /\ cmd[t].fits /\ u.active /\ u.open
      /\ rest.u.active => Len(rest.fs[TmpOf[rest.u.name]]) + Len(cmd[t].data) <= MaxBytes
  BY <1>0, <1>1, Handling DEF Mid
<1>3. cmd[t].data \in Contents /\ fs[Tmp] = Kept
  BY <1>2, CommandFields DEF Same, Kept
<1>4. Len(cmd[t].data) \in Nat
  BY <1>3, Append2
<1>5. CASE /\ fs' = [fs EXCEPT ![Tmp] = @ \o cmd[t].data] /\ Goto(t, "update")
           /\ UNCHANGED <<result, upload>>
  <2>1. pc'[t] = "update" /\ cmd' = cmd
    BY <1>5 DEF Goto, DataInv, TypeInv
  <2>2. rest' = rest
    BY <2>1 DEF HandlerStep
  <2>3. fs' = [rest.fs EXCEPT ![Tmp] = Kept \o cmd[t].data]
    BY <1>2, <1>3, <1>5 DEF Same
  <2>4. fs' \in Files
    <3>1. Len(cmd[t].data) <= Len(cmd[t].data)
      BY <1>4
    <3>. QED BY <1>1, <1>3, <2>3, <3>1, AppendToTmp
  <2>5. Tmp' = Tmp /\ Kept' = Kept
    BY <1>1, <2>2 DEF Tmp, Kept
  <2>6. Mid(t)'
    <3>1. fs' = [rest'.fs EXCEPT ![Tmp'] = @ \o cmd'[t].data]
      BY <2>1, <2>2, <2>3, <2>5 DEF Kept
    <3>. QED BY <1>1, <1>2, <1>5, <2>1, <2>2, <3>1 DEF Mid, Same
  <2>. QED BY <1>0, <1>1, <1>5, <2>2, <2>4, <2>6, Handling, GotoKeeps
<1>6. CASE /\ \E k \in 0..(Len(cmd[t].data) - 1) :
                fs' = [fs EXCEPT ![Tmp] = @ \o SubSeq(cmd[t].data, 1, k)]
           /\ upload' = [upload EXCEPT !.hit = TRUE]
           /\ Answer(t, "write failed")
  <2>1. PICK k \in 0..(Len(cmd[t].data) - 1) :
          fs' = [fs EXCEPT ![Tmp] = @ \o SubSeq(cmd[t].data, 1, k)]
    BY <1>6
  <2>2. k \in 0..Len(cmd[t].data) /\ k <= Len(cmd[t].data)
    <3>1. PICK m \in Nat : m = Len(cmd[t].data)
      BY <1>4
    <3>2. k \in 0..(m - 1)
      BY <3>1
    <3>. QED BY <3>1, <3>2
  <2>3. PICK d \in Contents : d = SubSeq(cmd[t].data, 1, k) /\ Len(d) <= Len(cmd[t].data)
    BY <1>3, <2>2, PrefixIsContent
  <2>4. fs' = [rest.fs EXCEPT ![Tmp] = Kept \o d]
    BY <1>2, <1>3, <2>1, <2>3 DEF Same
  <2>5. /\ fs' \in Files /\ Kept \o d \in Contents /\ u.received <= Len(Kept)
        /\ Len(Kept \o d) = Len(Kept) + Len(d) /\ Len(Kept) \in Nat /\ Len(d) \in Nat
    BY <1>1, <2>3, <2>4, AppendToTmp
  <2>6. Tmp \in Paths /\ Whole(u, fs) /\ u \in Uploads /\ upload \in Ghosts /\ rest.fs \in Files
    BY <1>0, <1>1, <1>2, Handling
  <2>7. fs'[Tmp] = Kept \o d /\ \A q \in Paths : q # Tmp => fs'[q] = fs[q]
    BY <1>2, <2>4, <2>6 DEF Files, Same
  <2>8. u.received <= Len(fs'[Tmp])
    <3>1. u.received \in 0..MaxBytes
      BY <1>2, <2>6, UploadFields
    <3>2. PICK m \in Nat, j \in Nat : m = Len(Kept) /\ j = Len(d)
      BY <2>5
    <3>3. PICK r \in Nat : r = u.received /\ r <= m
      BY <2>5, <3>1, <3>2, SessionAssumption
    <3>4. Len(fs'[Tmp]) = m + j
      BY <2>5, <2>7, <3>2
    <3>. QED BY <3>3, <3>4
  <2>9. Whole(u', fs')
    BY <1>1, <1>2, <2>5, <2>7, <2>8 DEF Whole, Tmp
  <2>10. upload' \in Ghosts /\ ~upload'.kept
    <3>1. \E B : B = BOOLEAN
      OBVIOUS
    <3>2. PICK B : B = BOOLEAN
      BY <3>1
    <3>3. PICK h \in B : h = TRUE
      BY <3>2
    <3>4. Ghosts = [begun : Sides \union {"NONE"}, by : SUBSET Sides, ended : B, hit : B, kept : B]
      BY <3>2 DEF Ghosts
    <3>5. [upload EXCEPT !.hit = h] \in Ghosts /\ [upload EXCEPT !.hit = h].kept = upload.kept
      BY <2>6, <3>4
    <3>. QED BY <1>2, <1>6, <3>3, <3>5 DEF Same
  <2>11. Settles(t)
    BY <1>0, <1>1, <1>6, Handling, AnswerEffect DEF HandlerStep, Settles
  <2>. QED BY <1>0, <1>1, <1>6, <2>5, <2>9, <2>10, <2>11, Handling, AnswerKeeps
<1>. QED BY <1>5, <1>6 DEF FrameWrite, Tmp

(* A frame that was received.                                                *)
LEMMA ReceivedState ==
  ASSUME NEW v \in ActiveStates, NEW d \in Contents, v.received + Len(d) <= MaxBytes
  PROVE  LET w == [v EXCEPT !.hashed = @ \o d, !.received = @ + Len(d)]
         IN  /\ w \in ActiveStates /\ w.active = v.active /\ w.open = v.open /\ w.name = v.name
             /\ w.size = v.size /\ w.expected = v.expected
             /\ w.hashed = v.hashed \o d /\ w.received = v.received + Len(d)
<1>1. v.hashed \in Contents /\ v.received \in 0..MaxBytes
  BY DEF ActiveStates, Contents
<1>2. PICK h \in Seq(Symbols) : h = v.hashed \o d
  BY <1>1, Append2 DEF Contents
<1>3. Len(d) \in Nat
  BY Append2
<1>4. PICK r \in 0..MaxBytes : r = v.received + Len(d)
  BY <1>1, <1>3, SessionAssumption
<1>5. \E B : B = BOOLEAN
  OBVIOUS
<1>6. PICK B : B = BOOLEAN
  BY <1>5
<1>7. ActiveStates =
        [active : {TRUE}, open : B, name : Names, size : 1..MaxBytes,
         received : 0..MaxBytes, hashed : Seq(Symbols), expected : Announced]
  BY <1>6 DEF ActiveStates
<1>. DEFINE x == [v EXCEPT !.hashed = h]
<1>8. x \in ActiveStates
  BY <1>7
<1>9. x.hashed = h /\ x.active = v.active /\ x.name = v.name /\ x.size = v.size
      /\ x.received = v.received /\ x.open = v.open /\ x.expected = v.expected
  BY <1>7
<1>. DEFINE y == [x EXCEPT !.received = r]
<1>10. y = [v EXCEPT !.hashed = @ \o d, !.received = @ + Len(d)]
  BY <1>2, <1>4, <1>9
<1>. HIDE DEF x
<1>11. y \in ActiveStates
  BY <1>7, <1>8
<1>12. y.received = r /\ y.active = x.active /\ y.name = x.name /\ y.size = x.size
       /\ y.hashed = x.hashed /\ y.open = x.open /\ y.expected = x.expected
  BY <1>7, <1>8
<1>. HIDE DEF y
<1>. QED BY <1>2, <1>4, <1>9, <1>10, <1>11, <1>12

(* The frame is hashed and counted.                                          *)
LEMMA FrameUpdateKeeps ==
  ASSUME DataInv, NEW t \in Sides, FrameUpdate(t), HandlerStep(t)
  PROVE  DataInv'
<1>0. "update" \in Steps \ {"idle"} /\ "ok" \in Kinds
  BY DEF Steps, Kinds
<1>1. At(t, "update") /\ UNCHANGED fs /\ Answer(t, "ok")
  BY DEF FrameUpdate
<1>2. PICK d : d = cmd[t].data
  OBVIOUS
<1>3. /\ cmd[t].op = "frame" /\ cmd[t] \in Commands /\ u.active /\ u.open /\ rest.u = u
      /\ fs = [rest.fs EXCEPT ![Tmp] = Kept \o d]
  BY <1>0, <1>1, <1>2, Handling DEF Mid, Kept
<1>4. d \in Contents /\ Len(d) \in Nat /\ Len(d) <= Len(cmd[t].data)
  <2>1. d \in Contents
    BY <1>2, <1>3, CommandFields
  <2>2. Len(d) \in Nat
    BY <2>1, Append2
  <2>3. Len(d) <= Len(d)
    BY <2>2
  <2>. QED BY <1>2, <2>1, <2>2, <2>3
<1>5. /\ Kept \in Contents /\ Kept \o d \in Contents /\ Len(Kept \o d) = Len(Kept) + Len(d)
      /\ Len(Kept) \in Nat /\ u.received <= Len(Kept)
      /\ Len(Kept) + Len(d) <= MaxBytes
  BY <1>1, <1>4, AppendToTmp
<1>6. u \in ActiveStates /\ u.received \in Nat /\ Tmp \in Paths
  <2>1. u \in ActiveStates /\ Tmp \in Paths
    BY <1>0, <1>1, <1>3, Handling
  <2>2. u.received \in 0..MaxBytes
    BY <2>1 DEF ActiveStates
  <2>. QED BY <2>1, <2>2, SessionAssumption
<1>7. u.received + Len(d) <= Len(Kept) + Len(d) /\ u.received + Len(d) <= MaxBytes
  BY <1>4, <1>5, <1>6, SessionAssumption
<1>8. u' = [u EXCEPT !.hashed = @ \o d, !.received = @ + Len(d)]
  BY <1>2 DEF FrameUpdate
<1>9. /\ u' \in ActiveStates /\ u'.active /\ u'.open /\ u'.name = u.name
      /\ u'.received = u.received + Len(d)
  BY <1>3, <1>4, <1>6, <1>7, <1>8, ReceivedState
<1>10. Whole(u', fs')
  <2>1. /\ Whole(rest.u, rest.fs) /\ rest.fs \in Files
    BY <1>0, <1>1, Handling
  <2>2. fs'[Tmp] = Kept \o d /\ \A q \in Paths : q # Tmp => fs'[q] = rest.fs[q]
    BY <1>1, <1>3, <1>6, <2>1 DEF Files
  <2>4. u'.received <= Len(fs'[Tmp])
    BY <1>5, <1>7, <1>9, <2>2
  <2>. QED BY <1>5, <1>9, <2>2, <2>4 DEF Whole, Tmp
<1>11. upload' \in Ghosts /\ ~upload'.kept
  <2>1. upload \in Ghosts
    BY <1>0, <1>1, Handling
  <2>2. upload' = [upload EXCEPT !.by = @ \union {t}]
    BY DEF FrameUpdate
  <2>3. upload.by \union {t} \in SUBSET Sides
    BY <2>1 DEF Ghosts
  <2>4. PICK b \in SUBSET Sides : b = upload.by \union {t}
    BY <2>3
  <2>5. \E B : B = BOOLEAN
    OBVIOUS
  <2>6. PICK B : B = BOOLEAN
    BY <2>5
  <2>7. Ghosts = [begun : Sides \union {"NONE"}, by : SUBSET Sides, ended : B, hit : B, kept : B]
    BY <2>6 DEF Ghosts
  <2>8. [upload EXCEPT !.by = b] \in Ghosts /\ [upload EXCEPT !.by = b].kept = upload.kept
    BY <2>1, <2>7
  <2>9. ~upload.kept
    BY <1>0, <1>1, Handling DEF Mid
  <2>. QED BY <2>2, <2>4, <2>8, <2>9
<1>12. Settles(t)
  BY <1>0, <1>1, Handling, AnswerEffect DEF HandlerStep, Settles
<1>. QED BY <1>0, <1>1, <1>3, <1>6, <1>9, <1>10, <1>11, <1>12, Handling, AnswerKeeps DEF Uploads

(* fclose(), which may lose the end of the file.                             *)
LEMMA CloseEffect ==
  ASSUME DataInv, NEW t \in Sides, NEW p \in {"done", "cancel"}, At(t, p), u.active, Close,
         rest' = rest
  PROVE  /\ u' \in Uploads /\ fs' \in Files /\ upload' \in Ghosts /\ ~upload'.kept
         /\ Closing' /\ Cut'
<1>0. p \in Steps \ {"idle"}
  BY DEF Steps
<1>1. Same
  BY <1>0, Handling DEF Mid
<1>2. u' = [u EXCEPT !.open = FALSE]
  BY DEF Close
<1>3. Kept = fs[Tmp] /\ Kept \in Contents
  BY <1>0, <1>1, Handling DEF Same, Whole, Kept, Tmp
<1>4. Len(Kept) \in Nat /\ Len(Kept) <= MaxBytes
  <2>1. Kept # NoFile
    BY <1>3, SessionAssumption DEF Contents
  <2>. QED BY <1>0, <1>3, <2>1, Handling, FileFields
<1>5. PICK k \in 0..Len(Kept) :
        /\ k < Len(Kept) => "flush" \in DiskFaults
        /\ fs' = [fs EXCEPT ![Tmp] = SubSeq(@, 1, k)]
        /\ upload' = [upload EXCEPT !.hit = @ \/ k < Len(Kept)]
  <2>1. PICK k \in IF "flush" \in DiskFaults THEN 0..Len(Kept) ELSE {Len(Kept)} :
          /\ fs' = [fs EXCEPT ![Tmp] = SubSeq(@, 1, k)]
          /\ upload' = [upload EXCEPT !.hit = @ \/ k < Len(Kept)]
    BY <1>3 DEF Close, Tmp
  <2>2. PICK m \in Nat : m = Len(Kept)
    BY <1>4
  <2>3. k \in 0..m /\ (k < m => "flush" \in DiskFaults)
    <3>1. CASE "flush" \in DiskFaults
      BY <2>1, <2>2, <3>1
    <3>2. CASE "flush" \notin DiskFaults
      <4>1. k = m
        BY <2>1, <2>2, <3>2
      <4>2. m \in 0..m /\ ~(m < m)
        BY <2>2
      <4>. QED BY <4>1, <4>2
    <3>. QED BY <3>1, <3>2
  <2>. QED BY <2>1, <2>2, <2>3
<1>6. PICK d \in Contents : d = SubSeq(Kept, 1, k) /\ Len(d) = k
  BY <1>3, <1>5, PrefixIsContent
<1>7. fs' = [rest.fs EXCEPT ![Tmp] = d]
  BY <1>1, <1>3, <1>5, <1>6 DEF Same
<1>8. fs' \in Files
  <2>1. Len(d) <= MaxBytes
    BY <1>4, <1>5, <1>6, SessionAssumption
  <2>. QED BY <1>0, <1>7, <2>1, Handling, FileChange
<1>9. /\ u' \in ActiveStates /\ u'.active /\ ~u'.open /\ u'.name = u.name
      /\ u'.size = u.size /\ u'.received = u.received /\ u'.hashed = u.hashed
      /\ u'.expected = u.expected
  BY <1>0, <1>2, Handling, CloseFile
<1>10. upload' \in Ghosts /\ (upload'.hit <=> upload.hit \/ k < Len(Kept)) /\ ~upload'.kept
  <2>1. \E B : B = BOOLEAN
    OBVIOUS
  <2>2. PICK B : B = BOOLEAN
    BY <2>1
  <2>3. upload \in Ghosts
    BY <1>0, Handling
  <2>4. (upload.hit \/ k < Len(Kept)) \in BOOLEAN
    BY <2>3 DEF Ghosts
  <2>5. PICK h \in B : h = (upload.hit \/ k < Len(Kept))
    BY <2>2, <2>4
  <2>6. Ghosts = [begun : Sides \union {"NONE"}, by : SUBSET Sides, ended : B, hit : B, kept : B]
    BY <2>2 DEF Ghosts
  <2>7. LET w == [upload EXCEPT !.hit = h]
        IN  w \in Ghosts /\ w.hit = h /\ w.kept = upload.kept
    BY <2>3, <2>6
  <2>8. upload' = [upload EXCEPT !.hit = h]
    BY <1>5, <2>5
  <2>. QED BY <1>1, <2>5, <2>7, <2>8 DEF Same
<1>11. Tmp' = Tmp /\ Kept' = Kept
  BY <1>9 DEF Tmp, Kept
<1>12. Closing'
  BY <1>1, <1>9 DEF Closing, Same
<1>13. ClosedAt(k)' /\ fs' = [rest'.fs EXCEPT ![Tmp'] = SubSeq(Kept', 1, k)] /\ k \in 0..Len(Kept')
  BY <1>1, <1>5, <1>6, <1>7, <1>10, <1>11 DEF ClosedAt, Same
<1>14. Cut'
  BY <1>13 DEF Cut
<1>. QED BY <1>8, <1>9, <1>10, <1>12, <1>14 DEF Uploads

(* A step after which the handler goes on.                                   *)
LEMMA GotoEffect ==
  ASSUME DataInv, NEW t \in Sides, NEW q \in Steps \ {"idle"}, Goto(t, q), HandlerStep(t)
  PROVE  pc'[t] = q /\ cmd' = cmd /\ rest' = rest
<1>1. pc'[t] = q /\ cmd' = cmd
  BY DEF Goto, DataInv, TypeInv
<1>. QED BY <1>1 DEF HandlerStep

(* ... and the answer is decided.                                            *)
LEMMA EndingEffect ==
  ASSUME DataInv, NEW t \in Sides, NEW q \in Steps \ {"idle"}, NEW k \in Kinds,
         Ending(t, k, q), HandlerStep(t)
  PROVE  /\ Goto(t, q) /\ pc'[t] = q /\ cmd' = cmd /\ rest' = rest
         /\ result' \in [Sides -> Kinds] /\ result'[t] = k
<1>1. Goto(t, q) /\ result' = [result EXCEPT ![t] = k]
  BY DEF Ending
<1>. QED BY <1>1, GotoEffect DEF DataInv, TypeInv

(* UPLOADDONE closes the file.                                               *)
LEMMA DoneCloseKeeps ==
  ASSUME DataInv, NEW t \in Sides, DoneClose(t), HandlerStep(t)
  PROVE  DataInv'
<1>0. "done" \in Steps \ {"idle"} /\ "verify" \in Steps \ {"idle"} /\ "noupload" \in Kinds
  BY DEF Steps, Kinds
<1>1. At(t, "done")
  BY DEF DoneClose
<1>2. Same /\ cmd[t] \in Commands /\ pc[t] = "done"
  BY <1>0, <1>1, Handling DEF Mid
<1>3. CASE Answer(t, "noupload") /\ UNCHANGED <<u, fs, upload>>
  <2>1. Settles(t)
    BY <1>0, <1>1, <1>3, Handling, AnswerEffect DEF HandlerStep, Settles
  <2>. QED BY <1>0, <1>1, <1>2, <1>3, <2>1, PlainAnswer
<1>4. CASE u.active /\ Close /\ Goto(t, "verify") /\ UNCHANGED result
  <2>1. pc'[t] = "verify" /\ cmd' = cmd /\ rest' = rest
    BY <1>0, <1>4, GotoEffect
  <2>2. /\ u' \in Uploads /\ fs' \in Files /\ upload' \in Ghosts /\ ~upload'.kept
        /\ Closing' /\ Cut'
    BY <1>1, <1>4, <2>1, CloseEffect
  <2>3. Mid(t)'
    BY <1>2, <2>1, <2>2 DEF Mid
  <2>. QED BY <1>0, <1>1, <1>4, <2>1, <2>2, <2>3, Handling, GotoKeeps
<1>. QED BY <1>3, <1>4 DEF DoneClose

(* Byte count and digest are compared.                                       *)
LEMMA DoneVerifyKeeps ==
  ASSUME DataInv, NEW t \in Sides, DoneVerify(t), HandlerStep(t)
  PROVE  DataInv'
<1>0. /\ "verify" \in Steps \ {"idle"} /\ "unlink" \in Steps \ {"idle"} /\ "rename" \in Steps \ {"idle"}
      /\ "size" \in Kinds /\ "md5" \in Kinds
  BY DEF Steps, Kinds
<1>1. At(t, "verify") /\ UNCHANGED <<u, fs, upload>>
  BY DEF DoneVerify
<1>2. Closing /\ Cut /\ ~upload.kept /\ cmd[t] \in Commands
  BY <1>0, <1>1, Handling DEF Mid
<1>3. ASSUME rest' = rest PROVE Closing' /\ Cut' /\ Verified' = Verified
  BY <1>1, <1>2, <1>3 DEF Closing, Cut, ClosedAt, Kept, Tmp, Verified
<1>5. ASSUME NEW k \in {"size", "md5"}, Ending(t, k, "unlink"), Failed(k) PROVE DataInv'
  <2>1. /\ Goto(t, "unlink") /\ pc'[t] = "unlink" /\ cmd' = cmd /\ rest' = rest
        /\ result' \in [Sides -> Kinds] /\ result'[t] = k
    BY <1>0, <1>5, EndingEffect
  <2>2. Failed(result[t])'
    BY <1>1, <1>5, <2>1 DEF Failed, Verified
  <2>3. Mid(t)'
    BY <1>1, <1>2, <1>3, <2>1, <2>2 DEF Mid
  <2>. QED BY <1>0, <1>1, <2>1, <2>3, Handling, GotoKeeps
<1>6. CASE Verified
  <2>1. Goto(t, "rename") /\ result' = result
    BY <1>6 DEF DoneVerify, Verified
  <2>2. pc'[t] = "rename" /\ cmd' = cmd /\ rest' = rest
    BY <1>0, <2>1, GotoEffect
  <2>3. Mid(t)'
    BY <1>1, <1>2, <1>3, <1>6, <2>2 DEF Mid
  <2>. QED BY <1>0, <1>1, <2>1, <2>2, <2>3, Handling, GotoKeeps
<1>. QED BY <1>5, <1>6 DEF DoneVerify, Verified, Failed

(* rename().                                                                 *)
LEMMA DoneRenameKeeps ==
  ASSUME DataInv, NEW t \in Sides, DoneRename(t), HandlerStep(t)
  PROVE  DataInv'
<1>0. /\ "rename" \in Steps \ {"idle"} /\ "unlink" \in Steps \ {"idle"} /\ "reset" \in Steps \ {"idle"}
      /\ "done" \in Kinds /\ "save" \in Kinds
  BY DEF Steps, Kinds
<1>1. At(t, "rename") /\ UNCHANGED <<u, upload>>
  BY DEF DoneRename
<1>2. Closing /\ Cut /\ Verified /\ ~upload.kept /\ cmd[t] \in Commands
  BY <1>0, <1>1, Handling DEF Mid
<1>3. PICK k \in 0..Len(Kept) :
        ClosedAt(k) /\ fs = [rest.fs EXCEPT ![Tmp] = SubSeq(Kept, 1, k)]
  BY <1>2 DEF Cut
<1>4. /\ rest.fs \in Files /\ fs \in Files /\ Tmp \in Paths /\ u.name \in Paths /\ Tmp # u.name
      /\ u.name \in Names
  BY <1>0, <1>1, <1>2, Handling DEF Closing
<1>5. fs[Tmp] = SubSeq(Kept, 1, k) /\ \A p \in Paths : p # Tmp => fs[p] = rest.fs[p]
  BY <1>3, <1>4 DEF Files
<1>6. CASE /\ fs' = [fs EXCEPT ![u.name] = fs[Tmp], ![Tmp] = NoFile]
           /\ Ending(t, "done", "reset")
  <2>1. /\ Goto(t, "reset") /\ pc'[t] = "reset" /\ cmd' = cmd /\ rest' = rest
        /\ result' \in [Sides -> Kinds] /\ result'[t] = "done"
    BY <1>0, <1>6, EndingEffect
  <2>2. Closing' /\ Verified' /\ Tmp' = Tmp /\ Kept' = Kept /\ ClosedAt(k)'
    BY <1>1, <1>2, <1>3, <2>1 DEF Closing, Tmp, Kept, Verified, ClosedAt
  <2>3. PICK d : d = SubSeq(Kept, 1, k)
    OBVIOUS
  <2>4. d \in Contents \union {NoFile} /\ (d # NoFile => Len(d) <= MaxBytes)
    BY <1>4, <1>5, <2>3 DEF Files
  <2>5. fs' = [rest.fs EXCEPT ![u.name] = d, ![Tmp] = NoFile]
    BY <1>3, <1>4, <1>5, <1>6, <2>3 DEF Files
  <2>6. fs' \in Files
    <3>1. [rest.fs EXCEPT ![u.name] = d] \in Files
      BY <1>4, <2>4, FileChange
    <3>2. [[rest.fs EXCEPT ![u.name] = d] EXCEPT ![Tmp] = NoFile] \in Files
      BY <1>4, <3>1, FileChange
    <3>. QED BY <2>5, <3>2
  <2>7. Mid(t)'
    <3>1. fs' = [rest'.fs EXCEPT ![u'.name] = SubSeq(Kept', 1, k), ![Tmp'] = NoFile]
      BY <1>1, <2>1, <2>2, <2>3, <2>5
    <3>2. (Closing /\ Verified)' /\ k \in 0..Len(Kept')
      BY <2>2
    <3>3. Saved(result[t])'
      BY <1>1, <1>2, <2>1, <2>2, <3>1, <3>2 DEF Saved
    <3>. QED BY <1>2, <2>1, <3>2, <3>3 DEF Mid
  <2>. QED BY <1>0, <1>1, <2>1, <2>6, <2>7, Handling, GotoKeeps
<1>7. CASE "rename" \in DiskFaults /\ Ending(t, "save", "unlink") /\ UNCHANGED fs
  <2>1. /\ Goto(t, "unlink") /\ pc'[t] = "unlink" /\ cmd' = cmd /\ rest' = rest
        /\ result' \in [Sides -> Kinds] /\ result'[t] = "save"
    BY <1>0, <1>7, EndingEffect
  <2>2. Closing' /\ Cut' /\ Failed(result[t])'
    BY <1>1, <1>2, <1>7, <2>1 DEF Closing, Cut, ClosedAt, Kept, Tmp, Failed, Verified
  <2>3. Mid(t)'
    BY <1>1, <1>2, <1>7, <2>1, <2>2 DEF Mid
  <2>. QED BY <1>0, <1>1, <1>7, <2>1, <2>3, Handling, GotoKeeps
<1>. QED BY <1>6, <1>7 DEF DoneRename, Tmp

(* AT+UPLOADCANCEL.                                                          *)
LEMMA CancelCloseKeeps ==
  ASSUME DataInv, NEW t \in Sides, CancelClose(t), HandlerStep(t)
  PROVE  DataInv'
<1>0. "cancel" \in Steps \ {"idle"} /\ "unlink" \in Steps \ {"idle"} /\ "cancelled" \in Kinds
  BY DEF Steps, Kinds
<1>1. At(t, "cancel")
  BY DEF CancelClose
<1>2. Same /\ cmd[t] \in Commands /\ (u.active => u.open)
  BY <1>0, <1>1, Handling DEF Mid, Whole
<1>3. CASE u.active /\ Close /\ Ending(t, "cancelled", "unlink")
  <2>1. /\ Goto(t, "unlink") /\ pc'[t] = "unlink" /\ cmd' = cmd /\ rest' = rest
        /\ result' \in [Sides -> Kinds] /\ result'[t] = "cancelled"
    BY <1>0, <1>3, EndingEffect
  <2>2. /\ u' \in Uploads /\ fs' \in Files /\ upload' \in Ghosts /\ ~upload'.kept
        /\ Closing' /\ Cut'
    BY <1>1, <1>3, <2>1, CloseEffect
  <2>3. Failed(result[t])'
    BY <2>1 DEF Failed
  <2>4. Mid(t)'
    BY <1>2, <2>1, <2>2, <2>3 DEF Mid
  <2>. QED BY <1>0, <1>1, <2>1, <2>2, <2>4, Handling, GotoKeeps
<1>4. CASE Answer(t, "cancelled") /\ UNCHANGED <<u, fs, upload>>
  <2>1. Settles(t)
    BY <1>0, <1>1, <1>4, Handling, AnswerEffect DEF HandlerStep, Settles
  <2>. QED BY <1>0, <1>1, <1>2, <1>4, <2>1, PlainAnswer
<1>. QED BY <1>2, <1>3, <1>4 DEF CancelClose

(* unlink() of the temporary file, or its failure.                           *)
LEMMA UnlinkKeeps ==
  ASSUME DataInv, NEW t \in Sides, Unlink(t), HandlerStep(t)
  PROVE  DataInv'
<1>0. "unlink" \in Steps \ {"idle"} /\ "reset" \in Steps \ {"idle"}
  BY DEF Steps
<1>1. At(t, "unlink") /\ UNCHANGED <<u, result>> /\ Goto(t, "reset")
  BY DEF Unlink
<1>2. Closing /\ Cut /\ ~upload.kept /\ cmd[t] \in Commands /\ Failed(result[t])
  BY <1>0, <1>1, Handling DEF Mid
<1>3. rest.fs \in Files /\ fs \in Files /\ Tmp \in Paths /\ upload \in Ghosts
  BY <1>0, <1>1, <1>2, Handling DEF Closing
<1>4. pc'[t] = "reset" /\ cmd' = cmd /\ rest' = rest
  BY <1>0, <1>1, GotoEffect
<1>5. Closing' /\ Tmp' = Tmp /\ Kept' = Kept /\ Failed(result[t])'
  BY <1>1, <1>2, <1>4 DEF Closing, Tmp, Kept, Failed, Verified
<1>6. CASE fs' = [fs EXCEPT ![Tmp] = NoFile] /\ UNCHANGED upload
  <2>1. fs' = [rest.fs EXCEPT ![Tmp] = NoFile]
    BY <1>2, <1>3, <1>6 DEF Cut, Files
  <2>2. fs' \in Files
    BY <1>3, <1>6, FileChange
  <2>3. Removed(result[t])'
    BY <1>2, <1>4, <1>5, <1>6, <2>1 DEF Removed
  <2>4. Mid(t)'
    BY <1>2, <1>4, <1>5, <2>3 DEF Mid
  <2>. QED BY <1>0, <1>1, <1>3, <1>4, <1>6, <2>2, <2>4, Handling, GotoKeeps
<1>7. CASE "unlink" \in DiskFaults /\ upload' = [upload EXCEPT !.kept = TRUE] /\ UNCHANGED fs
  <2>1. upload' \in Ghosts /\ upload'.kept /\ upload'.hit = upload.hit
    <3>1. \E B : B = BOOLEAN
      OBVIOUS
    <3>2. PICK B : B = BOOLEAN
      BY <3>1
    <3>3. PICK b \in B : b = TRUE
      BY <3>2
    <3>4. Ghosts = [begun : Sides \union {"NONE"}, by : SUBSET Sides, ended : B, hit : B, kept : B]
      BY <3>2 DEF Ghosts
    <3>5. LET w == [upload EXCEPT !.kept = b]
          IN  w \in Ghosts /\ w.kept = b /\ w.hit = upload.hit
      BY <1>3, <3>4
    <3>. QED BY <1>7, <3>3, <3>5
  <2>2. Cut'
    BY <1>2, <1>4, <1>5, <1>7, <2>1 DEF Cut, ClosedAt
  <2>3. LeftOver(result[t])'
    BY <1>5, <1>7, <2>1, <2>2 DEF LeftOver
  <2>4. Mid(t)'
    BY <1>2, <1>4, <1>5, <2>3 DEF Mid
  <2>. QED BY <1>0, <1>1, <1>3, <1>4, <1>7, <2>1, <2>4, Handling, GotoKeeps
<1>. QED BY <1>6, <1>7 DEF Unlink, Tmp

(* reset().                                                                  *)
LEMMA ResetStateKeeps ==
  ASSUME DataInv, NEW t \in Sides, ResetState(t), HandlerStep(t)
  PROVE  DataInv'
<1>0. "reset" \in Steps \ {"idle"}
  BY DEF Steps
<1>1. /\ At(t, "reset") /\ u' = Blank /\ upload' = NoUpload /\ Answer(t, result[t])
      /\ UNCHANGED fs
  BY DEF ResetState
<1>2. result[t] \in Kinds
  BY <1>0, <1>1, Handling
<1>3. u' \in Uploads /\ u'.active = FALSE /\ u'.open = FALSE
  BY <1>1 DEF Uploads, Blank
<1>4. upload' \in Ghosts /\ ~upload'.kept
  <2>1. PICK f \in BOOLEAN : f = FALSE
    OBVIOUS
  <2>2. upload' = [begun |-> "NONE", by |-> {}, ended |-> f, hit |-> f, kept |-> f]
    BY <1>1, <2>1 DEF NoUpload
  <2>. QED BY <2>1, <2>2 DEF Ghosts
<1>5. Whole(u', fs') /\ (u.active => u.name \in Names)
  BY <1>0, <1>1, <1>3, Handling DEF Whole
<1>6. Settles(t)
  BY <1>0, <1>1, <1>2, Handling, AnswerEffect DEF HandlerStep, Settles
<1>. QED BY <1>0, <1>1, <1>2, <1>3, <1>4, <1>5, <1>6, Handling, AnswerKeeps

-----------------------------------------------------------------------------
(* The data invariant. *)

\* Steps that only concern the sessions, a new command among them.
SessionStep ==
  /\ UNCHANGED <<u, fs, rest, result, reply>>
  /\ upload' \in Ghosts /\ upload'.hit = upload.hit /\ upload'.kept = upload.kept
  /\ holder' \in Sides \union {"NONE"} /\ running' \subseteq Sides

(* Sessions come and go, and the data stay as they are.                      *)
LEMMA SessionOnly ==
  ASSUME DataInv, SessionStep, UNCHANGED <<pc, cmd, overlap>>
  PROVE  DataInv'
<1>1. u' = u /\ fs' = fs /\ rest' = rest /\ result' = result /\ reply' = reply /\ pc' = pc
      /\ cmd' = cmd /\ overlap' = overlap /\ upload'.hit = upload.hit /\ upload'.kept = upload.kept
  BY DEF SessionStep
<1>2. TypeInv'
  BY <1>1 DEF SessionStep, DataInv, TypeInv, TypeOK
<1>3. Same' = Same /\ AllIdle' = AllIdle
  BY <1>1 DEF Same, AllIdle, Idle
<1>4. RestInv'
  BY <1>1, <1>3 DEF DataInv, RestInv
<1>5. \A t \in Sides : Busy(t)' = Busy(t)
  BY <1>1 DEF Busy, Idle
<1>6. ASSUME NEW t \in Sides, Mid(t) PROVE Mid(t)'
  <2>1. Closing' = Closing /\ Tmp' = Tmp /\ Kept' = Kept /\ Verified' = Verified
    BY <1>1 DEF Closing, Tmp, Kept, Verified
  <2>2. \A k : ClosedAt(k)' <=> ClosedAt(k)
    BY <1>1, <2>1 DEF ClosedAt
  <2>3. Failed(result[t])' <=> Failed(result[t])
    BY <1>1, <2>1 DEF Failed
  <2>4. Cut' = Cut /\ Saved(result[t])' = Saved(result[t])
    BY <1>1, <2>1, <2>2 DEF Cut, Saved
  <2>5. /\ Removed(result[t])' = Removed(result[t])
        /\ LeftOver(result[t])' = LeftOver(result[t])
    BY <1>1, <2>1, <2>3, <2>4 DEF Removed, LeftOver
  <2>7. pc[t] = "update" =>
          /\ rest'.u = u' /\ rest'.hit = upload'.hit
          /\ fs' = [rest'.fs EXCEPT ![Tmp'] = @ \o cmd'[t].data]
    BY <1>1, <1>6, <2>1 DEF Mid
  <2>. QED BY <1>1, <1>3, <1>6, <2>1, <2>3, <2>4, <2>5, <2>7 DEF Mid
<1>7. MidInv'
  BY <1>1, <1>5, <1>6 DEF DataInv, MidInv
<1>. QED BY <1>2, <1>4, <1>7 DEF DataInv

(* Whether a session has ended is all that a release records.                *)
LEMMA EndedGhost ==
  ASSUME DataInv, Ended
  PROVE  /\ upload' \in Ghosts /\ upload'.hit = upload.hit /\ upload'.kept = upload.kept
         /\ upload'.begun = upload.begun
         /\ upload'.by = upload.by /\ (upload'.ended <=> u.active \/ ~AllIdle)
<1>1. upload \in Ghosts /\ u \in Uploads
  BY DEF DataInv, TypeInv, TypeOK, Uploads
<1>2. u.active \in BOOLEAN
  BY <1>1, UploadFields
<1>3. \E B : B = BOOLEAN
  OBVIOUS
<1>4. PICK B : B = BOOLEAN
  BY <1>3
<1>5. (u.active \/ ~AllIdle) \in BOOLEAN
  OBVIOUS
<1>6. PICK e \in B : e = (u.active \/ ~AllIdle)
  BY <1>4, <1>5
<1>7. Ghosts = [begun : Sides \union {"NONE"}, by : SUBSET Sides, ended : B, hit : B, kept : B]
  BY <1>4 DEF Ghosts
<1>8. LET w == [upload EXCEPT !.ended = e]
      IN  w \in Ghosts /\ w.hit = upload.hit /\ w.kept = upload.kept /\ w.begun = upload.begun /\ w.by = upload.by /\ w.ended = e
  BY <1>1, <1>7
<1>9. upload' = [upload EXCEPT !.ended = e]
  BY <1>6 DEF Ended
<1>. QED BY <1>6, <1>8, <1>9

(* A command arrives.                                                        *)
LEMMA StartKeeps ==
  ASSUME DataInv, NEW t \in Sides, NEW c \in Commands, Start(t, c), UNCHANGED rest
  PROVE  DataInv'
<1>1. /\ Calm /\ Idle(t) /\ Fits(c) /\ UNCHANGED <<result, u, fs, reply, rest, upload>>
      /\ holder' \in Sides \union {"NONE"} /\ running' \subseteq Sides
      /\ pc' = [pc EXCEPT ![t] = c.op] /\ cmd' = [cmd EXCEPT ![t] = c]
      /\ overlap' = ~AllIdle
  BY DEF Start, Session!Grant, DataInv, TypeInv, TypeOK
<1>2. c.op \in {"preupload", "frame", "done", "cancel"}
  BY CommandFields
<1>3. pc' \in [Sides -> Steps] /\ pc'[t] = c.op /\ \A s \in Sides : s # t => pc'[s] = pc[s]
  BY <1>1, <1>2 DEF DataInv, TypeInv, Steps
<1>4. DOMAIN cmd' = Sides /\ cmd'[t] = c /\ \A s \in Sides : s # t => cmd'[s] = cmd[s]
  BY <1>1 DEF DataInv, TypeInv
<1>5. TypeInv'
  <2>1. \A s \in Sides : pc'[s] # "idle" => cmd'[s] \in Commands
    BY <1>3, <1>4 DEF DataInv, TypeInv, TypeOK
  <2>2. overlap' \in BOOLEAN
    BY <1>1
  <2>. QED BY <1>1, <1>3, <1>4, <2>1, <2>2 DEF DataInv, TypeInv, TypeOK
<1>6. pc'[t] # "idle"
  BY <1>2, <1>3
<1>7. RestInv'
  BY <1>1, <1>6 DEF DataInv, RestInv, AllIdle, Idle
<1>8. MidInv'
  <2>1. CASE ~AllIdle
    BY <1>1, <2>1 DEF MidInv
  <2>2. CASE AllIdle
    <3>1. \A s \in Sides : s # t => ~Busy(s)'
      BY <1>3, <2>2 DEF AllIdle, Busy, Idle
    <3>2. Same /\ Same'
      BY <1>1, <2>2 DEF DataInv, RestInv, Same
    <3>3. Whole(u, fs)
      BY <3>2 DEF DataInv, RestInv, Same
    <3>4. /\ c.op = "frame" /\ u'.active =>
               Len(rest'.fs[TmpOf[rest'.u.name]]) + Len(c.data) <= MaxBytes
      BY <1>1, <3>2, <3>3, UploadFields DEF Fits, Same, Whole, DataInv, TypeInv, TypeOK, Uploads
    <3>5. Mid(t)'
      BY <1>2, <1>3, <1>4, <3>2, <3>4 DEF Mid, Same
    <3>. QED BY <3>1, <3>5 DEF MidInv
  <2>. QED BY <2>1, <2>2
<1>. QED BY <1>5, <1>7, <1>8 DEF DataInv

(* A step of a handler.                                                      *)
LEMMA HandlerKeeps ==
  ASSUME DataInv, NEW t \in Sides, HandlerStep(t)
  PROVE  DataInv'
<1>1. CASE PreuploadCheck(t) BY <1>1, PreuploadCheckKeeps
<1>2. CASE PreuploadOpen(t)  BY <1>2, PreuploadOpenKeeps
<1>3. CASE PreuploadBegin(t) BY <1>3, PreuploadBeginKeeps
<1>4. CASE FrameCheck(t)     BY <1>4, FrameCheckKeeps
<1>5. CASE FrameWrite(t)     BY <1>5, FrameWriteKeeps
<1>6. CASE FrameUpdate(t)    BY <1>6, FrameUpdateKeeps
<1>7. CASE DoneClose(t)      BY <1>7, DoneCloseKeeps
<1>8. CASE DoneVerify(t)     BY <1>8, DoneVerifyKeeps
<1>9. CASE DoneRename(t)     BY <1>9, DoneRenameKeeps
<1>10. CASE CancelClose(t)   BY <1>10, CancelCloseKeeps
<1>11. CASE Unlink(t)        BY <1>11, UnlinkKeeps
<1>12. CASE ResetState(t)    BY <1>12, ResetStateKeeps
<1>. QED BY <1>1, <1>2, <1>3, <1>4, <1>5, <1>6, <1>7, <1>8, <1>9, <1>10, <1>11, <1>12
         DEF HandlerStep

(* The data invariant holds at the start and is kept by every step.          *)
LEMMA DataStarts == Init => DataInv
<1>. SUFFICES ASSUME Init PROVE DataInv
  OBVIOUS
<1>1. /\ holder = "NONE" /\ running = {} /\ pc = [t \in Sides |-> "idle"]
      /\ cmd = [t \in Sides |-> "none"] /\ result = [t \in Sides |-> "none"]
      /\ u = Blank /\ fs = [p \in Paths |-> NoFile] /\ reply = "none"
      /\ rest = [u |-> u, fs |-> fs, hit |-> FALSE, flawed |-> {}, left |-> {}]
      /\ upload = NoUpload /\ overlap = FALSE
  BY DEF Init, Session!Init, Paths
<1>2. "idle" \in Steps /\ "none" \in Kinds
  BY DEF Steps, Kinds
<1>3. AllIdle /\ \A t \in Sides : ~Busy(t)
  BY <1>1 DEF AllIdle, Idle, Busy
<1>4. fs \in Files /\ \A p \in Paths : fs[p] = NoFile
  BY <1>1 DEF Files
<1>5. u \in Uploads /\ u.active = FALSE /\ u.open = FALSE
  BY <1>1 DEF Uploads, Blank
<1>6. rest \in Rests /\ rest.u = u /\ rest.fs = fs /\ rest.hit = FALSE
  <2>1. PICK f \in BOOLEAN : f = FALSE
    OBVIOUS
  <2>2. rest = [u |-> u, fs |-> fs, hit |-> f, flawed |-> {}, left |-> {}]
    BY <1>1, <2>1
  <2>. QED BY <1>4, <1>5, <2>1, <2>2 DEF Rests
<1>7. upload \in Ghosts /\ upload.hit = FALSE /\ ~upload.kept
  <2>1. PICK f \in BOOLEAN : f = FALSE
    OBVIOUS
  <2>2. upload = [begun |-> "NONE", by |-> {}, ended |-> f, hit |-> f, kept |-> f]
    BY <1>1, <2>1 DEF NoUpload
  <2>. QED BY <2>1, <2>2 DEF Ghosts
<1>8. TypeInv
  <2>1. \A p \in DOMAIN fs : fs[p] # NoFile => Len(fs[p]) <= MaxBytes
    BY <1>4 DEF Files
  <2>. QED BY <1>1, <1>2, <1>4, <1>5, <1>6, <1>7, <2>1 DEF TypeInv, TypeOK, Uploads
<1>9. RestInv
  BY <1>5, <1>6, <1>7 DEF RestInv, Same, Whole
<1>10. MidInv
  BY <1>3 DEF MidInv
<1>. QED BY <1>8, <1>9, <1>10 DEF DataInv

(* Every step keeps DataInv.                                                 *)
LEMMA DataKept == DataInv /\ [Next]_vars => DataInv'
<1>. SUFFICES ASSUME DataInv, [Next]_vars PROVE DataInv'
  OBVIOUS
<1>0. upload \in Ghosts /\ holder \in Sides \union {"NONE"} /\ running \subseteq Sides
  BY DEF DataInv, TypeInv, TypeOK
<1>1. ASSUME NEW t \in Sides, NEW c \in Commands, Start(t, c) PROVE DataInv'
  BY <1>1, StartKeeps DEF Start
<1>2. ASSUME NEW t \in Sides, OtherCommand(t) PROVE DataInv'
  <2>1. SessionStep /\ UNCHANGED <<pc, cmd, overlap>>
    BY <1>0, <1>2 DEF OtherCommand, Session!Grant, unlocked, SessionStep
  <2>. QED BY <2>1, SessionOnly
<1>3. ASSUME NEW t \in Sides, Reset(t) PROVE DataInv'
  <2>1. upload' \in Ghosts /\ upload'.hit = upload.hit /\ upload'.kept = upload.kept
    BY <1>3, EndedGhost DEF Reset
  <2>2. SessionStep /\ UNCHANGED <<pc, cmd, overlap>>
    BY <1>0, <1>3, <2>1 DEF Reset, Session!Release, unlocked, SessionStep
  <2>. QED BY <2>2, SessionOnly
<1>4. CASE ForceRelease
  <2>1. upload' \in Ghosts /\ upload'.hit = upload.hit /\ upload'.kept = upload.kept
    BY <1>4, EndedGhost DEF ForceRelease
  <2>2. SessionStep /\ UNCHANGED <<pc, cmd, overlap>>
    BY <1>0, <1>4, <2>1 DEF ForceRelease, Session!Force, unlocked, SessionStep
  <2>. QED BY <2>2, SessionOnly
<1>5. CASE UNCHANGED vars
  <2>1. SessionStep /\ UNCHANGED <<pc, cmd, overlap>>
    BY <1>0, <1>5 DEF vars, session, SessionStep
  <2>. QED BY <2>1, SessionOnly
<1>6. ASSUME NEW t \in Sides, HandlerStep(t) PROVE DataInv'
  BY <1>6, HandlerKeeps
<1>. QED BY <1>1, <1>2, <1>3, <1>4, <1>5, <1>6 DEF Next

(* The data invariant holds in every state.                                  *)
THEOREM SessionData == Spec => []DataInv
<1>. QED BY DataStarts, DataKept, PTL DEF Spec

(* Every variable keeps its type: no upload grows past the bound.            *)
THEOREM SessionTypeCorrect == Spec => []TypeOK
<1>1. DataInv => TypeOK
  BY DEF DataInv, TypeInv
<1>. QED BY <1>1, SessionData, PTL

(* ActiveMeansOpen: between commands, active and the open file agree.        *)
THEOREM ActiveHasFile == Spec => []ActiveMeansOpen
<1>1. DataInv => ActiveMeansOpen
  BY DEF DataInv, RestInv, Same, Whole, ActiveMeansOpen
<1>. QED BY <1>1, SessionData, PTL

-----------------------------------------------------------------------------
(* Sessions and uploads. *)

(* A handler goes on or answers.                                             *)
LEMMA GoesOnOrAnswers ==
  ASSUME DataInv, NEW t \in Sides, HandlerStep(t)
  PROVE  /\ Calm /\ Busy(t)
         /\ (\E q \in Steps \ {"idle"} : Goto(t, q)) \/ (\E k \in Kinds : Answer(t, k))
<1>1. Calm /\ Busy(t)
  BY DEF HandlerStep, PreuploadCheck, PreuploadOpen, PreuploadBegin, FrameCheck, FrameWrite,
         FrameUpdate, DoneClose, DoneVerify, DoneRename, CancelClose, Unlink, ResetState,
         At, Busy, Idle
<1>2. /\ {"open", "begin", "fwrite", "update", "verify", "rename", "unlink", "reset"} \subseteq
           Steps \ {"idle"}
      /\ {"busy", "badarg", "cannot create", "ready", "noupload", "crc", "write failed", "ok",
          "cancelled"} \subseteq Kinds
  BY DEF Steps, Kinds
<1>3. CASE PreuploadCheck(t) \/ PreuploadOpen(t) \/ PreuploadBegin(t)
  BY <1>1, <1>2, <1>3 DEF PreuploadCheck, PreuploadOpen, PreuploadBegin
<1>4. CASE FrameCheck(t) \/ FrameWrite(t) \/ FrameUpdate(t)
  BY <1>1, <1>2, <1>4 DEF FrameCheck, FrameWrite, FrameUpdate
<1>5. CASE DoneClose(t) \/ DoneVerify(t) \/ DoneRename(t) \/ CancelClose(t) \/ Unlink(t)
  BY <1>1, <1>2, <1>5 DEF DoneClose, DoneVerify, DoneRename, CancelClose, Unlink, Ending
<1>6. CASE ResetState(t)
  BY <1>1, <1>6 DEF ResetState, DataInv, TypeInv
<1>. QED BY <1>3, <1>4, <1>5, <1>6 DEF HandlerStep

(* Who began the upload, who sent frames and whether a session ended: few    *)
(* steps of a handler change that.                                           *)
LEMMA SameUpload ==
  ASSUME DataInv, NEW t \in Sides, HandlerStep(t),
         ~PreuploadBegin(t), ~FrameUpdate(t), ~ResetState(t)
  PROVE  /\ u'.active => u.active
         /\ upload'.begun = upload.begun /\ upload'.by = upload.by /\ upload'.ended = upload.ended
<1>0. upload \in Ghosts /\ u \in Uploads
  BY DEF DataInv, TypeInv, TypeOK, Uploads
<1>1. ASSUME UNCHANGED <<u, upload>> PROVE
        /\ u'.active => u.active
        /\ upload'.begun = upload.begun /\ upload'.by = upload.by /\ upload'.ended = upload.ended
  BY <1>1
<1>2. \A h : LET w == [upload EXCEPT !.hit = h]
             IN  w.begun = upload.begun /\ w.by = upload.by /\ w.ended = upload.ended
  BY <1>0 DEF Ghosts
<1>3. CASE FrameWrite(t)
  BY <1>1, <1>2, <1>3 DEF FrameWrite
<1>4. CASE DoneClose(t) \/ CancelClose(t)
  <2>1. ASSUME u.active, Close PROVE
          upload'.begun = upload.begun /\ upload'.by = upload.by /\ upload'.ended = upload.ended
    BY <1>2, <2>1 DEF Close
  <2>. QED BY <1>1, <1>4, <2>1 DEF DoneClose, CancelClose
<1>5. CASE Unlink(t)
  <2>1. LET w == [upload EXCEPT !.kept = TRUE]
        IN  w.begun = upload.begun /\ w.by = upload.by /\ w.ended = upload.ended
    BY <1>0 DEF Ghosts
  <2>. QED BY <1>1, <1>5, <2>1 DEF Unlink
<1>6. CASE PreuploadCheck(t) \/ PreuploadOpen(t) \/ FrameCheck(t)
  BY <1>1, <1>6 DEF PreuploadCheck, PreuploadOpen, FrameCheck
<1>7. CASE DoneVerify(t) \/ DoneRename(t)
  BY <1>1, <1>7 DEF DoneVerify, DoneRename
<1>. QED BY <1>3, <1>4, <1>5, <1>6, <1>7 DEF HandlerStep

(* An upload whose session lives belongs to the holder.                      *)
LEMMA HandlerSides ==
  ASSUME DataInv, SideInv, NEW t \in Sides, HandlerStep(t)
  PROVE  SideInv'
<1>1. Calm /\ Busy(t) /\ upload \in Ghosts
  BY GoesOnOrAnswers DEF DataInv, TypeInv
<1>2. u'.active /\ ~upload'.ended =>
        upload'.begun \in Sides /\ holder = upload'.begun /\ upload'.by \subseteq {upload'.begun}
  <2>1. CASE PreuploadBegin(t)
    <3>1. upload' = [begun |-> t, by |-> {}, ended |-> t \notin running, hit |-> FALSE,
                     kept |-> FALSE]
      BY <2>1 DEF PreuploadBegin, NoUpload
    <3>2. upload'.begun = t /\ upload'.by = {} /\ upload'.ended = (t \notin running)
      BY <3>1
    <3>. QED BY <3>2 DEF SideInv
  <2>2. CASE FrameUpdate(t)
    <3>1. upload' = [upload EXCEPT !.by = @ \union {t}]
      BY <2>2 DEF FrameUpdate
    <3>2. upload'.begun = upload.begun /\ upload'.by = upload.by \union {t}
          /\ upload'.ended = upload.ended
      BY <1>1, <3>1 DEF Ghosts
    <3>3. u.active
      <4>1. "update" \in Steps \ {"idle"} /\ At(t, "update")
        BY <2>2 DEF FrameUpdate, Steps
      <4>. QED BY <4>1, Handling DEF Mid
    <3>. QED BY <1>1, <3>2, <3>3 DEF SideInv
  <2>3. CASE ResetState(t)
    BY <2>3 DEF ResetState, Blank
  <2>. QED BY <2>1, <2>2, <2>3, SameUpload DEF SideInv
<1>3. ASSUME NEW q \in Steps \ {"idle"}, Goto(t, q) PROVE SideInv'
  <2>1. /\ holder' = holder /\ running' = running
        /\ \A s \in Sides : Busy(s)' = Busy(s)
    BY <1>1, <1>3 DEF Goto, session, Busy, Idle, DataInv, TypeInv
  <2>2. running \subseteq Sides
    BY DEF DataInv, TypeInv, TypeOK
  <2>3. ~upload'.ended => \A s \in Sides : Busy(s) => s \in running
    <3>1. CASE PreuploadBegin(t)
      <4>1. upload' = [begun |-> t, by |-> {}, ended |-> t \notin running, hit |-> FALSE,
                       kept |-> FALSE]
        BY <3>1 DEF PreuploadBegin, NoUpload
      <4>. QED BY <1>1, <4>1 DEF DataInv, MidInv, Calm
    <3>2. CASE FrameUpdate(t)
      BY <1>1, <3>2 DEF FrameUpdate, SideInv, Ghosts
    <3>3. CASE ResetState(t)
      <4>1. Answer(t, result[t]) /\ result[t] \in Kinds
        BY <3>3 DEF ResetState, DataInv, TypeInv
      <4>2. pc'[t] = "idle"
        BY <1>1, <4>1, AnswerEffect
      <4>. QED BY <1>3, <4>2 DEF Goto, DataInv, TypeInv
    <3>. QED BY <3>1, <3>2, <3>3, SameUpload DEF SideInv
  <2>. QED BY <1>2, <2>1, <2>2, <2>3 DEF SideInv
<1>4. ASSUME NEW k \in Kinds, Answer(t, k) PROVE SideInv'
  <2>1. /\ holder' = holder /\ running' = running \ {t}
        /\ \A s \in Sides : pc'[s] = "idle"
    BY <1>1, <1>4, AnswerEffect
  <2>2. running' = {}
    BY <1>1, <2>1 DEF SideInv, DataInv, TypeInv, TypeOK, MidInv, Calm
  <2>. QED BY <1>2, <2>1, <2>2 DEF SideInv, Busy, Idle
<1>. QED BY <1>3, <1>4, GoesOnOrAnswers

(* A daemon that starts has no upload, so no side has written anything.      *)
LEMMA SideStarts == Init => SideInv
BY DEF Init, Session!Init, SideInv, Blank, NoUpload, Busy, Idle

(* Every step keeps SideInv.                                                 *)
LEMMA SideKept == DataInv /\ SideInv /\ [Next]_vars => SideInv'
<1>. SUFFICES ASSUME DataInv, SideInv, [Next]_vars PROVE SideInv'
  OBVIOUS
<1>0. running \subseteq Sides /\ "NONE" \notin Sides
  BY SessionAssumption DEF DataInv, TypeInv, TypeOK
<1>1. ASSUME NEW t \in Sides, NEW c \in Commands, Start(t, c) PROVE SideInv'
  <2>1. /\ UNCHANGED <<u, upload>> /\ t \in running'
        /\ holder \in {"NONE", t} /\ holder' = t /\ running' \in {running, running \union {t}}
        /\ pc' = [pc EXCEPT ![t] = c.op]
    BY <1>1 DEF Start, Session!Grant
  <2>2. pc'[t] = c.op /\ c.op # "idle" /\ \A s \in Sides : s # t => pc'[s] = pc[s]
    BY <2>1, CommandFields DEF DataInv, TypeInv
  <2>3. /\ \A s \in running' : holder' = s /\ Busy(s)'
    BY <1>0, <2>1, <2>2 DEF SideInv, Busy, Idle
  <2>4. ~upload'.ended => \A s \in Sides : Busy(s)' => s \in running'
    BY <2>1, <2>2 DEF SideInv, Busy, Idle
  <2>. QED BY <1>0, <2>1, <2>3, <2>4 DEF SideInv
<1>2. ASSUME NEW t \in Sides, OtherCommand(t) PROVE SideInv'
  <2>1. /\ UNCHANGED <<u, upload, pc, running>> /\ holder = "NONE"
    BY <1>2 DEF OtherCommand, Session!Grant, unlocked
  <2>. QED BY <1>0, <2>1 DEF SideInv, Busy, Idle
<1>3. ASSUME running' = {}, UNCHANGED <<u, pc>>, Ended PROVE SideInv'
  <2>1. upload'.ended <=> u.active \/ ~AllIdle
    BY <1>3, EndedGhost
  <2>. QED BY <1>3, <2>1 DEF SideInv, AllIdle, Busy, Idle
<1>4. ASSUME NEW t \in Sides, Reset(t) PROVE SideInv'
  <2>1. running' = {}
    BY <1>0, <1>4 DEF Reset, Session!Release, SideInv
  <2>. QED BY <1>3, <1>4, <2>1 DEF Reset, unlocked
<1>5. CASE ForceRelease
  BY <1>3, <1>5 DEF ForceRelease, Session!Force, unlocked
<1>6. CASE UNCHANGED vars
  BY <1>6 DEF vars, session, SideInv, Busy, Idle
<1>7. ASSUME NEW t \in Sides, HandlerStep(t) PROVE SideInv'
  BY <1>7, HandlerSides
<1>. QED BY <1>1, <1>2, <1>4, <1>5, <1>6, <1>7 DEF Next

(* OneSidePerUpload: as long as no session ends, all frames of an upload     *)
(* come from the side that began it.                                         *)
THEOREM FramesOfOneSide == Spec => []OneSidePerUpload
<1>1. SideInv => OneSidePerUpload
  BY DEF SideInv, OneSidePerUpload
<1>2. Spec => []SideInv
  BY SideStarts, SideKept, SessionData, PTL DEF Spec
<1>. QED BY <1>1, <1>2, PTL

-----------------------------------------------------------------------------
(* The temporary files. *)

(* While no handler runs fopen() of a new upload, the temporary files that   *)
(* are there are that of the upload and those that were left behind.         *)
LEMMA TmpOfHandler ==
  ASSUME DataInv, TmpOnlyDuringUpload, NEW t \in Sides, Calm, Busy(t), HandlerStep(t),
         pc[t] \notin {"begin", "reset"},
         u'.active = u.active, u.active => u'.name = u.name,
         \A n \in Names : fs'[TmpOf[n]] # fs[TmpOf[n]] => u.active /\ u.name = n
  PROVE  TmpOnlyDuringUpload'
<1>1. \A s \in Sides : pc[s] # "begin"
  BY DEF DataInv, MidInv, Calm, Busy, Idle
<1>2. rest'.left = rest.left
  BY DEF HandlerStep
<1>3. ASSUME NEW n \in Names, fs'[TmpOf[n]] # NoFile
      PROVE  (u'.active /\ u'.name = n) \/ n \in rest'.left
  <2>1. CASE fs'[TmpOf[n]] = fs[TmpOf[n]]
    BY <1>1, <1>2, <1>3, <2>1 DEF TmpOnlyDuringUpload
  <2>2. CASE fs'[TmpOf[n]] # fs[TmpOf[n]]
    BY <2>2
  <2>. QED BY <2>1, <2>2
<1>. QED BY <1>3 DEF TmpOnlyDuringUpload

(* Only the temporary file of the active upload changes.                     *)
LEMMA OtherTmps ==
  ASSUME NEW c, NEW m \in Names, fs \in Files, fs' = [fs EXCEPT ![TmpOf[m]] = c],
         NEW n \in Names, n # m
  PROVE  fs'[TmpOf[n]] = fs[TmpOf[n]]
BY SessionAssumption, TmpIsPath DEF Files

(* The steps of AT+PREUPLOAD.                                                *)
LEMMA TmpOfPreupload ==
  ASSUME DataInv, TmpOnlyDuringUpload, NEW t \in Sides, Calm, Busy(t), HandlerStep(t),
         PreuploadCheck(t) \/ PreuploadOpen(t) \/ PreuploadBegin(t)
  PROVE  TmpOnlyDuringUpload'
<1>0. /\ {"preupload", "open", "begin"} \subseteq Steps \ {"idle"}
      /\ {"cannot create", "ready"} \subseteq Kinds
  BY DEF Steps, Kinds
<1>1. CASE PreuploadCheck(t)
  <2>1. At(t, "preupload") /\ UNCHANGED <<u, fs>>
    BY <1>1 DEF PreuploadCheck
  <2>. QED BY <2>1, TmpOfHandler DEF At
<1>2. CASE PreuploadOpen(t)
  <2>1. At(t, "open") /\ UNCHANGED u
    BY <1>2 DEF PreuploadOpen
  <2>2. CASE UNCHANGED fs
    BY <2>1, <2>2, TmpOfHandler DEF At
  <2>3. CASE fs' = [fs EXCEPT ![TmpOf[cmd[t].name]] = << >>] /\ Goto(t, "begin")
    <3>1. pc'[t] = "begin" /\ cmd' = cmd /\ rest' = rest
      BY <1>0, <2>3, GotoEffect
    <3>2. PICK m \in Names : m = cmd[t].name
      <4>1. cmd[t] \in Commands /\ cmd[t].op = "preupload"
        BY <1>0, <2>1, Handling DEF Mid
      <4>. QED BY <4>1, CommandFields
    <3>3. fs \in Files
      BY <1>0, <2>1, Handling
    <3>4. \A s \in Sides : pc[s] # "begin"
      BY <2>1 DEF DataInv, MidInv, Calm, Busy, Idle, At
    <3>5. ASSUME NEW n \in Names, n # m, fs'[TmpOf[n]] # NoFile
          PROVE  (u'.active /\ u'.name = n) \/ n \in rest'.left
      <4>1. fs'[TmpOf[n]] = fs[TmpOf[n]]
        BY <2>3, <3>2, <3>3, <3>5, OtherTmps
      <4>. QED BY <2>1, <3>1, <3>4, <3>5, <4>1 DEF TmpOnlyDuringUpload
    <3>6. pc'[t] = "begin" /\ cmd'[t].name = m
      BY <3>1, <3>2
    <3>. QED BY <3>5, <3>6 DEF TmpOnlyDuringUpload
  <2>. QED BY <1>2, <2>2, <2>3 DEF PreuploadOpen
<1>3. CASE PreuploadBegin(t)
  <2>1. At(t, "begin") /\ UNCHANGED fs /\ Answer(t, "ready")
    BY <1>3 DEF PreuploadBegin
  <2>2. ~u.active /\ pc[t] = "begin"
    BY <1>0, <2>1, Handling DEF Mid
  <2>3. u'.active /\ u'.name = cmd[t].name
    BY <1>3 DEF PreuploadBegin
  <2>4. pc'[t] = "idle"
    BY <1>0, <2>1, AnswerEffect
  <2>5. rest'.left = rest.left \ {cmd[t].name}
    BY <2>2, <2>4 DEF HandlerStep
  <2>6. \A s \in Sides : pc[s] = "begin" => s = t
    BY DEF DataInv, MidInv, Calm, Busy, Idle
  <2>7. ASSUME NEW n \in Names, fs'[TmpOf[n]] # NoFile
        PROVE  (u'.active /\ u'.name = n) \/ n \in rest'.left
    BY <2>1, <2>2, <2>3, <2>5, <2>6, <2>7 DEF TmpOnlyDuringUpload
  <2>. QED BY <2>7 DEF TmpOnlyDuringUpload
<1>. QED BY <1>1, <1>2, <1>3

(* The steps of AT+UPLOAD.                                                   *)
LEMMA TmpOfFrame ==
  ASSUME DataInv, TmpOnlyDuringUpload, NEW t \in Sides, Calm, Busy(t), HandlerStep(t),
         FrameCheck(t) \/ FrameWrite(t) \/ FrameUpdate(t)
  PROVE  TmpOnlyDuringUpload'
<1>0. {"frame", "fwrite", "update"} \subseteq Steps \ {"idle"}
  BY DEF Steps
<1>1. CASE FrameCheck(t)
  <2>1. At(t, "frame") /\ UNCHANGED <<u, fs>>
    BY <1>1 DEF FrameCheck
  <2>. QED BY <2>1, TmpOfHandler DEF At
<1>2. CASE FrameWrite(t)
  <2>1. At(t, "fwrite") /\ UNCHANGED u
    BY <1>2 DEF FrameWrite
  <2>2. u.active /\ u.name \in Names /\ fs \in Files
    BY <1>0, <2>1, Handling DEF Mid
  <2>3. PICK c : fs' = [fs EXCEPT ![TmpOf[u.name]] = c]
    BY <1>2 DEF FrameWrite
  <2>4. \A n \in Names : n # u.name => fs'[TmpOf[n]] = fs[TmpOf[n]]
    BY <2>2, <2>3, OtherTmps
  <2>. QED BY <2>1, <2>2, <2>4, TmpOfHandler DEF At
<1>3. CASE FrameUpdate(t)
  <2>1. At(t, "update") /\ UNCHANGED fs
        /\ u' = [u EXCEPT !.hashed = @ \o cmd[t].data, !.received = @ + Len(cmd[t].data)]
    BY <1>3 DEF FrameUpdate
  <2>2. u \in ActiveStates /\ u.active
    BY <1>0, <2>1, Handling DEF Mid
  <2>3. u'.active = u.active /\ u'.name = u.name
    BY <2>1, <2>2 DEF ActiveStates
  <2>. QED BY <2>1, <2>3, TmpOfHandler DEF At
<1>. QED BY <1>1, <1>2, <1>3

(* fclose() of an upload changes no other temporary file.                    *)
LEMMA TmpOfClose ==
  ASSUME DataInv, u.active, Close
  PROVE  /\ u'.active = u.active /\ u'.name = u.name
         /\ \A n \in Names : n # u.name => fs'[TmpOf[n]] = fs[TmpOf[n]]
<1>1. u \in Uploads /\ fs \in Files
  BY DEF DataInv, TypeInv, TypeOK, Uploads
<1>2. u \in ActiveStates /\ u.name \in Names
  BY <1>1, UploadFields
<1>3. u'.active = u.active /\ u'.name = u.name
  BY <1>2, CloseFile DEF Close
<1>4. PICK c : fs' = [fs EXCEPT ![TmpOf[u.name]] = c]
  BY DEF Close
<1>5. \A n \in Names : n # u.name => fs'[TmpOf[n]] = fs[TmpOf[n]]
  BY <1>1, <1>2, <1>4, OtherTmps
<1>. QED BY <1>3, <1>5

(* The steps of the two commands that end an upload.                         *)
LEMMA TmpOfEnd ==
  ASSUME DataInv, TmpOnlyDuringUpload, NEW t \in Sides, Calm, Busy(t), HandlerStep(t),
         \/ DoneClose(t) \/ DoneVerify(t) \/ DoneRename(t)
         \/ CancelClose(t) \/ Unlink(t)
  PROVE  TmpOnlyDuringUpload'
<1>0. {"done", "verify", "rename", "cancel", "unlink"} \subseteq Steps \ {"idle"}
  BY DEF Steps
<1>1. CASE DoneClose(t) \/ CancelClose(t)
  <2>1. At(t, "done") \/ At(t, "cancel")
    BY <1>1 DEF DoneClose, CancelClose
  <2>2. CASE UNCHANGED <<u, fs>>
    BY <2>1, <2>2, TmpOfHandler DEF At
  <2>3. CASE u.active /\ Close
    BY <2>1, <2>3, TmpOfClose, TmpOfHandler DEF At
  <2>. QED BY <1>1, <2>2, <2>3 DEF DoneClose, CancelClose
<1>2. CASE DoneVerify(t)
  <2>1. At(t, "verify") /\ UNCHANGED <<u, fs>>
    BY <1>2 DEF DoneVerify
  <2>. QED BY <2>1, TmpOfHandler DEF At
<1>3. CASE DoneRename(t)
  <2>1. At(t, "rename") /\ UNCHANGED u
    BY <1>3 DEF DoneRename
  <2>2. u.active /\ u.name \in Names /\ fs \in Files
    BY <1>0, <2>1, Handling DEF Mid, Closing
  <2>3. \A n \in Names : n # u.name => fs'[TmpOf[n]] = fs[TmpOf[n]]
    <3>1. CASE UNCHANGED fs
      BY <3>1
    <3>2. CASE fs' = [fs EXCEPT ![u.name] = fs[TmpOf[u.name]], ![TmpOf[u.name]] = NoFile]
      BY <2>2, <3>2, SessionAssumption, TmpIsPath DEF Files
    <3>. QED BY <1>3, <3>1, <3>2 DEF DoneRename
  <2>. QED BY <2>1, <2>2, <2>3, TmpOfHandler DEF At
<1>4. CASE Unlink(t)
  <2>1. At(t, "unlink") /\ UNCHANGED u
    BY <1>4 DEF Unlink
  <2>2. u.active /\ u.name \in Names /\ fs \in Files
    BY <1>0, <2>1, Handling DEF Mid, Closing
  <2>3. \A n \in Names : n # u.name => fs'[TmpOf[n]] = fs[TmpOf[n]]
    <3>1. CASE UNCHANGED fs
      BY <3>1
    <3>2. CASE fs' = [fs EXCEPT ![TmpOf[u.name]] = NoFile]
      BY <2>2, <3>2, OtherTmps
    <3>. QED BY <1>4, <3>1, <3>2 DEF Unlink
  <2>. QED BY <2>1, <2>2, <2>3, TmpOfHandler DEF At
<1>. QED BY <1>1, <1>2, <1>3, <1>4

(* reset() forgets the upload: its temporary file is gone, or it is one of   *)
(* those that were left behind.                                              *)
LEMMA TmpOfReset ==
  ASSUME DataInv, TmpOnlyDuringUpload, NEW t \in Sides, Calm, Busy(t), HandlerStep(t),
         ResetState(t)
  PROVE  TmpOnlyDuringUpload'
<1>0. "reset" \in Steps \ {"idle"}
  BY DEF Steps
<1>1. At(t, "reset") /\ UNCHANGED fs /\ Answer(t, result[t])
  BY DEF ResetState
<1>2. /\ pc[t] = "reset" /\ result[t] \in Kinds /\ rest.fs \in Files /\ u.active
      /\ Tmp \in Paths /\ Tmp # u.name
      /\ Removed(result[t]) \/ LeftOver(result[t]) \/ Saved(result[t])
  BY <1>0, <1>1, Handling DEF Mid, Closing
<1>3. pc'[t] = "idle"
  BY <1>1, <1>2, AnswerEffect
<1>4. rest'.left = IF upload.kept THEN rest.left \union {u.name} ELSE rest.left
  BY <1>2, <1>3 DEF HandlerStep
<1>5. ~upload.kept => fs[Tmp] = NoFile
  BY <1>2 DEF Removed, LeftOver, Saved, Files
<1>6. \A s \in Sides : pc[s] # "begin"
  BY <1>2 DEF DataInv, MidInv, Calm, Busy, Idle
<1>7. ASSUME NEW n \in Names, fs'[TmpOf[n]] # NoFile PROVE n \in rest'.left
  <2>1. (u.active /\ u.name = n) \/ n \in rest.left
    BY <1>1, <1>6, <1>7 DEF TmpOnlyDuringUpload
  <2>2. CASE u.name = n
    BY <1>1, <1>4, <1>5, <1>7, <2>2 DEF Tmp
  <2>3. CASE n \in rest.left
    BY <1>4, <2>3
  <2>. QED BY <2>1, <2>2, <2>3
<1>. QED BY <1>7 DEF TmpOnlyDuringUpload

(* Every step keeps TmpOnlyDuringUpload.                                     *)
LEMMA TmpKept == DataInv /\ TmpOnlyDuringUpload /\ [Next]_vars => TmpOnlyDuringUpload'
<1>. SUFFICES ASSUME DataInv, TmpOnlyDuringUpload, [Next]_vars PROVE TmpOnlyDuringUpload'
  OBVIOUS
<1>1. ASSUME NEW t \in Sides, NEW c \in Commands, Start(t, c) PROVE TmpOnlyDuringUpload'
  <2>1. /\ UNCHANGED <<u, fs, rest>> /\ pc[t] = "idle"
        /\ pc' = [pc EXCEPT ![t] = c.op] /\ cmd' = [cmd EXCEPT ![t] = c]
    BY <1>1 DEF Start, Idle, Next, HandlerStep
  <2>2. \A s \in Sides : pc[s] = "begin" => pc'[s] = "begin" /\ cmd'[s] = cmd[s]
    BY <2>1 DEF DataInv, TypeInv
  <2>. QED BY <2>1, <2>2 DEF TmpOnlyDuringUpload
<1>2. ASSUME UNCHANGED <<u, fs, rest, pc, cmd>> PROVE TmpOnlyDuringUpload'
  BY <1>2 DEF TmpOnlyDuringUpload
<1>3. ASSUME NEW t \in Sides, OtherCommand(t) \/ Reset(t) PROVE TmpOnlyDuringUpload'
  BY <1>2, <1>3 DEF OtherCommand, Reset, unlocked
<1>4. CASE ForceRelease
  BY <1>2, <1>4 DEF ForceRelease, unlocked
<1>5. CASE UNCHANGED vars
  BY <1>2, <1>5 DEF vars
<1>6. ASSUME NEW t \in Sides, HandlerStep(t) PROVE TmpOnlyDuringUpload'
  <2>1. Calm /\ Busy(t)
    BY <1>6, GoesOnOrAnswers
  <2>2. CASE PreuploadCheck(t) \/ PreuploadOpen(t) \/ PreuploadBegin(t)
    BY <1>6, <2>1, <2>2, TmpOfPreupload
  <2>3. CASE FrameCheck(t) \/ FrameWrite(t) \/ FrameUpdate(t)
    BY <1>6, <2>1, <2>3, TmpOfFrame
  <2>4. CASE \/ DoneClose(t) \/ DoneVerify(t) \/ DoneRename(t)
             \/ CancelClose(t) \/ Unlink(t)
    BY <1>6, <2>1, <2>4, TmpOfEnd
  <2>5. CASE ResetState(t)
    BY <1>6, <2>1, <2>5, TmpOfReset
  <2>. QED BY <1>6, <2>2, <2>3, <2>4, <2>5 DEF HandlerStep
<1>. QED BY <1>1, <1>3, <1>4, <1>5, <1>6 DEF Next

(* TmpOnlyDuringUpload, at every step of the handlers: the temporary file is *)
(* there only during its upload, whatever call of the disk fails; unlink()   *)
(* alone leaves it, and then the next upload of that name takes it over.     *)
THEOREM TmpOfActiveOnly == Spec => []TmpOnlyDuringUpload
<1>1. Init => TmpOnlyDuringUpload
  <2>1. Init => \A n \in Names : fs[TmpOf[n]] = NoFile
    BY TmpIsPath DEF Init, Paths
  <2>. QED BY <2>1 DEF TmpOnlyDuringUpload
<1>. QED BY <1>1, TmpKept, SessionData, PTL DEF Spec

-----------------------------------------------------------------------------
(* The refinement: every answer is a step of UploadProtocol. *)

\* A step that UploadProtocol does not see.
Unseen == UNCHANGED <<rest, reply>>

(* Such a step is a stutter of UploadProtocol.                               *)
LEMMA UnseenStutters == Unseen => UNCHANGED Protocol!vars
BY DEF Unseen, Protocol!vars, Protocol!flaws, AsProtocol

(* What UploadProtocol calls u, field by field.                              *)
LEMMA MappedUpload ==
  ASSUME NEW v, NEW w,
         w = IF v.active
             THEN [active |-> TRUE, name |-> v.name, size |-> v.size, received |-> v.received,
                   hashed |-> v.hashed, expected |-> v.expected, upper |-> FALSE]
             ELSE [active |-> FALSE]
  PROVE  /\ w.active <=> v.active
         /\ v.active => /\ w.name = v.name /\ w.size = v.size /\ w.received = v.received
                        /\ w.hashed = v.hashed /\ w.expected = v.expected /\ w.upper = FALSE
BY SMT

(* The upload that UploadProtocol sees is the one of the last quiet moment.  *)
LEMMA Mapped ==
  /\ AsProtocol.active <=> rest.u.active
  /\ rest.u.active =>
       /\ AsProtocol.name = rest.u.name /\ AsProtocol.size = rest.u.size
       /\ AsProtocol.received = rest.u.received /\ AsProtocol.hashed = rest.u.hashed
       /\ AsProtocol.expected = rest.u.expected /\ AsProtocol.upper = FALSE
BY MappedUpload DEF AsProtocol

(* The state that an answer leaves is the one UploadProtocol sees.           *)
LEMMA Seen ==
  ASSUME NEW t \in Sides, Settles(t)
  PROVE  /\ rest'.u = u' /\ rest'.fs = fs' /\ rest'.hit = upload'.hit
         /\ pc[t] # "reset" => rest'.flawed = rest.flawed
         /\ pc[t] = "reset" /\ result[t] # "done" => rest'.flawed = rest.flawed
         /\ pc[t] = "reset" /\ result[t] = "done" =>
              rest'.flawed = IF upload.hit THEN rest.flawed \union {u.name}
                             ELSE rest.flawed \ {u.name}
         /\ pc[t] = "begin" => rest'.left = rest.left \ {cmd[t].name}
         /\ pc[t] = "reset" =>
              rest'.left = IF upload.kept THEN rest.left \union {u.name} ELSE rest.left
         /\ pc[t] \notin {"begin", "reset"} => rest'.left = rest.left
BY DEF Settles

(* A frame within the bound has the length that it declares.                 *)
LEMMA SmallRemainder ==
  ASSUME NEW m \in Nat, NEW n \in 0..m
  PROVE  (n % (m + 1)) = n
OBVIOUS

(* An answer that leaves everything as it is.                                *)
LEMMA SameSeen ==
  ASSUME NEW t \in Sides, Settles(t), Same, UNCHANGED <<u, fs, upload>>,
         pc[t] \notin {"begin", "reset"}
  PROVE  UNCHANGED <<AsProtocol, rest.fs, rest.hit, rest.flawed, rest.left>>
<1>1. /\ rest'.u = rest.u /\ rest'.fs = rest.fs /\ rest'.hit = rest.hit
      /\ rest'.flawed = rest.flawed /\ rest'.left = rest.left
  BY Seen DEF Same
<1>. QED BY <1>1 DEF AsProtocol

(* A handler that answers settles; one that goes on is not seen.             *)
LEMMA AnswerSettles ==
  ASSUME DataInv, NEW t \in Sides, NEW k \in Kinds, Answer(t, k), HandlerStep(t)
  PROVE  Settles(t) /\ reply' = k
<1>1. Calm /\ Busy(t)
  BY GoesOnOrAnswers
<1>. QED BY <1>1, AnswerEffect DEF HandlerStep, Settles

(* A handler that goes on to its next step is not seen.                      *)
LEMMA GotoUnseen ==
  ASSUME DataInv, NEW t \in Sides, NEW q \in Steps \ {"idle"}, Goto(t, q), HandlerStep(t)
  PROVE  Unseen
BY GotoEffect DEF Unseen, Goto

(* What was seen last, when nothing has changed since.                       *)
LEMMA SameMapped ==
  ASSUME Same
  PROVE  /\ AsProtocol.active <=> u.active
         /\ u.active => /\ AsProtocol.name = u.name /\ AsProtocol.size = u.size
                        /\ AsProtocol.received = u.received /\ AsProtocol.hashed = u.hashed
                        /\ AsProtocol.expected = u.expected
BY Mapped DEF Same

(* AT+PREUPLOAD.                                                             *)
LEMMA PreuploadRefines ==
  ASSUME DataInv, NEW t \in Sides, HandlerStep(t),
         PreuploadCheck(t) \/ PreuploadOpen(t) \/ PreuploadBegin(t)
  PROVE  [Protocol!Next]_Protocol!vars
<1>0. /\ {"preupload", "open", "begin"} \subseteq Steps \ {"idle"}
      /\ {"badarg", "busy", "ready", "cannot create"} \subseteq Kinds
  BY DEF Steps, Kinds
<1>1. CASE PreuploadCheck(t)
  <2>1. At(t, "preupload") /\ UNCHANGED <<u, fs, upload>>
    BY <1>1 DEF PreuploadCheck
  <2>2. Same /\ pc[t] = "preupload"
    BY <1>0, <2>1, Handling DEF Mid
  <2>3. ASSUME NEW k \in {"badarg", "busy"}, Answer(t, k)
        PROVE  UNCHANGED <<AsProtocol, rest.fs, rest.hit, rest.flawed, rest.left>> /\ reply' = k
    <3>1. Settles(t) /\ reply' = k
      BY <1>0, <2>3, AnswerSettles
    <3>. QED BY <2>1, <2>2, <3>1, SameSeen
  <2>4. CASE u.active /\ Answer(t, "busy")
    <3>1. Protocol!PreuploadBusy
      BY <2>2, <2>3, <2>4, SameMapped DEF Protocol!PreuploadBusy, Protocol!Answer, Protocol!flaws
    <3>. QED BY <3>1 DEF Protocol!Next
  <2>5. CASE Answer(t, "badarg")
    <3>1. Protocol!BadArgument
      BY <2>3, <2>5 DEF Protocol!BadArgument, Protocol!Answer, Protocol!flaws
    <3>. QED BY <3>1 DEF Protocol!Next
  <2>6. CASE Goto(t, "open")
    BY <1>0, <2>6, GotoUnseen, UnseenStutters
  <2>. QED BY <1>1, <2>4, <2>5, <2>6 DEF PreuploadCheck
<1>2. CASE PreuploadOpen(t)
  <2>1. At(t, "open") /\ UNCHANGED <<u, upload>>
    BY <1>2 DEF PreuploadOpen
  <2>2. Same /\ pc[t] = "open" /\ ~u.active /\ cmd[t].op = "preupload" /\ cmd[t] \in Commands
    BY <1>0, <2>1, Handling DEF Mid
  <2>3. CASE "open" \in DiskFaults /\ Answer(t, "cannot create") /\ UNCHANGED fs
    <3>2. Settles(t) /\ reply' = "cannot create"
      BY <1>0, <2>3, AnswerSettles
    <3>3. UNCHANGED <<AsProtocol, rest.fs, rest.hit, rest.flawed, rest.left>>
      BY <2>1, <2>2, <2>3, <3>2, SameSeen
    <3>4. Protocol!PreuploadFails(cmd[t].name)
      BY <2>2, <2>3, <3>2, <3>3, SameMapped DEF Protocol!PreuploadFails, Protocol!Answer, Protocol!flaws
    <3>5. cmd[t].name \in Names
      BY <2>2, CommandFields
    <3>. QED BY <3>4, <3>5 DEF Protocol!Next
  <2>4. CASE Goto(t, "begin")
    BY <1>0, <2>4, GotoUnseen, UnseenStutters
  <2>. QED BY <1>2, <2>3, <2>4 DEF PreuploadOpen
<1>3. CASE PreuploadBegin(t)
  <2>1. At(t, "begin") /\ UNCHANGED fs /\ Answer(t, "ready")
    BY <1>3 DEF PreuploadBegin
  <2>2. /\ cmd[t].op = "preupload" /\ cmd[t] \in Commands /\ ~u.active /\ rest.u = u
        /\ fs = [rest.fs EXCEPT ![TmpOf[cmd[t].name]] = << >>] /\ pc[t] = "begin"
    BY <1>0, <2>1, Handling DEF Mid
  <2>3. PICK n \in Names, size \in 1..MaxBytes, d \in Announced :
          n = cmd[t].name /\ size = cmd[t].size /\ d = cmd[t].md5
    BY <2>2, CommandFields
  <2>4. /\ u' = [active |-> TRUE, open |-> TRUE, name |-> n, size |-> size,
                 received |-> 0, hashed |-> << >>, expected |-> d]
        /\ upload'.hit = FALSE
    BY <1>3, <2>3 DEF PreuploadBegin, NoUpload
  <2>5. Settles(t) /\ reply' = "ready"
    BY <1>0, <2>1, AnswerSettles
  <2>6. /\ rest'.u = u' /\ rest'.fs = [rest.fs EXCEPT ![TmpOf[n]] = << >>]
        /\ rest'.hit = FALSE /\ rest'.flawed = rest.flawed /\ rest'.left = rest.left \ {n}
    BY <2>1, <2>2, <2>3, <2>4, <2>5, Seen
  <2>7. AsProtocol' = [active |-> TRUE, name |-> n, size |-> size, received |-> 0,
                       hashed |-> << >>, expected |-> d, upper |-> FALSE]
    BY <2>4, <2>6 DEF AsProtocol
  <2>8. ~AsProtocol.active
    BY <2>2, Mapped
  <2>9. Protocol!Preupload(n, size, d, FALSE)
    BY <2>5, <2>6, <2>7, <2>8 DEF Protocol!Preupload, Protocol!Answer
  <2>. QED BY <2>9 DEF Protocol!Next
<1>. QED BY <1>1, <1>2, <1>3

(* The frame as UploadProtocol sees it.                                      *)
FrameOf(d) == [data |-> d, declared |-> Len(d)]

(* A frame of UPLOAD has the length that it declares.                        *)
LEMMA FrameFits ==
  ASSUME NEW d \in Contents, Len(d) <= MaxBytes
  PROVE  FrameOf(d).data = d /\ Protocol!LengthFits(FrameOf(d))
<1>1. PICK n \in Nat : n = Len(d)
  BY LenProperties DEF Contents
<1>2. n \in 0..MaxBytes
  BY <1>1, SessionAssumption
<1>3. (n % (MaxBytes + 1)) = n
  BY <1>2, SmallRemainder, SessionAssumption
<1>4. FrameOf(d).data = d /\ FrameOf(d).declared = n
  BY <1>1 DEF FrameOf
<1>. QED BY <1>1, <1>3, <1>4 DEF Protocol!LengthFits

(* What a handler of AT+UPLOAD knows of its frame.                           *)
LEMMA FrameFacts ==
  ASSUME DataInv, NEW t \in Sides, NEW p \in {"frame", "fwrite", "update"}, At(t, p), u.active,
         rest.u = u
  PROVE  /\ cmd[t].data \in FrameData /\ cmd[t].data \in Contents
         /\ Kept \in Contents /\ Len(Kept) \in Nat /\ Len(cmd[t].data) \in Nat
         /\ Len(Kept) + Len(cmd[t].data) <= MaxBytes /\ u.received <= Len(Kept)
         /\ Protocol!Tmp = Tmp
         /\ FrameOf(cmd[t].data).data = cmd[t].data
         /\ Protocol!LengthFits(FrameOf(cmd[t].data))
<1>0. p \in Steps \ {"idle"}
  BY DEF Steps
<1>1. /\ cmd[t].op = "frame" /\ cmd[t] \in Commands
      /\ rest.u.active => Len(rest.fs[TmpOf[rest.u.name]]) + Len(cmd[t].data) <= MaxBytes
  BY <1>0, Handling DEF Mid
<1>2. cmd[t].data \in FrameData /\ cmd[t].data \in Contents
  BY <1>1, CommandFields
<1>3. Kept \in Contents /\ u.received <= Len(Kept)
  BY <1>0, Handling DEF Whole, Kept, Tmp
<1>4. Len(Kept) \in Nat /\ Len(cmd[t].data) \in Nat
  BY <1>2, <1>3, Append2
<1>5. Len(Kept) + Len(cmd[t].data) <= MaxBytes
  BY <1>1 DEF Kept, Tmp
<1>6. Len(cmd[t].data) <= MaxBytes
  BY <1>4, <1>5, SessionAssumption
<1>7. Protocol!Tmp = Tmp
  BY Mapped DEF Protocol!Tmp, Tmp
<1>. QED BY <1>2, <1>3, <1>4, <1>5, <1>6, <1>7, FrameFits

(* AT+UPLOAD.                                                                *)
LEMMA FrameCheckRefines ==
  ASSUME DataInv, NEW t \in Sides, HandlerStep(t), FrameCheck(t)
  PROVE  [Protocol!Next]_Protocol!vars
<1>0. {"frame", "fwrite"} \subseteq Steps \ {"idle"} /\ {"badarg", "noupload", "crc"} \subseteq Kinds
  BY DEF Steps, Kinds
<1>1. At(t, "frame") /\ UNCHANGED <<u, fs, upload>>
  BY DEF FrameCheck
<1>2. Same /\ pc[t] = "frame" /\ (u.active <=> u.open)
  BY <1>0, <1>1, Handling DEF Mid, Whole
<1>3. ASSUME NEW k \in {"badarg", "noupload", "crc"}, Answer(t, k)
      PROVE  UNCHANGED <<AsProtocol, rest.fs, rest.hit, rest.flawed, rest.left>> /\ reply' = k
  <2>1. Settles(t) /\ reply' = k
    BY <1>0, <1>3, AnswerSettles
  <2>. QED BY <1>1, <1>2, <2>1, SameSeen
<1>4. CASE ~(u.active /\ u.open) /\ Answer(t, "noupload")
  <2>1. Protocol!FrameRefused
    BY <1>2, <1>3, <1>4, SameMapped DEF Protocol!FrameRefused, Protocol!Answer, Protocol!flaws
  <2>. QED BY <2>1 DEF Protocol!Next
<1>5. CASE u.active /\ Answer(t, "crc")
  <2>1. UNCHANGED <<AsProtocol, rest.fs, rest.hit, rest.flawed, rest.left>> /\ reply' = "crc"
    BY <1>3, <1>5
  <2>2. cmd[t].data \in FrameData /\ Protocol!LengthFits(FrameOf(cmd[t].data))
    BY <1>1, <1>2, <1>5, FrameFacts DEF Same
  <2>3. Protocol!FrameBadCrc(FrameOf(cmd[t].data))
    BY <1>2, <1>5, <2>1, <2>2, SameMapped DEF Protocol!FrameBadCrc, Protocol!Answer, Protocol!flaws
  <2>. QED BY <2>2, <2>3 DEF Protocol!Next, FrameOf
<1>6. CASE Goto(t, "fwrite")
  BY <1>0, <1>6, GotoUnseen, UnseenStutters
<1>7. CASE Answer(t, "badarg")
  <2>1. Protocol!BadArgument
    BY <1>3, <1>7 DEF Protocol!BadArgument, Protocol!Answer, Protocol!flaws
  <2>. QED BY <2>1 DEF Protocol!Next
<1>. QED BY <1>4, <1>5, <1>6, <1>7 DEF FrameCheck

(* fwrite(): a short one is already the answer, the others are not seen.     *)
LEMMA FrameWriteRefines ==
  ASSUME DataInv, NEW t \in Sides, HandlerStep(t), FrameWrite(t)
  PROVE  [Protocol!Next]_Protocol!vars
<1>0. {"fwrite", "update"} \subseteq Steps \ {"idle"} /\ "write failed" \in Kinds
  BY DEF Steps, Kinds
<1>1. At(t, "fwrite") /\ UNCHANGED u
  BY DEF FrameWrite
<1>2. Same /\ rest.u = u /\ pc[t] = "fwrite" /\ u.active
  BY <1>0, <1>1, Handling DEF Mid, Same
<1>3. PICK d \in FrameData : d = cmd[t].data
  BY <1>1, <1>2, FrameFacts
<1>4. /\ Len(Kept) \in Nat /\ Len(d) \in Nat /\ Len(Kept) + Len(d) <= MaxBytes
      /\ Protocol!Tmp = Tmp /\ FrameOf(d).data = d /\ Protocol!LengthFits(FrameOf(d))
  BY <1>1, <1>2, <1>3, FrameFacts
<1>5. CASE Goto(t, "update")
  BY <1>0, <1>5, GotoUnseen, UnseenStutters
<1>6. CASE /\ "write" \in DiskFaults
           /\ \E k \in 0..(Len(d) - 1) : fs' = [fs EXCEPT ![Tmp] = @ \o SubSeq(d, 1, k)]
           /\ upload' = [upload EXCEPT !.hit = TRUE]
           /\ Answer(t, "write failed")
  <2>1. PICK k \in 0..(Len(d) - 1) : fs' = [fs EXCEPT ![Tmp] = @ \o SubSeq(d, 1, k)]
    BY <1>6
  <2>2. Settles(t) /\ reply' = "write failed"
    BY <1>0, <1>6, AnswerSettles
  <2>3. upload'.hit = TRUE
    BY <1>6 DEF DataInv, TypeInv, Ghosts
  <2>4. /\ rest'.u = rest.u /\ rest'.hit = TRUE /\ rest'.flawed = rest.flawed
        /\ rest'.left = rest.left
        /\ rest'.fs = [rest.fs EXCEPT ![Tmp] = @ \o SubSeq(d, 1, k)]
    BY <1>1, <1>2, <2>1, <2>2, <2>3, Seen DEF Same
  <2>5. Len(rest.fs[Tmp]) + k <= MaxBytes
    <3>1. PICK m \in Nat, n \in Nat : m = Len(Kept) /\ n = Len(d)
      BY <1>4
    <3>2. k \in 0..(n - 1) /\ m + n <= MaxBytes
      BY <1>4, <3>1
    <3>3. m + k <= MaxBytes
      BY <3>1, <3>2, SessionAssumption
    <3>. QED BY <3>1, <3>3 DEF Kept
  <2>6. AsProtocol' = AsProtocol /\ AsProtocol.active
    BY <1>2, <2>4, Mapped DEF AsProtocol
  <2>7. \E j \in 0..(Len(FrameOf(d).data) - 1) :
          /\ Len(rest.fs[Protocol!Tmp]) + j <= MaxBytes
          /\ rest'.fs = [rest.fs EXCEPT ![Protocol!Tmp] = @ \o SubSeq(FrameOf(d).data, 1, j)]
    BY <1>4, <2>4, <2>5
  <2>8. Protocol!FrameShortWrite(FrameOf(d))
    BY <1>4, <1>6, <2>2, <2>4, <2>6, <2>7 DEF Protocol!FrameShortWrite, Protocol!Answer
  <2>. QED BY <2>8 DEF Protocol!Next, FrameOf
<1>. QED BY <1>3, <1>5, <1>6 DEF FrameWrite, Tmp

(* The update of digest and count is the whole UPLOAD of UploadProtocol.     *)
LEMMA FrameUpdateRefines ==
  ASSUME DataInv, NEW t \in Sides, HandlerStep(t), FrameUpdate(t)
  PROVE  [Protocol!Next]_Protocol!vars
<1>0. "update" \in Steps \ {"idle"} /\ "ok" \in Kinds
  BY DEF Steps, Kinds
<1>1. At(t, "update") /\ UNCHANGED fs /\ Answer(t, "ok")
  BY DEF FrameUpdate
<1>2. rest.u = u /\ rest.hit = upload.hit /\ pc[t] = "update" /\ u.active /\ u \in ActiveStates
      /\ fs = [rest.fs EXCEPT ![Tmp] = @ \o cmd[t].data]
  BY <1>0, <1>1, Handling DEF Mid
<1>3. PICK d \in FrameData : d = cmd[t].data
  BY <1>1, <1>2, FrameFacts
<1>4. /\ Len(Kept) \in Nat /\ Len(d) \in Nat /\ Len(Kept) + Len(d) <= MaxBytes
      /\ Protocol!Tmp = Tmp /\ FrameOf(d).data = d /\ Protocol!LengthFits(FrameOf(d))
      /\ d \in Contents /\ u.received <= Len(Kept)
  BY <1>1, <1>2, <1>3, FrameFacts
<1>5. u.received \in Nat
  <2>1. u.received \in 0..MaxBytes
    BY <1>2 DEF ActiveStates
  <2>. QED BY <2>1, SessionAssumption
<1>6. u.received + Len(d) <= MaxBytes
  BY <1>4, <1>5, SessionAssumption
<1>7. /\ u'.active = u.active /\ u'.name = u.name /\ u'.size = u.size /\ u'.expected = u.expected
      /\ u'.hashed = u.hashed \o d /\ u'.received = u.received + Len(d)
  <2>1. u' = [u EXCEPT !.hashed = @ \o d, !.received = @ + Len(d)]
    BY <1>3 DEF FrameUpdate
  <2>. QED BY <1>2, <1>4, <1>6, <2>1, ReceivedState
<1>8. upload'.hit = upload.hit
  BY DEF FrameUpdate, DataInv, TypeInv, Ghosts
<1>9. Settles(t) /\ reply' = "ok"
  BY <1>0, <1>1, AnswerSettles
<1>10. /\ rest'.u = u' /\ rest'.hit = rest.hit /\ rest'.flawed = rest.flawed
       /\ rest'.left = rest.left
       /\ rest'.fs = [rest.fs EXCEPT ![Tmp] = @ \o d]
  BY <1>1, <1>2, <1>3, <1>8, <1>9, Seen
<1>11. PICK h, r : h = u.hashed \o d /\ r = u.received + Len(d)
  OBVIOUS
<1>12. AsProtocol = [active |-> TRUE, name |-> u.name, size |-> u.size, received |-> u.received,
                     hashed |-> u.hashed, expected |-> u.expected, upper |-> FALSE]
  BY <1>2 DEF AsProtocol
<1>13. AsProtocol' = [active |-> TRUE, name |-> u.name, size |-> u.size, received |-> r,
                      hashed |-> h, expected |-> u.expected, upper |-> FALSE]
  BY <1>2, <1>7, <1>10, <1>11 DEF AsProtocol
<1>14. AsProtocol' = [AsProtocol EXCEPT !.hashed = h, !.received = r]
  <2>1. PICK a, c, n, s, r0, h0, e :
          /\ a = TRUE /\ c = FALSE /\ n = u.name /\ s = u.size /\ r0 = u.received
          /\ h0 = u.hashed /\ e = u.expected
    OBVIOUS
  <2>2. AsProtocol = [active |-> a, name |-> n, size |-> s, received |-> r0, hashed |-> h0,
                      expected |-> e, upper |-> c]
    BY <1>12, <2>1
  <2>3. AsProtocol' = [active |-> a, name |-> n, size |-> s, received |-> r, hashed |-> h,
                       expected |-> e, upper |-> c]
    BY <1>13, <2>1
  <2>. DEFINE S == [active : {a}, name : {n}, size : {s}, received : {r0, r}, hashed : {h0, h},
                    expected : {e}, upper : {c}]
  <2>4. PICK v \in S : v = AsProtocol
    BY <2>2
  <2>5. PICK w \in S : w = AsProtocol'
    BY <2>3
  <2>6. /\ w.active = v.active /\ w.name = v.name /\ w.size = v.size
        /\ w.expected = v.expected /\ w.upper = v.upper /\ w.received = r /\ w.hashed = h
    BY <2>2, <2>3, <2>4, <2>5
  <2>. DEFINE x == [v EXCEPT !.hashed = h]
  <2>7. /\ x \in S /\ x.active = v.active /\ x.name = v.name /\ x.size = v.size
        /\ x.received = v.received /\ x.hashed = h /\ x.expected = v.expected /\ x.upper = v.upper
    OBVIOUS
  <2>. DEFINE y == [x EXCEPT !.received = r]
  <2>8. y = [v EXCEPT !.hashed = h, !.received = r]
    OBVIOUS
  <2>. HIDE DEF x
  <2>9. /\ y \in S /\ y.active = x.active /\ y.name = x.name /\ y.size = x.size
        /\ y.received = r /\ y.hashed = x.hashed /\ y.expected = x.expected /\ y.upper = x.upper
    BY <2>7
  <2>. HIDE DEF y
  <2>10. y = w
    BY <2>6, <2>7, <2>9
  <2>. QED BY <2>4, <2>5, <2>8, <2>10
<1>15. AsProtocol.hashed = u.hashed /\ AsProtocol.received = u.received /\ AsProtocol.active
  BY <1>12
<1>16. AsProtocol' = [AsProtocol EXCEPT !.hashed = @ \o d, !.received = @ + Len(d)]
  BY <1>11, <1>14, <1>15
<1>17. Protocol!FrameAccepted(FrameOf(d))
  BY <1>4, <1>6, <1>9, <1>10, <1>15, <1>16
     DEF Protocol!FrameAccepted, Protocol!Answer, Protocol!flaws
<1>. QED BY <1>17 DEF Protocol!Next, FrameOf

(* AT+UPLOADDONE and AT+UPLOADCANCEL without an upload.                      *)
LEMMA NothingRefines ==
  ASSUME DataInv, NEW t \in Sides, HandlerStep(t), DoneClose(t) \/ CancelClose(t)
  PROVE  [Protocol!Next]_Protocol!vars
<1>0. /\ {"done", "verify", "cancel", "unlink"} \subseteq Steps \ {"idle"}
      /\ {"noupload", "cancelled"} \subseteq Kinds
  BY DEF Steps, Kinds
<1>1. ASSUME NEW p \in {"done", "cancel"}, At(t, p), NEW k \in {"noupload", "cancelled"},
             Answer(t, k), UNCHANGED <<u, fs, upload>>
      PROVE  /\ UNCHANGED <<AsProtocol, rest.fs, rest.hit, rest.flawed, rest.left>> /\ reply' = k
             /\ Same /\ (u.active <=> u.open)
  <2>1. Settles(t) /\ reply' = k
    BY <1>0, <1>1, AnswerSettles
  <2>2. Same /\ pc[t] = p /\ (u.active <=> u.open)
    <3>1. Mid(t) /\ pc[t] = p /\ (Same => Whole(u, fs))
      BY <1>0, <1>1, Handling
    <3>2. Same
      BY <3>1 DEF Mid
    <3>. QED BY <3>1, <3>2 DEF Whole
  <2>. QED BY <1>1, <2>1, <2>2, SameSeen
<1>2. CASE DoneClose(t)
  <2>1. CASE ~(u.active /\ u.open) /\ Answer(t, "noupload") /\ UNCHANGED <<u, fs, upload>>
    <3>1. At(t, "done")
      BY <1>2 DEF DoneClose
    <3>2. Protocol!DoneNoUpload
      BY <1>1, <2>1, <3>1, SameMapped DEF Protocol!DoneNoUpload, Protocol!Answer, Protocol!flaws
    <3>. QED BY <3>2 DEF Protocol!Next
  <2>2. CASE Goto(t, "verify")
    BY <1>0, <2>2, GotoUnseen, UnseenStutters
  <2>. QED BY <1>2, <2>1, <2>2 DEF DoneClose
<1>3. CASE CancelClose(t)
  <2>1. CASE ~u.active
    <3>1. At(t, "cancel") /\ Answer(t, "cancelled") /\ UNCHANGED <<u, fs, upload>>
      BY <1>3, <2>1 DEF CancelClose
    <3>2. Protocol!CancelNothing
      BY <1>1, <2>1, <3>1, SameMapped DEF Protocol!CancelNothing, Protocol!Answer, Protocol!flaws
    <3>. QED BY <3>2 DEF Protocol!Next
  <2>2. CASE u.active
    <3>1. Goto(t, "unlink")
      BY <1>3, <2>2 DEF CancelClose, Ending
    <3>. QED BY <1>0, <3>1, GotoUnseen, UnseenStutters
  <2>. QED BY <2>1, <2>2
<1>. QED BY <1>2, <1>3

(* A prefix that is as long as the content is the content.                   *)
LEMMA WholePrefix ==
  ASSUME NEW c \in Contents
  PROVE  SubSeq(c, 1, Len(c)) = c
<1>1. PICK n \in Nat : n = Len(c)
  BY LenProperties DEF Contents
<1>2. /\ SubSeq(c, 1, n) \in Contents /\ Len(SubSeq(c, 1, n)) = n
  <2>1. n \in 0..Len(c)
    BY <1>1
  <2>. QED BY <2>1, PrefixIsContent
<1>3. \A i \in 1..n : SubSeq(c, 1, n)[i] = c[i]
  <2>1. 1 \in Int /\ n \in Int /\ \A i \in 1..n : c[i] \in Symbols
    BY <1>1, LenProperties DEF Contents
  <2>2. \A i \in 1..(n - 1 + 1) : SubSeq(c, 1, n)[i] = c[1 + i - 1]
    BY <2>1, SubSeqProperties
  <2>3. \A i \in 1..n : i \in 1..(n - 1 + 1) /\ 1 + i - 1 = i
    OBVIOUS
  <2>. QED BY <2>2, <2>3
<1>. QED BY <1>1, <1>2, <1>3, SeqEqual DEF Contents

(* What fclose() may leave in the file, as UploadProtocol says it.           *)
LEMMA CutIsClosed ==
  ASSUME Kept \in Contents, Protocol!Tmp = Tmp, NEW k \in 0..Len(Kept), ClosedAt(k)
  PROVE  /\ SubSeq(Kept, 1, k) \in Protocol!Closed
         /\ upload.hit <=> rest.hit \/ SubSeq(Kept, 1, k) # Kept
<1>1. PICK c \in Contents : c = SubSeq(Kept, 1, k) /\ Len(c) = k
  BY PrefixIsContent
<1>2. PICK n \in Nat : n = Len(Kept) /\ k \in 0..n
  BY LenProperties DEF Contents
<1>3. c = Kept <=> ~(k < n)
  <2>1. k < n => c # Kept
    BY <1>1, <1>2
  <2>2. k = n => c = Kept
    BY <1>1, <1>2, WholePrefix
  <2>3. k < n \/ (k = n /\ ~(k < n))
    BY <1>2
  <2>. QED BY <2>1, <2>2, <2>3
<1>4. /\ k < n => "flush" \in DiskFaults
      /\ upload.hit <=> rest.hit \/ k < n
  BY <1>2 DEF ClosedAt
<1>5. c \in Protocol!Closed
  BY <1>1, <1>2, <1>3, <1>4 DEF Protocol!Closed, Kept
<1>. QED BY <1>1, <1>3, <1>4, <1>5

(* The end of an upload.                                                     *)
LEMMA ResetRefines ==
  ASSUME DataInv, NEW t \in Sides, HandlerStep(t), ResetState(t)
  PROVE  [Protocol!Next]_Protocol!vars
<1>0. "reset" \in Steps \ {"idle"}
  BY DEF Steps
<1>1. At(t, "reset") /\ u' = Blank /\ upload' = NoUpload /\ UNCHANGED fs /\ Answer(t, result[t])
  BY DEF ResetState
<1>2. Closing /\ pc[t] = "reset" /\ rest.fs \in Files /\ Tmp \in Paths /\ u.name \in Paths /\ Tmp # u.name
  BY <1>0, <1>1, Handling DEF Mid, Closing
<1>3. Settles(t) /\ reply' = result[t]
  <2>1. result[t] \in Kinds
    BY DEF DataInv, TypeInv
  <2>. QED BY <1>1, <2>1, AnswerSettles
<1>4. /\ rest'.fs = fs /\ rest'.hit = FALSE /\ AsProtocol' = Protocol!Idle
  <2>1. rest'.fs = fs /\ rest'.hit = upload'.hit /\ rest'.u = u'
    BY <1>1, <1>3, Seen
  <2>2. u'.active = FALSE /\ upload'.hit = FALSE
    BY <1>1 DEF Blank, NoUpload
  <2>. QED BY <2>1, <2>2 DEF AsProtocol, Protocol!Idle
<1>5. /\ AsProtocol.active /\ AsProtocol.name = u.name /\ AsProtocol.size = u.size
      /\ AsProtocol.received = u.received /\ AsProtocol.hashed = u.hashed
      /\ AsProtocol.expected = u.expected /\ AsProtocol.upper = FALSE
  BY <1>2, Mapped DEF Closing
<1>6. Protocol!Tmp = Tmp
  BY <1>5 DEF Protocol!Tmp, Tmp
<1>7. Kept \in Contents
  BY <1>0, <1>1, <1>2, Handling DEF Closing, Whole, Kept, Tmp
<1>8. rest'.left = IF upload.kept THEN rest.left \union {u.name} ELSE rest.left
  BY <1>2, <1>3, Seen
<1>9. CASE Removed(result[t]) \/ LeftOver(result[t])
  <2>1. result[t] # "done" /\ Failed(result[t])
    BY <1>9 DEF Removed, LeftOver, Failed
  <2>2. rest'.flawed = rest.flawed
    BY <1>2, <1>3, <2>1, Seen
  <2>3. \/ rest'.fs = [rest.fs EXCEPT ![Tmp] = NoFile] /\ rest'.left = rest.left
        \/ /\ "unlink" \in DiskFaults
           /\ \E c \in Protocol!Closed : rest'.fs = [rest.fs EXCEPT ![Tmp] = c]
           /\ rest'.left = rest.left \union {u.name}
    <3>1. CASE Removed(result[t])
      BY <1>4, <1>8, <3>1 DEF Removed
    <3>2. CASE LeftOver(result[t])
      <4>1. PICK k \in 0..Len(Kept) :
              ClosedAt(k) /\ fs = [rest.fs EXCEPT ![Tmp] = SubSeq(Kept, 1, k)]
        BY <3>2 DEF LeftOver, Cut
      <4>2. SubSeq(Kept, 1, k) \in Protocol!Closed
        BY <1>6, <1>7, <4>1, CutIsClosed
      <4>. QED BY <1>4, <1>8, <3>2, <4>1, <4>2 DEF LeftOver
    <3>. QED BY <1>9, <3>1, <3>2
  <2>4. Protocol!Discard(result[t])
    BY <1>3, <1>4, <1>5, <1>6, <2>2, <2>3 DEF Protocol!Discard, Protocol!Answer
  <2>5. \/ Protocol!Cancel \/ Protocol!DoneSizeMismatch \/ Protocol!DoneDigestMismatch
        \/ Protocol!DoneRenameFails
    BY <1>5, <2>1, <2>4
       DEF Failed, Verified, Protocol!Cancel, Protocol!DoneSizeMismatch,
           Protocol!DoneDigestMismatch, Protocol!DoneRenameFails, Protocol!DigestFits
  <2>. QED BY <2>5 DEF Protocol!Next
<1>10. CASE Saved(result[t])
  <2>1. PICK k \in 0..Len(Kept) :
          /\ ClosedAt(k)
          /\ fs = [rest.fs EXCEPT ![u.name] = SubSeq(Kept, 1, k), ![Tmp] = NoFile]
    BY <1>10 DEF Saved
  <2>2. result[t] = "done" /\ Verified /\ ~upload.kept
    BY <1>10 DEF Saved
  <2>3. PICK c : c = SubSeq(Kept, 1, k)
    OBVIOUS
  <2>4. c \in Protocol!Closed /\ (upload.hit <=> rest.hit \/ c # Kept)
    BY <1>6, <1>7, <2>1, <2>3, CutIsClosed
  <2>5. rest'.fs = [rest.fs EXCEPT ![Tmp] = NoFile, ![u.name] = c]
    <3>1. rest'.fs = [rest.fs EXCEPT ![u.name] = c, ![Tmp] = NoFile]
      BY <1>4, <2>1, <2>3
    <3>. QED BY <1>2, <3>1 DEF Files
  <2>6. rest'.flawed = IF rest.hit \/ c # Kept THEN rest.flawed \union {u.name}
                       ELSE rest.flawed \ {u.name}
    <3>1. rest'.flawed = IF upload.hit THEN rest.flawed \union {u.name}
                         ELSE rest.flawed \ {u.name}
      BY <1>2, <1>3, <2>2, Seen
    <3>. QED BY <2>4, <3>1
  <2>7. Protocol!Save
    BY <1>3, <1>4, <1>5, <1>6, <1>8, <2>2, <2>4, <2>5, <2>6
       DEF Protocol!Save, Protocol!Answer, Kept
  <2>8. Protocol!Done
    BY <1>5, <2>2, <2>7 DEF Protocol!Done, Protocol!DigestFits, Verified
  <2>. QED BY <2>8 DEF Protocol!Next
<1>. QED BY <1>0, <1>1, <1>9, <1>10, Handling DEF Mid

(* Initial states map to initial states.                                     *)
LEMMA StartRefines == Init => Protocol!Init
<1>. SUFFICES ASSUME Init PROVE Protocol!Init
  OBVIOUS
<1>1. /\ u = Blank /\ fs = [p \in Protocol!Paths |-> NoFile] /\ reply = "none"
      /\ rest = [u |-> u, fs |-> fs, hit |-> FALSE, flawed |-> {}, left |-> {}]
  BY DEF Init, Protocol!Paths
<1>2. /\ rest.u = u /\ rest.fs = fs /\ rest.hit = FALSE /\ rest.flawed = {} /\ rest.left = {}
      /\ u.active = FALSE
  BY <1>1 DEF Blank
<1>3. AsProtocol = Protocol!Idle
  BY <1>2 DEF AsProtocol, Protocol!Idle
<1>. QED BY <1>1, <1>2, <1>3 DEF Protocol!Init

(* Every step is a step of UploadProtocol or a stutter.                      *)
LEMMA StepRefines == DataInv /\ [Next]_vars => [Protocol!Next]_Protocol!vars
<1>. SUFFICES ASSUME DataInv, [Next]_vars PROVE [Protocol!Next]_Protocol!vars
  OBVIOUS
<1>1. ASSUME NEW t \in Sides, HandlerStep(t) PROVE [Protocol!Next]_Protocol!vars
  <2>0. {"unlink", "rename", "reset"} \subseteq Steps \ {"idle"}
    BY DEF Steps
  <2>1. CASE PreuploadCheck(t) \/ PreuploadOpen(t) \/ PreuploadBegin(t)
    BY <1>1, <2>1, PreuploadRefines
  <2>2. CASE FrameCheck(t)
    BY <1>1, <2>2, FrameCheckRefines
  <2>3. CASE FrameWrite(t)
    BY <1>1, <2>3, FrameWriteRefines
  <2>4. CASE FrameUpdate(t)
    BY <1>1, <2>4, FrameUpdateRefines
  <2>5. CASE DoneClose(t) \/ CancelClose(t)
    BY <1>1, <2>5, NothingRefines
  <2>6. CASE DoneVerify(t) \/ DoneRename(t) \/ Unlink(t)
    <3>1. \E q \in {"unlink", "rename", "reset"} : Goto(t, q)
      BY <2>6 DEF DoneVerify, DoneRename, Unlink, Ending
    <3>. QED BY <1>1, <2>0, <3>1, GotoUnseen, UnseenStutters
  <2>7. CASE ResetState(t)
    BY <1>1, <2>7, ResetRefines
  <2>. QED BY <1>1, <2>1, <2>2, <2>3, <2>4, <2>5, <2>6, <2>7 DEF HandlerStep
<1>2. ASSUME NEW t \in Sides, NEW c \in Commands, Start(t, c) PROVE Unseen
  BY <1>2 DEF Start, Unseen
<1>3. ASSUME NEW t \in Sides, OtherCommand(t) \/ Reset(t) PROVE Unseen
  BY <1>3 DEF OtherCommand, Reset, unlocked, Unseen
<1>4. CASE ForceRelease
  BY <1>4, UnseenStutters DEF ForceRelease, unlocked, Unseen
<1>5. CASE UNCHANGED vars
  BY <1>5, UnseenStutters DEF vars, Unseen
<1>. QED BY <1>1, <1>2, <1>3, <1>4, <1>5, UnseenStutters DEF Next

(* ImplementsProtocol: until two handlers meet, the interleaved handlers     *)
(* are, seen between commands, the atomic handlers of UploadProtocol.        *)
THEOREM HandlersAreAtomic == Spec => ImplementsProtocol
BY StartRefines, StepRefines, SessionData, PTL DEF Spec, ImplementsProtocol, Protocol!Spec

-----------------------------------------------------------------------------
(* What is proved of UploadProtocol, for the interleaved handlers: the       *)
(* theorems of UploadProtocolProofs under the mapping of UploadSession.      *)

Proved == INSTANCE UploadProtocolProofs
  WITH u <- AsProtocol, fs <- rest.fs, hit <- rest.hit, flawed <- rest.flawed,
       left <- rest.left,
       LongNames <- {}, Digests <- Announced, UpperCase <- {FALSE},
       Frames <- {[data |-> d, declared |-> Len(d)] : d \in FrameData},
       LenModulus <- MaxBytes + 1, Crashes <- FALSE

(* The constants of the mapping are such as UploadProtocol expects.          *)
LEMMA ProtocolAssumed == Proved!UploadAssumption
<1>1. {[data |-> d, declared |-> Len(d)] : d \in FrameData}
        \subseteq [data : Seq(Symbols), declared : Nat]
  BY SessionAssumption
<1>2. MaxBytes + 1 \in Nat \ {0}
  BY SessionAssumption
<1>. QED BY <1>1, <1>2, SessionAssumption DEF Proved!UploadAssumption, Proved!Contents

(* Both instances of UploadProtocol are the same specification.              *)
LEMMA SameProtocol == Protocol!Spec => Proved!Spec
<1>1. Protocol!Init => Proved!Init
  BY DEF Protocol!Init, Proved!Init, Protocol!Idle, Proved!Idle, Protocol!Paths, Proved!Paths
<1>2. Protocol!Next => Proved!Next
  BY DEF Protocol!Answer, Proved!Answer, Protocol!flaws, Proved!flaws, Protocol!Tmp,
         Proved!Tmp, Protocol!Idle, Proved!Idle, Protocol!Closed, Proved!Closed,
         Protocol!Discard, Proved!Discard, Protocol!DigestFits, Proved!DigestFits,
         Protocol!Save, Proved!Save, Protocol!LengthFits, Proved!LengthFits,
         Protocol!BadArgument, Proved!BadArgument, Protocol!PreuploadBusy,
         Proved!PreuploadBusy, Protocol!PreuploadFails, Proved!PreuploadFails,
         Protocol!Preupload, Proved!Preupload, Protocol!FrameRefused, Proved!FrameRefused,
         Protocol!FrameBadLength, Proved!FrameBadLength, Protocol!FrameBadCrc,
         Proved!FrameBadCrc, Protocol!FrameShortWrite, Proved!FrameShortWrite,
         Protocol!FrameAccepted, Proved!FrameAccepted, Protocol!DoneNoUpload,
         Proved!DoneNoUpload, Protocol!DoneSizeMismatch, Proved!DoneSizeMismatch,
         Protocol!DoneDigestMismatch, Proved!DoneDigestMismatch, Protocol!DoneRenameFails,
         Proved!DoneRenameFails, Protocol!Done, Proved!Done, Protocol!Cancel,
         Proved!Cancel, Protocol!CancelNothing, Proved!CancelNothing, Protocol!Crash,
         Proved!Crash, Protocol!Next, Proved!Next
<1>3. UNCHANGED Protocol!vars => UNCHANGED Proved!vars
  BY DEF Protocol!vars, Proved!vars, Protocol!flaws, Proved!flaws
<1>. QED BY <1>1, <1>2, <1>3, PTL DEF Protocol!Spec, Proved!Spec

(* HashMatchesFile of UploadProtocol, between commands: the digest that      *)
(* UPLOADDONE verifies is that of the file it publishes, whichever sides and *)
(* sessions the frames came from.                                            *)
THEOREM SessionHash == Spec => []Protocol!HashMatchesFile
<1>1. Proved!Spec => []Proved!HashMatchesFile
  BY ProtocolAssumed, Proved!HashCorrect
<1>2. Proved!HashMatchesFile => Protocol!HashMatchesFile
  BY DEF Proved!HashMatchesFile, Protocol!HashMatchesFile, Proved!Tmp, Protocol!Tmp
<1>. QED BY <1>1, <1>2, SameProtocol, HandlersAreAtomic, PTL DEF ImplementsProtocol

(* The handlers that change no firmware file: all but that of UPLOADDONE,    *)
(* and of that one all steps but rename().                                   *)
LEMMA OtherStepsTouchNone ==
  ASSUME DataInv, NEW t \in Sides, HandlerStep(t), ~DoneRename(t), NEW n \in Names
  PROVE  fs'[n] = fs[n]
<1>0. {"open", "fwrite", "done", "cancel", "unlink"} \subseteq Steps \ {"idle"}
  BY DEF Steps
<1>1. ASSUME NEW m \in Names, NEW c, fs \in Files, fs' = [fs EXCEPT ![TmpOf[m]] = c]
      PROVE  fs'[n] = fs[n]
  BY <1>1, TmpIsPath DEF Files
<1>2. CASE UNCHANGED fs
  BY <1>2
<1>3. CASE PreuploadOpen(t)
  <2>1. At(t, "open")
    BY <1>3 DEF PreuploadOpen
  <2>2. cmd[t] \in Commands /\ cmd[t].op = "preupload" /\ fs \in Files
    BY <1>0, <2>1, Handling DEF Mid
  <2>3. PICK m \in Names : m = cmd[t].name
    BY <2>2, CommandFields
  <2>. QED BY <1>1, <1>2, <1>3, <2>2, <2>3 DEF PreuploadOpen
<1>4. ASSUME u.active, u.name \in Names, fs \in Files, NEW c, fs' = [fs EXCEPT ![TmpOf[u.name]] = c]
      PROVE  fs'[n] = fs[n]
  BY <1>1, <1>4
<1>5. CASE FrameWrite(t)
  <2>1. At(t, "fwrite")
    BY <1>5 DEF FrameWrite
  <2>2. u.active /\ u.name \in Names /\ fs \in Files
    BY <1>0, <2>1, Handling DEF Mid
  <2>3. PICK c : fs' = [fs EXCEPT ![TmpOf[u.name]] = c]
    BY <1>5 DEF FrameWrite
  <2>. QED BY <1>4, <2>2, <2>3
<1>6. CASE DoneClose(t) \/ CancelClose(t)
  <2>1. At(t, "done") \/ At(t, "cancel")
    BY <1>6 DEF DoneClose, CancelClose
  <2>2. (u.active => u.name \in Names) /\ fs \in Files
    BY <1>0, <2>1, Handling
  <2>3. UNCHANGED fs \/ (u.active /\ \E c : fs' = [fs EXCEPT ![TmpOf[u.name]] = c])
    BY <1>6 DEF DoneClose, CancelClose, Close
  <2>. QED BY <1>4, <2>2, <2>3
<1>7. CASE Unlink(t)
  <2>1. At(t, "unlink")
    BY <1>7 DEF Unlink
  <2>2. u.active /\ u.name \in Names /\ fs \in Files
    BY <1>0, <2>1, Handling DEF Mid, Closing
  <2>. QED BY <1>2, <1>4, <1>7, <2>2 DEF Unlink
<1>8. CASE \/ PreuploadCheck(t) \/ PreuploadBegin(t) \/ FrameCheck(t) \/ FrameUpdate(t)
           \/ DoneVerify(t) \/ ResetState(t)
  BY <1>2, <1>8 DEF PreuploadCheck, PreuploadBegin, FrameCheck, FrameUpdate, DoneVerify, ResetState
<1>. QED BY <1>3, <1>5, <1>6, <1>7, <1>8 DEF HandlerStep

(* The change that FilesChangeOnlyByDone allows.                             *)
Publishes(n) ==
  /\ u.active /\ u.name = n
  /\ u.received = u.size /\ u.hashed = u.expected
  /\ fs'[n] = fs[TmpOf[n]] /\ (upload.hit \/ fs'[n] = u.expected)
  /\ \E t \in Sides : pc[t] = "rename" /\ result'[t] = "done"

(* rename() publishes what was announced, unless the disk lost bytes of it.  *)
LEMMA RenamePublishes ==
  ASSUME DataInv, Protocol!HashMatchesFile, NEW t \in Sides, HandlerStep(t), DoneRename(t),
         NEW n \in Names, fs'[n] # fs[n]
  PROVE  Publishes(n)
<1>0. {"rename", "unlink", "reset"} \subseteq Steps \ {"idle"} /\ "done" \in Kinds
  BY DEF Steps, Kinds
<1>1. At(t, "rename") /\ UNCHANGED <<u, upload>>
  BY DEF DoneRename
<1>2. /\ Closing /\ Cut /\ Verified /\ pc[t] = "rename" /\ fs \in Files /\ rest.fs \in Files
      /\ u.name \in Names /\ Tmp \in Paths /\ u.name \in Paths /\ Tmp # u.name
  BY <1>0, <1>1, Handling DEF Mid, Closing
<1>3. /\ fs' = [fs EXCEPT ![u.name] = fs[Tmp], ![Tmp] = NoFile]
      /\ Ending(t, "done", "reset")
  BY DEF DoneRename, Tmp
<1>4. u.name = n /\ fs'[n] = fs[Tmp]
  <2>1. n \in Paths /\ Tmp # n
    BY <1>2, TmpIsPath DEF Tmp
  <2>2. DOMAIN fs = Paths
    BY <1>2 DEF Files
  <2>3. u.name = n
    BY <1>2, <1>3, <2>1, <2>2
  <2>. QED BY <1>2, <1>3, <2>1, <2>2, <2>3
<1>5. result'[t] = "done"
  BY <1>0, <1>3, EndingEffect
<1>6. PICK k \in 0..Len(Kept) :
        ClosedAt(k) /\ fs = [rest.fs EXCEPT ![Tmp] = SubSeq(Kept, 1, k)]
  BY <1>2 DEF Cut
<1>7. ~upload.hit => fs[Tmp] = u.expected
  <2>1. SUFFICES ASSUME ~upload.hit PROVE fs[Tmp] = u.expected
    OBVIOUS
  <2>2. Kept \in Contents
    BY <1>0, <1>1, <1>2, Handling DEF Closing, Whole, Kept, Tmp
  <2>3. PICK m \in Nat : m = Len(Kept) /\ k \in 0..m
    BY <2>2, LenProperties DEF Contents
  <2>4. ~rest.hit /\ ~(k < m)
    BY <1>6, <2>1, <2>3 DEF ClosedAt
  <2>5. k = m
    BY <2>3, <2>4
  <2>6. SubSeq(Kept, 1, k) = Kept
    BY <2>2, <2>3, <2>5, WholePrefix
  <2>7. AsProtocol.active /\ Protocol!Tmp = Tmp /\ AsProtocol.hashed = u.hashed
    BY <1>2, Mapped DEF Closing, Protocol!Tmp, Tmp
  <2>8. Kept = u.hashed
    BY <2>4, <2>7 DEF Protocol!HashMatchesFile, Kept
  <2>. QED BY <1>2, <1>6, <2>6, <2>8 DEF Verified, Files
<1>. QED BY <1>1, <1>2, <1>4, <1>5, <1>7 DEF Publishes, Closing, Verified, Tmp

(* FilesChangeOnlyByDone, at every step of the handlers until two of them    *)
(* meet: a firmware file changes in one step, rename(), to the content that  *)
(* was announced.  Where the disk lost bytes of the upload it may be less.   *)
THEOREM OnlyDoneChangesFiles == Spec => FilesChangeOnlyByDone
<1>1. DataInv /\ Protocol!HashMatchesFile /\ [Next]_vars =>
        [\A n \in Names : fs'[n] # fs[n] => Publishes(n)]_vars
  <2>. SUFFICES ASSUME DataInv, Protocol!HashMatchesFile, [Next]_vars,
                       NEW n \in Names, fs'[n] # fs[n]
                PROVE  Publishes(n)
    OBVIOUS
  <2>1. ASSUME NEW t \in Sides, HandlerStep(t) PROVE Publishes(n)
    BY <2>1, OtherStepsTouchNone, RenamePublishes
  <2>2. ASSUME NEW t \in Sides, NEW c \in Commands, Start(t, c) PROVE FALSE
    BY <2>2 DEF Start
  <2>3. ASSUME NEW t \in Sides, OtherCommand(t) \/ Reset(t) PROVE FALSE
    BY <2>3 DEF OtherCommand, Reset, unlocked
  <2>4. CASE ForceRelease
    BY <2>4 DEF ForceRelease, unlocked
  <2>5. CASE UNCHANGED vars
    BY <2>5 DEF vars
  <2>. QED BY <2>1, <2>2, <2>3, <2>4, <2>5 DEF Next
<1>. QED BY <1>1, SessionHash, SessionData, PTL
         DEF Spec, FilesChangeOnlyByDone, Publishes

(* ImplementsStore of UploadProtocol: to the flash scripts, the interleaved  *)
(* handlers behind the session lock are the FirmwareStore, in which a file   *)
(* changes as a whole and only to what was announced.                        *)
THEOREM SessionStore == Spec => Protocol!ImplementsStore
<1>1. Proved!Spec => Proved!ImplementsStore
  BY ProtocolAssumed, Proved!Implementation
<1>2. Proved!Store!Init => Protocol!Store!Init
  BY DEF Proved!Store!Init, Protocol!Store!Init, Proved!Store!None, Protocol!Store!None
<1>3. Proved!Store!Next => Protocol!Store!Next
  BY DEF Protocol!Store!Next, Proved!Store!Next, Protocol!Store!None, Proved!Store!None,
         Protocol!Store!Announce, Proved!Store!Announce, Protocol!Store!Abandon,
         Proved!Store!Abandon, Protocol!Store!Commit, Proved!Store!Commit,
         Protocol!Store!Spoil, Proved!Store!Spoil
<1>4. UNCHANGED Proved!Store!vars => UNCHANGED Protocol!Store!vars
  BY DEF Proved!Store!vars, Protocol!Store!vars
<1>5. Proved!ImplementsStore => Protocol!ImplementsStore
  BY <1>2, <1>3, <1>4, PTL
  DEF Proved!ImplementsStore, Protocol!ImplementsStore, Proved!Store!Spec, Protocol!Store!Spec
<1>. QED BY <1>1, <1>5, SameProtocol, HandlersAreAtomic, PTL DEF ImplementsProtocol
=============================================================================
