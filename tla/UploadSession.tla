--------------------------- MODULE UploadSession ---------------------------
(***************************************************************************)
(* The upload handlers behind the session lock.  The HTTP thread and the   *)
(* serial reader run the handlers of at_handler/handler_upload.cpp on one  *)
(* static UploadState that has no lock of its own.  Here a handler is a    *)
(* sequence of steps, one per call of the C library and per group of       *)
(* accesses to the state between them, and the session lock is the one     *)
(* that SessionLock implements, SessionAbs.  The upload is not part of the *)
(* session: AT+RESET and a force release leave it as it is, and a force    *)
(* release also lets the other side in while a handler is running.         *)
(* Two handlers at once are undefined behaviour (unsynchronised strings    *)
(* and a FILE that may be closed): a behaviour ends where they meet.       *)
(***************************************************************************)
EXTENDS Naturals, Sequences

CONSTANTS Sides,        \* HTTP, SERIAL
          Symbols, Names, TmpOf,   \* as in UploadProtocol
          Announced,    \* contents that clients announce
          FrameData,    \* the data of the frames that clients send
          MaxBytes,     \* bound on the bytes of an upload
          DiskFaults,   \* calls that may fail: "open", "write", "flush", "rename",
                        \* "unlink"
          NoFile

ASSUME SessionAssumption ==
  /\ "NONE" \notin Sides
  /\ \A n \in Names : TmpOf[n] \notin Names
  /\ \A m, n \in Names : TmpOf[m] = TmpOf[n] => m = n
  /\ Announced \subseteq Seq(Symbols) /\ FrameData \subseteq Seq(Symbols)
  /\ MaxBytes \in Nat
  /\ DiskFaults \subseteq {"open", "write", "flush", "rename", "unlink"}
  /\ NoFile \notin Seq(Symbols)

VARIABLES holder, running,   \* the session lock
          pc,       \* pc[t]: the next step of the handler that t runs, or "idle"
          cmd,      \* cmd[t]: its command
          result,   \* result[t]: what it will answer, once that is decided
          u,        \* the UploadState
          fs,       \* fs[p]: the content of file p, or NoFile
          reply,    \* the answer to the last command
          rest,     \* history: when no handler was running, u, fs, the files saved
                    \* although the disk had lost bytes, and the names whose
                    \* temporary file a failed unlink() had left
          upload,   \* history: who began the upload, who sent frames of it, whether
                    \* a session ended since, whether the disk lost bytes, whether
                    \* unlink() failed
          overlap   \* two handlers have met

session == <<holder, running>>
vars == <<session, pc, cmd, result, u, fs, reply, rest, upload, overlap>>

Session == INSTANCE SessionAbs

Commands ==
  [op : {"preupload"}, name : Names, size : 1..MaxBytes, md5 : Announced]
    \union [op : {"frame"}, data : FrameData, fits : BOOLEAN]      \* fits: its CRC
    \union [op : {"done", "cancel"}]

(* reset() does not touch file; the other fields mean nothing until active. *)
Blank == [active |-> FALSE, open |-> FALSE]
ActiveStates ==
  [active : {TRUE}, open : BOOLEAN, name : Names, size : 1..MaxBytes,
   received : 0..MaxBytes, hashed : Seq(Symbols), expected : Announced]

Steps == {"idle", "preupload", "open", "begin", "frame", "fwrite", "update", "done",
          "verify", "rename", "cancel", "cancelclose", "unlink", "reset"}
Kinds == {"none", "ready", "ok", "done", "cancelled", "noupload", "busy",
          "badarg", "cannot create", "crc", "write failed", "size", "md5", "save"}

TypeOK ==
  /\ holder \in Sides \union {"NONE"} /\ running \subseteq Sides
  /\ pc \in [Sides -> Steps]
  /\ \A t \in Sides : pc[t] # "idle" => cmd[t] \in Commands
  /\ result \in [Sides -> Kinds]
  /\ u \in ActiveStates \union {Blank}
  /\ \A p \in DOMAIN fs : fs[p] # NoFile => Len(fs[p]) <= MaxBytes
  /\ reply \in Kinds
  /\ overlap \in BOOLEAN

NoUpload == [begun |-> "NONE", by |-> {}, ended |-> FALSE, hit |-> FALSE, kept |-> FALSE]

Init ==
  /\ Session!Init
  /\ pc = [t \in Sides |-> "idle"]
  /\ cmd = [t \in Sides |-> "none"]
  /\ result = [t \in Sides |-> "none"]
  /\ u = Blank
  /\ fs = [p \in Names \union {TmpOf[n] : n \in Names} |-> NoFile]
  /\ reply = "none"
  /\ rest = [u |-> u, fs |-> fs, hit |-> FALSE, flawed |-> {}, left |-> {}]
  /\ upload = NoUpload
  /\ overlap = FALSE

-----------------------------------------------------------------------------
(* Sessions: the side of a thread takes or continues its session with every *)
(* command, and keeps it after the command.                                 *)

Idle(t) == pc[t] = "idle"
AllIdle == \A t \in Sides : Idle(t)
Calm    == ~overlap

unlocked == <<pc, cmd, result, u, fs, reply, rest, overlap>>

(* The bound on the bytes: only frames that still fit are sent.             *)
Fits(c) ==
  c.op = "frame" /\ u.active /\ u.open => Len(fs[TmpOf[u.name]]) + Len(c.data) <= MaxBytes

Start(t, c) ==
  /\ Calm /\ Idle(t) /\ Fits(c)
  /\ Session!Grant(t) /\ t \in running'
  /\ pc' = [pc EXCEPT ![t] = c.op]
  /\ cmd' = [cmd EXCEPT ![t] = c]
  /\ overlap' = ~AllIdle
  /\ UNCHANGED <<result, u, fs, reply, rest, upload>>

\* A command that has nothing to do with uploads.
OtherCommand(t) ==
  /\ Calm /\ Idle(t) /\ holder # t
  /\ UNCHANGED running /\ Session!Grant(t)
  /\ UNCHANGED <<unlocked, upload>>

Ended == upload' = [upload EXCEPT !.ended = u.active \/ ~AllIdle]

\* AT+RESET
Reset(t) ==
  /\ Calm /\ Idle(t)
  /\ Session!Release(t) /\ Ended
  /\ UNCHANGED unlocked

\* AT+FORCERESET and /api/reset
ForceRelease ==
  /\ Calm /\ holder # "NONE"
  /\ Session!Force /\ Ended
  /\ UNCHANGED unlocked

-----------------------------------------------------------------------------
(* Steps of a handler. *)

At(t, p) == Calm /\ pc[t] = p

Goto(t, p) ==
  /\ pc' = [pc EXCEPT ![t] = p]
  /\ UNCHANGED <<session, cmd, reply, overlap>>

\* The answer is decided, but there is still work to do.
Ending(t, k, p) == Goto(t, p) /\ result' = [result EXCEPT ![t] = k]

\* Mutant: the session ends with each command.
Answer_Releases(t, k) ==
  /\ pc' = [pc EXCEPT ![t] = "idle"] /\ cmd' = [cmd EXCEPT ![t] = "none"]
  /\ result' = [result EXCEPT ![t] = "none"]
  /\ reply' = k
  /\ running' = running \ {t}
  /\ holder' = "NONE"
  /\ UNCHANGED overlap

\* The handler returns.  Its session may have been forced away.
Answer(t, k) ==
  /\ pc' = [pc EXCEPT ![t] = "idle"] /\ cmd' = [cmd EXCEPT ![t] = "none"]
  /\ result' = [result EXCEPT ![t] = "none"]
  /\ reply' = k
  /\ IF t \in running THEN Session!Finish(t) ELSE UNCHANGED session
  /\ UNCHANGED overlap

\* AT+PREUPLOAD.  An argument may be missing or malformed.
PreuploadCheck(t) ==
  /\ At(t, "preupload")
  /\ \/ Answer(t, "badarg")
     \/ u.active /\ Answer(t, "busy")
     \/ ~u.active /\ Goto(t, "open") /\ UNCHANGED result
  /\ UNCHANGED <<u, fs, upload>>

PreuploadOpen(t) ==
  /\ At(t, "open")
  /\ \/ fs' = [fs EXCEPT ![TmpOf[cmd[t].name]] = << >>] /\ Goto(t, "begin") /\ UNCHANGED result
     \/ "open" \in DiskFaults /\ Answer(t, "cannot create") /\ UNCHANGED fs
  /\ UNCHANGED <<u, upload>>

PreuploadBegin(t) ==
  /\ At(t, "begin")
  /\ u' = [active |-> TRUE, open |-> TRUE, name |-> cmd[t].name, size |-> cmd[t].size,
           received |-> 0, hashed |-> << >>, expected |-> cmd[t].md5]
  /\ upload' = [NoUpload EXCEPT !.begun = t, !.ended = t \notin running]
  /\ Answer(t, "ready")
  /\ UNCHANGED fs

\* AT+UPLOAD.  "badarg" is any error in the argument, its length included.
FrameCheck(t) ==
  /\ At(t, "frame")
  /\ \/ Answer(t, "badarg")
     \/ ~(u.active /\ u.open) /\ Answer(t, "noupload")
     \/ u.active /\ u.open /\ ~cmd[t].fits /\ Answer(t, "crc")
     \/ u.active /\ u.open /\ cmd[t].fits /\ Goto(t, "fwrite") /\ UNCHANGED result
  /\ UNCHANGED <<u, fs, upload>>

FrameWrite(t) ==
  /\ At(t, "fwrite")
  /\ LET tmp == TmpOf[u.name]
     IN  \/ /\ fs' = [fs EXCEPT ![tmp] = @ \o cmd[t].data]
            /\ Goto(t, "update")
            /\ UNCHANGED <<result, upload>>
         \/ /\ "write" \in DiskFaults
            /\ \E k \in 0..(Len(cmd[t].data) - 1) :
                 fs' = [fs EXCEPT ![tmp] = @ \o SubSeq(cmd[t].data, 1, k)]
            /\ upload' = [upload EXCEPT !.hit = TRUE]
            /\ Answer(t, "write failed")
  /\ UNCHANGED u

\* Mutant: only the bytes are counted, md5_ctx is forgotten.
FrameUpdate_CountOnly(t) ==
  /\ At(t, "update")
  /\ u' = [u EXCEPT !.received = @ + Len(cmd[t].data)]
  /\ upload' = [upload EXCEPT !.by = @ \union {t}]
  /\ Answer(t, "ok")
  /\ UNCHANGED fs

\* Mutant: the bytes are counted when they are hashed and once more.
FrameUpdate_Twice(t) ==
  /\ At(t, "update")
  /\ u' = [u EXCEPT !.hashed = @ \o cmd[t].data, !.received = @ + 2 * Len(cmd[t].data)]
  /\ upload' = [upload EXCEPT !.by = @ \union {t}]
  /\ Answer(t, "ok")
  /\ UNCHANGED fs

FrameUpdate(t) ==
  /\ At(t, "update")
  /\ u' = [u EXCEPT !.hashed = @ \o cmd[t].data, !.received = @ + Len(cmd[t].data)]
  /\ upload' = [upload EXCEPT !.by = @ \union {t}]
  /\ Answer(t, "ok")
  /\ UNCHANGED fs

\* fclose(): what it could not write is lost; nobody looks.
Close ==
  /\ u' = [u EXCEPT !.open = FALSE]
  /\ LET tmp == TmpOf[u.name]
     IN  \E k \in IF "flush" \in DiskFaults THEN 0..Len(fs[tmp]) ELSE {Len(fs[tmp])} :
           /\ fs' = [fs EXCEPT ![tmp] = SubSeq(@, 1, k)]
           /\ upload' = [upload EXCEPT !.hit = @ \/ k < Len(fs[tmp])]

\* AT+UPLOADDONE
DoneClose(t) ==
  /\ At(t, "done")
  /\ \/ ~(u.active /\ u.open) /\ Answer(t, "noupload") /\ UNCHANGED <<u, fs, upload>>
     \/ u.active /\ u.open /\ Close /\ Goto(t, "verify") /\ UNCHANGED result

\* Mutant: a digest that differs is answered at once.
DoneVerify_NoReset(t) ==
  /\ At(t, "verify")
  /\ IF u.received # u.size THEN Ending(t, "size", "unlink")
     ELSE IF u.hashed # u.expected THEN Answer(t, "md5")
     ELSE Goto(t, "rename") /\ UNCHANGED result
  /\ UNCHANGED <<u, fs, upload>>

DoneVerify(t) ==
  /\ At(t, "verify")
  /\ IF u.received # u.size THEN Ending(t, "size", "unlink")
     ELSE IF u.hashed # u.expected THEN Ending(t, "md5", "unlink")
     ELSE Goto(t, "rename") /\ UNCHANGED result
  /\ UNCHANGED <<u, fs, upload>>

\* Mutant: the answer to a failed rename() leaves out unlink().
DoneRename_NoUnlink(t) ==
  /\ At(t, "rename")
  /\ Ending(t, "save", "reset")
  /\ UNCHANGED <<fs, u, upload>>

\* Mutant: the file is copied, and then it is removed.
DoneRename_Copy(t) ==
  /\ At(t, "rename")
  /\ LET tmp == fs[TmpOf[u.name]]
         old == IF fs[u.name] = NoFile THEN << >> ELSE fs[u.name]
     IN  IF Len(old) < Len(tmp)
         THEN /\ fs' = [fs EXCEPT ![u.name] = SubSeq(tmp, 1, Len(old) + 1)]
              /\ Goto(t, "rename") /\ UNCHANGED result
         ELSE Ending(t, "done", "unlink") /\ fs' = [fs EXCEPT ![u.name] = tmp]
  /\ UNCHANGED <<u, upload>>

DoneRename(t) ==
  /\ At(t, "rename")
  /\ \/ /\ fs' = [fs EXCEPT ![u.name] = fs[TmpOf[u.name]], ![TmpOf[u.name]] = NoFile]
        /\ Ending(t, "done", "reset")
     \/ "rename" \in DiskFaults /\ Ending(t, "save", "unlink") /\ UNCHANGED fs
  /\ UNCHANGED <<u, upload>>

\* AT+UPLOADCANCEL
CancelClose(t) ==
  /\ At(t, "cancel")
  /\ \/ ~u.active /\ Answer(t, "cancelled") /\ UNCHANGED <<u, fs, upload>>
     \/ u.active /\ (IF u.open THEN Close ELSE UNCHANGED <<u, fs, upload>>)
                 /\ Ending(t, "cancelled", "unlink")

\* The result of unlink() is ignored everywhere.
Unlink(t) ==
  /\ At(t, "unlink")
  /\ \/ fs' = [fs EXCEPT ![TmpOf[u.name]] = NoFile] /\ UNCHANGED upload
     \/ "unlink" \in DiskFaults /\ upload' = [upload EXCEPT !.kept = TRUE] /\ UNCHANGED fs
  /\ Goto(t, "reset")
  /\ UNCHANGED <<u, result>>

ResetState(t) ==
  /\ At(t, "reset")
  /\ u' = Blank
  /\ upload' = NoUpload
  /\ Answer(t, result[t])
  /\ UNCHANGED fs

HandlerStep(t) ==
  /\ \/ PreuploadCheck(t) \/ PreuploadOpen(t) \/ PreuploadBegin(t)
     \/ FrameCheck(t) \/ FrameWrite(t) \/ FrameUpdate(t)
     \/ DoneClose(t) \/ DoneVerify(t) \/ DoneRename(t) \/ CancelClose(t)
     \/ Unlink(t) \/ ResetState(t)
  /\ rest' = IF pc'[t] # "idle" THEN rest
             ELSE [u |-> u', fs |-> fs', hit |-> upload'.hit,
                   flawed |-> IF pc[t] # "reset" \/ result[t] # "done" THEN rest.flawed
                              ELSE IF upload.hit THEN rest.flawed \union {u.name}
                              ELSE rest.flawed \ {u.name},
                   left |-> IF pc[t] = "begin" THEN rest.left \ {cmd[t].name}
                            ELSE IF pc[t] = "reset" /\ upload.kept THEN rest.left \union {u.name}
                            ELSE rest.left]

Next ==
  \/ \E t \in Sides :
       \/ \E c \in Commands : Start(t, c)
       \/ OtherCommand(t) \/ Reset(t) \/ HandlerStep(t)
  \/ ForceRelease

Spec == Init /\ [][Next]_vars

-----------------------------------------------------------------------------
(* Properties *)

\* What UploadProtocol calls u, as it was when no handler was running.
AsProtocol ==
  IF rest.u.active
  THEN [active |-> TRUE, name |-> rest.u.name, size |-> rest.u.size,
        received |-> rest.u.received, hashed |-> rest.u.hashed,
        expected |-> rest.u.expected, upper |-> FALSE]
  ELSE [active |-> FALSE]

(* Until two handlers meet, everything is as if each handler were one step:  *)
(* seen at the moments when none is running, the state and the files behave  *)
(* as UploadProtocol says, whatever sessions come and go in between, also    *)
(* when a session is forced away from a running handler.                     *)
Protocol == INSTANCE UploadProtocol
  WITH u <- AsProtocol, fs <- rest.fs, hit <- rest.hit, flawed <- rest.flawed,
       left <- rest.left,
       LongNames <- {}, Digests <- Announced, UpperCase <- {FALSE},
       Frames <- {[data |-> d, declared |-> Len(d)] : d \in FrameData},
       LenModulus <- MaxBytes + 1, Crashes <- FALSE
ImplementsProtocol == Protocol!Spec

(* The temporary file exists only during its upload (at_commands.md:320), at *)
(* every step of the handlers and in every session that follows.  A failed   *)
(* open, write, close or rename leaves none; a failed unlink(), which the    *)
(* code does not notice, does, until the next upload of that name opens it.  *)
TmpOnlyDuringUpload ==
  \A n \in Names : fs[TmpOf[n]] # NoFile =>
    \/ u.active /\ u.name = n
    \/ \E t \in Sides : pc[t] = "begin" /\ cmd[t].name = n
    \/ n \in rest.left

(* Nobody sees a partial firmware file (at_commands.md:321), not even between *)
(* two steps of a handler: a file goes from its old content to the one that  *)
(* was announced in one step, that of an UPLOADDONE which answers OK.  When  *)
(* the disk lost bytes of this upload unnoticed, what comes may be less.     *)
FilesChangeOnlyByDone ==
  [][\A n \in Names : fs'[n] # fs[n] =>
       /\ u.active /\ u.name = n
       /\ u.received = u.size /\ u.hashed = u.expected
       /\ fs'[n] = fs[TmpOf[n]] /\ (upload.hit \/ fs'[n] = u.expected)
       /\ \E t \in Sides : pc[t] = "rename" /\ result'[t] = "done"]_vars

(* architecture.md:62: the session keeps the commands of the other side out  *)
(* of the sequence PREUPLOAD, UPLOAD, ..., UPLOADDONE.  All frames of an     *)
(* upload come from the side that began it, unless a session ended since: an *)
(* upload outlives AT+RESET, and the next session finds it active.           *)
OneSidePerUpload == u.active /\ ~upload.ended => upload.by \subseteq {upload.begun}

(* Between commands an upload is active exactly if its file is open.  An     *)
(* active upload without a file could be neither continued nor finished, and *)
(* a file without an upload would never be closed.                           *)
ActiveMeansOpen == AllIdle => u.active = u.open
=============================================================================
