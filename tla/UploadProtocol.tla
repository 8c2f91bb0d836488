--------------------------- MODULE UploadProtocol ---------------------------
(***************************************************************************)
(* The chunked firmware upload of at_handler/handler_upload.cpp on the     *)
(* static UploadState: AT+PREUPLOAD, AT+UPLOAD, AT+UPLOADDONE and          *)
(* AT+UPLOADCANCEL, the files they write and the restarts of the daemon.   *)
(* A handler is one step: the session lock lets one in at a time.          *)
(*                                                                         *)
(* Contents are sequences of symbols, each standing for one byte.  A MD5   *)
(* digest is the content it was computed from (no collisions) together     *)
(* with the case of its hexadecimal digits; a CRC16 either fits the data   *)
(* of its frame or does not.  Any frame may come at any time: a repeated,  *)
(* lost, misordered or garbled one is just another frame.  Clients are     *)
(* taken not to call a file upload_<other>.tmp: the code lets them, and    *)
(* the upload of <other> would overwrite that file.                        *)
(***************************************************************************)
EXTENDS Naturals, Sequences

CONSTANTS Symbols,      \* the bytes a file is made of
          Names,        \* file names that clients use
          LongNames,    \* those of 245 to 255 characters
          TmpOf,        \* TmpOf[n]: upload_<n>.tmp
          Frames,       \* frames that clients send: [data, declared]
          Digests,      \* contents whose MD5 clients announce
          UpperCase,    \* the cases in which they write it: TRUE for upper
          MaxBytes,     \* bound on the bytes of an upload
          LenModulus,   \* 2^32: frame_len is a uint32_t
          DiskFaults,   \* calls that may fail: "open", "write", "flush", "rename",
                        \* "unlink"
          Crashes,      \* TRUE: the daemon may crash and restart
          NoFile        \* an absent file

Contents == Seq(Symbols)
Paths    == Names \union {TmpOf[n] : n \in Names}

ASSUME UploadAssumption ==
  /\ LongNames \subseteq Names
  /\ \A n \in Names : TmpOf[n] \notin Names
  /\ \A m, n \in Names : TmpOf[m] = TmpOf[n] => m = n
  /\ Frames \subseteq [data : Contents, declared : Nat]
  /\ Digests \subseteq Contents
  /\ UpperCase \subseteq BOOLEAN /\ Crashes \in BOOLEAN
  /\ MaxBytes \in Nat
  /\ LenModulus \in Nat \ {0}
  /\ DiskFaults \subseteq {"open", "write", "flush", "rename", "unlink"}
  /\ NoFile \notin Contents

VARIABLES u,      \* the UploadState; file is non-null exactly while active
          fs,     \* fs[p]: the content of file p of upload_dir, or NoFile
          reply,  \* the answer to the last command
          hit,    \* history: fwrite() failed during the active upload
          flawed, \* history: the files saved although fwrite() or fclose() failed
          left    \* history: the names whose temporary file was left behind, by a
                  \* failed unlink() or by a crash

flaws == <<hit, flawed, left>>
vars  == <<u, fs, reply, flaws>>

(* reset(): name, size and digests keep no meaning without active.          *)
Idle == [active |-> FALSE]

(* hashed: what md5_ctx has been updated with.                              *)
ActiveStates ==
  [active : {TRUE}, name : Names, size : 1..MaxBytes, received : 0..MaxBytes,
   hashed : Contents, expected : Digests, upper : UpperCase]

Kinds == {"none", "ready", "ok", "done", "cancelled", "noupload", "busy",
          "badarg", "cannot create", "length", "crc", "write failed", "size", "md5", "save"}

TypeOK ==
  /\ u \in ActiveStates \union {Idle}
  /\ fs \in [Paths -> Contents \union {NoFile}]
  /\ reply \in Kinds
  /\ hit \in BOOLEAN /\ flawed \subseteq Names /\ left \subseteq Names

Answer(k) == reply' = k

Init ==
  /\ u = Idle
  /\ fs = [p \in Paths |-> NoFile]
  /\ reply = "none"
  /\ hit = FALSE /\ flawed = {} /\ left = {}

Tmp == TmpOf[u.name]

(* An argument of any of the commands that is missing or malformed.         *)
BadArgument ==
  /\ Answer("badarg")
  /\ UNCHANGED <<u, fs, flaws>>

-----------------------------------------------------------------------------
(* AT+PREUPLOAD                                                            *)

PreuploadBusy ==
  /\ u.active
  /\ Answer("busy")
  /\ UNCHANGED <<u, fs, flaws>>

(* fopen() fails; a file name has at most 255 characters, upload_ and .tmp  *)
(* included.                                                                *)
PreuploadFails(n) ==
  /\ ~u.active
  /\ n \in LongNames \/ "open" \in DiskFaults
  /\ Answer("cannot create")
  /\ UNCHANGED <<u, fs, flaws>>

(* fopen() truncates what an earlier upload of the name left behind.        *)
Preupload(n, size, d, up) ==
  /\ ~u.active
  /\ n \notin LongNames
  /\ u' = [active |-> TRUE, name |-> n, size |-> size, received |-> 0,
           hashed |-> << >>, expected |-> d, upper |-> up]
  /\ fs' = [fs EXCEPT ![TmpOf[n]] = << >>]
  /\ hit' = FALSE /\ left' = left \ {n}
  /\ Answer("ready")
  /\ UNCHANGED flawed

-----------------------------------------------------------------------------
(* AT+UPLOAD                                                               *)

FrameRefused ==
  /\ ~u.active
  /\ Answer("noupload")
  /\ UNCHANGED <<u, fs, flaws>>

LengthFits(f) == f.declared % LenModulus = Len(f.data)

FrameBadLength(f) ==
  /\ u.active
  /\ ~LengthFits(f)
  /\ Answer("length")
  /\ UNCHANGED <<u, fs, flaws>>

(* Mutant: the digest is updated before the CRC is known to fit.            *)
FrameBadCrc_Hashed(f) ==
  /\ u.active
  /\ LengthFits(f)
  /\ u.received + Len(f.data) <= MaxBytes
  /\ u' = [u EXCEPT !.hashed = @ \o f.data]
  /\ Answer("crc")
  /\ UNCHANGED <<fs, flaws>>

FrameBadCrc(f) ==
  /\ u.active
  /\ LengthFits(f)
  /\ Answer("crc")
  /\ UNCHANGED <<u, fs, flaws>>

(* A short fwrite(): part of the frame is in the file, md5_ctx and received *)
(* do not know of it, and the upload goes on.                               *)
FrameShortWrite(f) ==
  /\ "write" \in DiskFaults
  /\ u.active
  /\ LengthFits(f)
  /\ \E k \in 0..(Len(f.data) - 1) :
       /\ Len(fs[Tmp]) + k <= MaxBytes
       /\ fs' = [fs EXCEPT ![Tmp] = @ \o SubSeq(f.data, 1, k)]
  /\ Answer("write failed")
  /\ hit' = TRUE
  /\ UNCHANGED <<u, flawed, left>>

(* Mutant: the bytes of a frame are counted twice.                          *)
FrameAccepted_Twice(f) ==
  /\ u.active
  /\ LengthFits(f)
  /\ u.received + Len(f.data) <= MaxBytes
  /\ fs' = [fs EXCEPT ![Tmp] = @ \o f.data]
  /\ u' = [u EXCEPT !.hashed = @ \o f.data, !.received = @ + 2 * Len(f.data)]
  /\ Answer("ok")
  /\ UNCHANGED flaws

FrameAccepted(f) ==
  /\ u.active
  /\ LengthFits(f)
  /\ u.received + Len(f.data) <= MaxBytes
  /\ fs' = [fs EXCEPT ![Tmp] = @ \o f.data]
  /\ u' = [u EXCEPT !.hashed = @ \o f.data, !.received = @ + Len(f.data)]
  /\ Answer("ok")
  /\ UNCHANGED flaws

-----------------------------------------------------------------------------
(* AT+UPLOADDONE and AT+UPLOADCANCEL                                       *)

DoneNoUpload ==
  /\ ~u.active
  /\ Answer("noupload")
  /\ UNCHANGED <<u, fs, flaws>>

(* What is in the file after fclose(), whose result nobody looks at.        *)
Closed == {fs[Tmp]} \union
          IF "flush" \in DiskFaults
            THEN {SubSeq(fs[Tmp], 1, k) : k \in 0..Len(fs[Tmp])} ELSE {}

(* Every end of an upload resets the state; the failures unlink the file,   *)
(* and nobody looks at what unlink() returns.                               *)
Discard(k) ==
  /\ \/ fs' = [fs EXCEPT ![Tmp] = NoFile] /\ UNCHANGED left
     \/ /\ "unlink" \in DiskFaults
        /\ \E c \in Closed : fs' = [fs EXCEPT ![Tmp] = c]
        /\ left' = left \union {u.name}
  /\ u' = Idle /\ hit' = FALSE
  /\ Answer(k)
  /\ UNCHANGED flawed

DoneSizeMismatch == u.active /\ u.received # u.size /\ Discard("size")

(* actual_md5 is lower case, and the digests are compared as strings.       *)
DigestFits == u.hashed = u.expected /\ ~u.upper

DoneDigestMismatch ==
  u.active /\ u.received = u.size /\ ~DigestFits /\ Discard("md5")

DoneRenameFails ==
  /\ "rename" \in DiskFaults
  /\ u.active /\ u.received = u.size /\ DigestFits
  /\ Discard("save")

Save ==
  /\ \E c \in Closed :
       /\ fs' = [fs EXCEPT ![Tmp] = NoFile, ![u.name] = c]
       /\ flawed' = IF hit \/ c # fs[Tmp] THEN flawed \union {u.name} ELSE flawed \ {u.name}
  /\ u' = Idle /\ hit' = FALSE
  /\ Answer("done")
  /\ UNCHANGED left

(* Mutant: only the size is verified.                                       *)
Done_SizeOnly == u.active /\ u.received = u.size /\ Save
Done == u.active /\ u.received = u.size /\ DigestFits /\ Save

Cancel == u.active /\ Discard("cancelled")

CancelNothing ==
  /\ ~u.active
  /\ Answer("cancelled")
  /\ UNCHANGED <<u, fs, flaws>>

(* The daemon dies and is started again: what was buffered may be lost.     *)
Crash ==
  /\ Crashes
  /\ IF u.active
       THEN /\ \E k \in 0..Len(fs[Tmp]) : fs' = [fs EXCEPT ![Tmp] = SubSeq(@, 1, k)]
            /\ left' = left \union {u.name}
       ELSE UNCHANGED <<fs, left>>
  /\ u' = Idle /\ hit' = FALSE
  /\ Answer("none")
  /\ UNCHANGED flawed

Next ==
  \/ BadArgument \/ PreuploadBusy
  \/ \E n \in Names : PreuploadFails(n)
  \/ \E n \in Names, size \in 1..MaxBytes, d \in Digests, up \in UpperCase :
       Preupload(n, size, d, up)
  \/ FrameRefused
  \/ \E f \in Frames :
       FrameBadLength(f) \/ FrameBadCrc(f) \/ FrameShortWrite(f) \/ FrameAccepted(f)
  \/ DoneNoUpload \/ DoneSizeMismatch \/ DoneDigestMismatch \/ DoneRenameFails
  \/ Done \/ Cancel \/ CancelNothing
  \/ Crash

Spec == Init /\ [][Next]_vars

-----------------------------------------------------------------------------
(* Properties                                                              *)

(* The firmware files change as a whole and only to announced contents: the *)
(* protocol implements FirmwareStore, whatever frames come, are repeated or *)
(* lost, and wherever the daemon crashes.  Only where the disk failed to    *)
(* take data may a file become something else.                              *)
Store == INSTANCE FirmwareStore
           WITH Contents <- Digests,
                store    <- [n \in Names |-> fs[n]],
                pending  <- IF u.active THEN {<<u.name, u.expected>>} ELSE {}
ImplementsStore == Store!Spec

(* The digest and the byte count that UPLOADDONE verifies are those of the  *)
(* temporary file: what is verified is what is renamed, unless a write has  *)
(* failed.  Neither a refused frame nor the leftovers of a crashed upload   *)
(* may come between them.                                                   *)
HashMatchesFile ==
  u.active /\ ~hit => fs[Tmp] = u.hashed /\ Len(u.hashed) = u.received

(* at_commands.md:320: the temporary file exists only during transfer,      *)
(* unless an unlink() failed or the daemon crashed in an earlier upload of  *)
(* that name; opening the file for the next upload ends the exception.      *)
TmpOnlyDuringUpload ==
  \A n \in Names : fs[TmpOf[n]] # NoFile => (u.active /\ u.name = n) \/ n \in left

(* at_commands.md:321: nobody sees a partial firmware file: even when the   *)
(* disk fails, a file changes only when its own upload is answered OK.      *)
FilesChangeOnlyByDone ==
  [][\A n \in Names :
       fs'[n] # fs[n] => u.active /\ u.name = n /\ reply' = "done"]_vars
=============================================================================
