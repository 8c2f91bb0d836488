----------------------------- MODULE HttpUpload -----------------------------
(***************************************************************************)
(* POST /api/upload: requests that bring firmware files as multipart forms *)
(* (accessHandler and its post-processor callback, handleUpload).  The one *)
(* thread of libmicrohttpd runs the callbacks of all connections, so the   *)
(* pieces of simultaneous uploads interleave and every callback is a step. *)
(* Uploads do not ask for the session lock.                                *)
(*                                                                         *)
(* Two FILEs may be open on one file, so files are inodes: dir tells the   *)
(* inode of a path, and a FILE has an inode, a position and a buffer.  The *)
(* bytes of a piece are one unit, which no other piece has.                *)
(***************************************************************************)
EXTENDS Naturals, Sequences

CONSTANTS Requests,    \* upload requests; also the inodes, as each creates at most one
          Names,       \* file names that validate_filename accepts
          Seconds,     \* what to_time_t(system_clock::now()) may return, in any order
          MaxPieces,   \* bound on the callbacks of a request
          DiskFaults,  \* calls that may fail: "open", "write", "flush", "rename"
          NoFile

Temps == Seconds \X Names            \* <ts>_<name>
Paths == Names \union Temps

ASSUME HttpAssumption ==
  /\ MaxPieces \in Nat
  /\ Names \cap Temps = {}           \* no client calls its file <ts>_<name>
  /\ NoFile \notin Requests \union Temps
  /\ DiskFaults \subseteq {"open", "write", "flush", "rename"}

VARIABLES
  state,     \* state[r]: the ConnectionState of request r
  dir,       \* dir[p]: the inode of path p, or NoFile
  data,      \* data[i]: the content of inode i
  serving,   \* FALSE once the daemon stops
  opener,    \* history: opener[i] is the last request to fopen() inode i
  sent,      \* history: sent[r] is what the firmware part of r has brought
  spoilt     \* history: requests with a failed write or a second firmware
             \* part, and temporary files that two requests have had open

disk  == <<dir, data, opener>>
ghost == <<sent, spoilt>>
vars  == <<state, disk, serving, ghost>>

(* The FILE of a request is open from the callback that opened it until the *)
(* request is answered.  After a broken connection nobody closes it: no     *)
(* MHD_OPTION_NOTIFY_COMPLETED is given, so ~ConnectionState never runs.    *)
(* upload_filename is the name in tmp; upload_size is positive only while   *)
(* a file is open, and otherwise only reported.                             *)
ConnectionState ==
  [phase    : {"free", "receiving", "complete", "done", "broken"},
   pieces   : 0..MaxPieces,               \* callbacks so far
   tmp      : Temps \union {NoFile},      \* upload_tmp_path
   inode    : Requests \union {NoFile},   \* upload_file ...
   pos      : 0..MaxPieces,               \*   ... what it has written
   buf      : UNION {[1..n -> Requests \X (1..MaxPieces)] : n \in 0..MaxPieces},
                                          \*   ... what it has not written yet
   received : BOOLEAN,                    \* upload_data_received
   reply    : {0, 200, 400, 500}]

New == [phase |-> "free", pieces |-> 0, tmp |-> NoFile, inode |-> NoFile, pos |-> 0,
        buf |-> << >>, received |-> FALSE, reply |-> 0]

Hole  == <<"hole", 0>>
Units == (Requests \X (1..MaxPieces)) \union {Hole}

TypeOK ==
  /\ state \in [Requests -> ConnectionState]
  /\ dir \in [Paths -> Requests \union {NoFile}]
  /\ \A i \in Requests : \A k \in DOMAIN data[i] : data[i][k] \in Units
  /\ serving \in BOOLEAN
  /\ opener \in [Requests -> Requests]
  /\ \A r \in Requests : \A k \in DOMAIN sent[r] : sent[r][k] \in Units
  /\ spoilt \subseteq Requests \union Temps
  /\ \A r \in Requests : state[r].phase = "done" => state[r].inode = NoFile

Init ==
  /\ state = [r \in Requests |-> New]
  /\ dir = [p \in Paths |-> NoFile]
  /\ data = [i \in Requests |-> << >>]
  /\ serving = TRUE
  /\ opener = [i \in Requests |-> i]
  /\ sent = [r \in Requests |-> << >>]
  /\ spoilt = {}

-----------------------------------------------------------------------------
(* The C library. *)

May(call) == {TRUE} \union (IF call \in DiskFaults THEN {FALSE} ELSE {})

\* d after write() of the units u at offset pos.
WriteAt(d, pos, u) ==
  LET end == pos + Len(u)
  IN  [k \in 1..(IF u # << >> /\ end > Len(d) THEN end ELSE Len(d)) |->
        IF k \in (pos + 1)..end THEN u[k - pos]
        ELSE IF k <= Len(d) THEN d[k] ELSE Hole]

\* The FILE of r hands the units u over; ok: the disk took them.
HandOver(r, u, ok) ==
  data' = IF ok THEN [data EXCEPT ![state[r].inode] = WriteAt(@, state[r].pos, u)]
          ELSE data

\* fopen(path, "wb") by r; a file that is already there is emptied.
OpenedInode(r, path) == IF dir[path] = NoFile THEN r ELSE dir[path]
OpensAt(r, path) ==
  /\ dir' = [dir EXCEPT ![path] = OpenedInode(r, path)]
  /\ data' = [data EXCEPT ![OpenedInode(r, path)] = << >>]
  /\ opener' = [opener EXCEPT ![OpenedInode(r, path)] = r]

\* Mutant: the upload is written in place.
Fopen_InPlace(r, path) == OpensAt(r, path[2])
Fopen(r, path) == OpensAt(r, path)

-----------------------------------------------------------------------------
(* accessHandler and the callback of the post processor. *)

Set(r, c) == state' = [state EXCEPT ![r] = c]
Open(r) == state[r].inode # NoFile      \* the FILE of r is not closed

\* The first call for a connection.  Without a post processor (not multipart)
\* the next call is answered 400.
Accept(r) ==
  /\ serving /\ state[r].phase = "free"
  /\ \/ Set(r, [state[r] EXCEPT !.phase = "receiving"])
     \/ Set(r, [state[r] EXCEPT !.phase = "done", !.reply = 400])
  /\ UNCHANGED <<disk, serving, ghost>>

Receiving(r) == serving /\ state[r].phase = "receiving" /\ state[r].pieces < MaxPieces
Received(r)  == [state[r] EXCEPT !.received = TRUE, !.pieces = @ + 1]

\* Each data call may bring a new unit, or none (an empty part).
Bytes(r) == {<< >>, <<<<r, state[r].pieces + 1>>>>}

\* Data that reaches no file: another field, a rejected name, a firmware field
\* without a name while no file is open, data for which the post processor
\* makes no call, any data once it is in its error state.
Ignore(r) ==
  /\ Receiving(r)
  /\ Set(r, Received(r))
  /\ UNCHANGED <<disk, serving, ghost>>

\* The first firmware part with a valid name opens the temporary file.
OpenTmp(r, path) ==
  /\ Receiving(r) /\ state[r].tmp = NoFile
  /\ Fopen(r, path)
  /\ \E b \in Bytes(r) :
       /\ Set(r, [Received(r) EXCEPT !.tmp = path, !.inode = OpenedInode(r, path), !.buf = b])
       /\ sent' = [sent EXCEPT ![r] = b]
  /\ spoilt' = spoilt \union {path : q \in {q \in Requests : Open(q) /\ state[q].tmp = path}}
  /\ UNCHANGED serving

\* fopen() fails and the callback returns MHD_NO: no call comes after it.
OpenTmpFails(r, path) ==
  /\ Receiving(r) /\ state[r].tmp = NoFile /\ FALSE \in May("open")
  /\ Set(r, [Received(r) EXCEPT !.tmp = path])
  /\ UNCHANGED <<disk, serving, ghost>>

\* Another call with firmware data: for the same part, or for a second part
\* with a valid name or none, which goes to the same file.  The FILE keeps the
\* data or hands over what it has; that a write fails is not looked at.
WriteTmp(r) ==
  /\ Receiving(r) /\ Open(r)
  /\ \E b \in Bytes(r), second, keep \in BOOLEAN, ok \in May("write") :
       LET all == state[r].buf \o b
           out == IF keep THEN << >> ELSE all
       IN  /\ HandOver(r, out, ok)
           /\ Set(r, [Received(r) EXCEPT !.buf = IF keep THEN all ELSE << >>,
                                         !.pos = @ + Len(out)])
           /\ sent' = IF second THEN sent ELSE [sent EXCEPT ![r] = @ \o b]
           /\ spoilt' = spoilt \union (IF second \/ ~ok THEN {r} ELSE {})
  /\ UNCHANGED <<dir, opener, serving>>

\* The body ends: the next call of the handler has no data.
End(r) ==
  /\ serving /\ state[r].phase = "receiving"
  /\ Set(r, [state[r] EXCEPT !.phase = "complete"])
  /\ UNCHANGED <<disk, serving, ghost>>

-----------------------------------------------------------------------------
(* handleUpload, called with no data after the last byte.  After an empty   *)
(* body it takes the call for the first one and waits on.                   *)

\* Mutant: upload_file is not set to null.
Answer_KeepsFile(r, code) ==
  Set(r, [state[r] EXCEPT !.phase = "done", !.reply = code, !.pos = 0, !.buf = << >>])

Answer(r, code) ==
  Set(r, [state[r] EXCEPT !.phase = "done", !.reply = code, !.inode = NoFile,
                          !.pos = 0, !.buf = << >>])

\* Mutant: only an upload that came as far as a file name is answered.
NothingSaved_IfNamed(r) ==
  /\ serving /\ state[r].phase = "complete" /\ ~Open(r) /\ state[r].tmp # NoFile
  /\ Answer(r, 400)
  /\ UNCHANGED <<disk, serving, ghost>>

NothingSaved(r) ==
  /\ serving /\ state[r].phase = "complete" /\ ~Open(r) /\ state[r].received
  /\ Answer(r, 400)
  /\ UNCHANGED <<disk, serving, ghost>>

Saving(r) == serving /\ state[r].phase = "complete" /\ Open(r)
Tmp(r)    == state[r].tmp
Final(r)  == state[r].tmp[2]

\* Mutant: rename() without fclose(); the buffer is lost.
Save_Unflushed(r) ==
  /\ Saving(r)
  /\ dir[Tmp(r)] # NoFile
  /\ Answer(r, 200)
  /\ dir' = [dir EXCEPT ![Final(r)] = dir[Tmp(r)], ![Tmp(r)] = NoFile]
  /\ UNCHANGED <<data, opener, serving, ghost>>

\* Mutant: link() instead of rename(); the temporary name stays.
Save_ByLink(r) ==
  /\ Saving(r)
  /\ HandOver(r, state[r].buf, TRUE)
  /\ Answer(r, 200)
  /\ dir' = [dir EXCEPT ![Final(r)] = dir[Tmp(r)]]
  /\ UNCHANGED <<opener, serving, ghost>>

\* fclose(), access(), rename().  Neither the second validation nor the code
\* after the branch for an open file can be reached with another result.
Save(r) ==
  /\ Saving(r)
  /\ \E flushed \in May("flush"), renamed \in May("rename") :
       /\ HandOver(r, state[r].buf, flushed)
       /\ spoilt' = spoilt \union (IF flushed THEN {} ELSE {r})
       /\ IF renamed \/ dir[Tmp(r)] = NoFile THEN Answer(r, 200) ELSE Answer(r, 500)
       /\ dir' = IF renamed /\ dir[Tmp(r)] # NoFile
                 THEN [dir EXCEPT ![Final(r)] = dir[Tmp(r)], ![Tmp(r)] = NoFile] ELSE dir
  /\ UNCHANGED <<opener, sent, serving>>

-----------------------------------------------------------------------------
(* Everything else. *)

\* The client goes away, or the connection is idle for 120 s.
Break(r) ==
  /\ serving /\ state[r].phase \in {"receiving", "complete"}
  /\ Set(r, [state[r] EXCEPT !.phase = "broken"])
  /\ UNCHANGED <<disk, serving, ghost>>

\* MHD_stop_daemon() closes all connections.
Stop ==
  /\ serving /\ serving' = FALSE
  /\ state' = [r \in Requests |->
       IF state[r].phase \in {"receiving", "complete"}
       THEN [state[r] EXCEPT !.phase = "broken"] ELSE state[r]]
  /\ UNCHANGED <<disk, ghost>>

\* exit() writes out the buffers of the FILEs that are still open.
ExitFlush(r) ==
  /\ ~serving /\ Open(r) /\ state[r].buf # << >>
  /\ HandOver(r, state[r].buf, TRUE)
  /\ Set(r, [state[r] EXCEPT !.buf = << >>])
  /\ UNCHANGED <<dir, opener, serving, ghost>>

Next ==
  \/ \E r \in Requests :
       \/ Accept(r) \/ Ignore(r) \/ WriteTmp(r) \/ End(r)
       \/ \E path \in Temps : OpenTmp(r, path) \/ OpenTmpFails(r, path)
       \/ NothingSaved(r) \/ Save(r) \/ Break(r) \/ ExitFlush(r)
  \/ Stop

\* MHD goes on calling the handler of a request that has all its data.
Fairness == \A r \in Requests : WF_vars(NothingSaved(r) \/ Save(r))

Spec == Init /\ [][Next]_vars /\ Fairness

-----------------------------------------------------------------------------
(* Properties. *)

Shared(r) == state[r].tmp \in spoilt       \* two open FILEs had this path
Spoilt(r) == r \in spoilt \/ Shared(r)

(* What is under the name of a firmware file is the whole firmware part of   *)
(* the request that made it, never a prefix or a mix of two uploads, also    *)
(* when connections break, the server stops or renames fail.  Three cases    *)
(* the code does not handle are set apart: a write that failed, a second     *)
(* firmware part, and one temporary path used by two open FILEs.             *)
FileIsWholeUpload ==
  \A n \in Names :
    LET i == dir[n]
    IN  i # NoFile /\ ~Spoilt(opener[i]) => data[i] = sent[opener[i]]

(* A firmware file changes, by name or in content, only in the step that     *)
(* answers 200 to an upload under that name; all other requests, however     *)
(* they end, leave it as it was, also when writes fail.  Only a file that    *)
(* came from a temporary path of two open FILEs is still in reach of one.    *)
FilesChangeOnlyByOk ==
  [][\A n \in Names :
       \/ dir'[n] = dir[n] /\ (dir[n] # NoFile => data'[dir[n]] = data[dir[n]])
       \/ \E r \in Requests : /\ state[r].reply = 0 /\ state'[r].reply = 200
                              /\ state[r].tmp[2] = n
       \/ dir[n] # NoFile /\ Shared(opener[dir[n]])]_vars

(* A temporary file is there for a reason: a request that is still coming    *)
(* in, one whose connection broke (nothing ever removes that file), or one   *)
(* answered 500.  A request answered 200 or 400 leaves none.                 *)
TmpAccounted ==
  \A t \in Temps : dir[t] # NoFile =>
    \E r \in Requests : /\ state[r].tmp = t
                        /\ \/ state[r].phase \in {"receiving", "complete", "broken"}
                           \/ state[r].reply = 500

(* A request that has brought all its data, and some, is answered unless its *)
(* connection breaks first.  (After an empty body handleUpload waits for the *)
(* first data for ever.)                                                     *)
CompleteIsAnswered ==
  \A r \in Requests :
    state[r].phase = "complete" /\ state[r].received ~> state[r].phase \in {"done", "broken"}

(* docs/http_endpoints.md:105: the time stamp in the temporary name avoids   *)
(* collisions of simultaneous uploads, and MHD handles one connection at a   *)
(* time: so an upload of one part that is answered 200 has put what it       *)
(* brought under its name.                                                   *)
OkIsSaved ==
  [][\A r \in Requests :
       state[r].reply = 0 /\ state'[r].reply = 200 /\ r \notin spoilt' =>
         LET i == dir'[state[r].tmp[2]] IN i # NoFile /\ data'[i] = sent[r]]_vars
=============================================================================
