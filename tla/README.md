# Specification of rk_firmware_flashd

TLA+ modules of the daemon that uploads firmware to an RK board and flashes it:
what its components do, the properties they are meant to have, the TLC runs that
check them on small instances, and the theorems proved with TLAPS for every
instance. Paths are relative to `src/`, the root of the repository.

## The system

One process with a main thread, one libmicrohttpd (MHD) thread, a serial reader
thread, and one worker thread per flash. There are no queues between them: they
share an atomic, one mutex and two function-local statics.

| Component | State | Operations | Correct means |
|---|---|---|---|
| Session lock (`src/serial_daemon.cpp`, `src/http_handler/handler_command.cpp`, `handler_reset.cpp`, `handler_status.cpp`) | `owner_` | `try_acquire`, `release`, `force_release`, `owner`, `is_busy`; the entry code of HTTP commands and serial lines; AT+RESET, AT+FORCERESET, /api/reset, /api/status, the debug endpoint | one side at a time runs commands, unless forced; answers about the lock are true; a session ends by its owner or by force; nobody waits |
| Asynchronous flash (`src/at_handler/handler_flash.cpp`) | the static `FlashOp`, its worker thread, the script process | AT+FLASH, AT+TRYFLASHDONE, the worker, the timeout, destruction at exit | one script at a time; the result is that of the submission, complete, handed out once; every operation becomes reportable; exit leaves no worker |
| Upload protocol (`src/at_handler/handler_upload.cpp`) | the static `UploadState`, the temporary file, the firmware files | AT+PREUPLOAD, AT+UPLOAD, AT+UPLOADDONE, AT+UPLOADCANCEL | a firmware file changes as a whole and only to what was announced; what is verified is what is in the file; no temporary file is left; one side per upload |
| Multipart upload (`src/http_server.cpp`, `src/http_handler/handler_upload.cpp`) | one `ConnectionState` per request, temporary files | the callbacks of a POST, the end of a request, the stop of the server | a file is saved whole; others are left alone; temporary files are accounted for; requests are answered |
| Serial link (`src/serial_daemon.cpp`, `src/serial_port.cpp`, `main.cpp`) | the port, `io_mutex_`, `reader_running_`, the bytes on the wire | open, read a line, write, reconnect, close, shutdown | a shutdown completes and leaves the port closed; a closed port is reopened; lines come whole and in order |
| Checksums (`include/checksum.h`) | CRC register, MD5 context | `CRC16::update`, `MD5::update`, `finalize`, `reset` | equal to their definitions however the input is cut; noise is seen |
| Dispatch (`src/at_command.cpp`) | none | parse, dispatch | the same command for every way of writing it |
| Life cycle (`main.cpp`, `src/daemon.cpp`) | `g_running`, PID file | start, signal, cleanup, static destruction | ends cleanly |
| Exec, reboot, version, configuration, logger | none of interest | | |

Components meet in four places. An HTTP command or a serial line first passes
the session lock and then runs a handler on `FlashOp` or `UploadState`, which
have no protection but that lock; a force release takes it away. The reader, the
HTTP thread (for `is_open()`) and the shutdown meet at `io_mutex_`. A flash poll
and its worker meet at the flags of `FlashOp` and at `join()`. Multipart uploads
ask for no lock: they meet one another in the upload directory.

The hard behaviours are the interleavings of single accesses to `owner_` and to
`FlashOp` (each is atomic, sequences of them are not), the timeout of a flash
racing with its end, frames that are repeated or lost, uploads whose callbacks
interleave, a disk that fails, a daemon that dies in the middle of an upload,
and a shutdown while the reader reconnects. `PROJECT.json` lists the hazards one
by one with the properties aimed at them.

## The modules

An operator whose name continues that of an action, as in `TryAcquire_Store`,
and whose comment says "Mutant", is a plausible mistake in that action. No
specification uses it; put in the place of the action, it makes the run report
the property it was written for.

**SessionLock** (abstract: **SessionAbs**; proofs: **SessionLockProofs**). Every
access of a thread to `owner_` is one action, named for the call it belongs to;
`pc[t]` is the next access of thread `t`, and a thread is named by the `Owner`
it passes. HTTP enters through `IsBusy`, then `TryAcquire` or `CheckOwner`;
serial through `TryAcquire`, then `CheckOwner`; AT+RESET is the pair
`ProcessReset`, `Release`; status is three reads. `exact` says whether a command
is spelled as `handleCommand` compares it. What commands do otherwise is left
out; `WORK` marks those that use the shared statics. History variables: `held[t]`,
the values `owner_` had during the call of `t`, and `robbed`, the threads whose
session a force release took during their call. That `SerialDaemon::stop()`
empties the lock at shutdown is in SerialLink. SessionAbs is what the lock
promises: a holder, and the sides running commands under a live session.
SessionLock implements it with `holder <- owner_` and `running <-` the threads
inside a `WORK` command whose session was not forced away.

**FlashOp** (proofs: **FlashOpProofs**). Every access to `running`, `done`,
`start_time` and `worker` by a handler or a worker is one action. A job is the
number of a submission. A script ends with 0, with another code or by a signal,
or hangs; `WEXITSTATUS` of a killed script may be 0, depending on whether the
shell of `popen()` replaced itself by the script. `start_time` is read while it
is written without synchronisation: such a read has either outcome. `Terminate`
is `std::terminate()`, which scripts survive. With `MayThrow` the thread
constructor and the worker's allocations may fail. `Exit` is the return of
`main()` once no handler runs: `~FlashOp()` over a joinable thread ends in
`std::terminate()`. `Callers` has one thread where the session lock lets one
command run at a time, and two where it was forced. `early` and `overdue` record
what a poll could not know: that it read `running` or `start_time` before the
worker had written them, and that a minute has really passed.

**UploadProtocol** (abstract: **FirmwareStore**; proofs:
**UploadProtocolProofs**). A handler is one action per way it ends. Contents are
sequences of symbols; a digest is the content it is of (MD5 has no collisions)
and the case it is written in; the CRC of a frame fits or does not. Any frame
may arrive at any time, so a repeated, lost, swapped or garbled one is simply
another frame. `frame_len` is taken modulo `LenModulus`. `DiskFaults` may make
`fopen`, `fwrite`, `fclose`, `rename` and `unlink` fail, the last unnoticed, as
its result is ignored; with `Crashes` the daemon may die and restart, and any
suffix of the temporary file may be lost. `left` are the names whose temporary
file a failed `unlink` or a crash has left. FirmwareStore is
what flash scripts may rely on: a firmware file stays as it is or becomes the
announced content as a whole (`Commit`), and only a disk that lost data of that
very upload can make it something else (`Spoil`, recorded in `flawed`).
`hit` is the same record for the upload that is still active.

**UploadSession** (proofs: **UploadSessionProofs**) puts the upload handlers
behind the session lock (an instance of SessionAbs, which SessionLock
implements) and splits them into steps, one per call of the C library and per
group of accesses to `UploadState`. Sessions end, change sides and are forced
away while a handler runs. An upload is not part of its session: the next
session finds it active. Two handlers at once are a data race on strings and a
`FILE*`, so a behaviour ends where they meet (`overlap`). `Close` is `fclose()`
in UPLOADDONE and UPLOADCANCEL, whose result nobody looks at. Two properties
speak of the files at every step of a handler (`TmpOnlyDuringUpload`,
`FilesChangeOnlyByDone`), so that a copy in place of the rename, or a target
removed first, would be seen. Up to there it
implements UploadProtocol, seen at the moments when no handler is running
(`rest`, mapped by `AsProtocol`): the atomic handlers of that module are
justified, and so is what is proved of them.

The HTTP thread's multipart uploads write into the same directory, and are not
composed with these: their temporary files have other names (a time stamp in
front of the name) and either side publishes by one `rename()`, so that the last
one to be saved is the firmware; a name that reads like a temporary file of the
other is excluded (see below).

**HttpUpload** (proofs: **HttpUploadProofs**). Every callback of MHD is one
action: the first call, the pieces the post-processor hands over, the call
without data, the answer. Because two `FILE`s can be open on one file, and one
of them after a rename, files are inodes: `dir` maps paths to inodes, and each
`FILE` has an inode, a position and a buffer. Each piece brings one unit of data
that no other has. `Break` is a client that goes away or MHD's idle timeout,
`Stop` is `MHD_stop_daemon()`, and `ExitFlush` what `exit()` does to the `FILE`s
nobody closed. Neither `unlink()` of this side is ever reached: the name was
validated before the file was opened (`handler_upload.cpp:61`), and no
`ConnectionState` is destroyed (`http_server.cpp:17`). Which data of a body reach
the callback, and as what, is libmicrohttpd's and left open (`Ignore`, the choice
of a second part in `WriteTmp`).

**SerialLink**. Entering and leaving each critical section of `io_mutex_` are
actions (`Enter`, `Leave`); the reader loop, the HTTP thread's `is_open()` and
the main thread from start to the end of shutdown are sequences of them. A
device comes and goes; a port open on a device that went is `stale`. Handlers
are assumed to return (a flash poll may not, see below) and `AT+STATUS` on the
serial line, which asks `is_open()` from the reader thread, is left out.

**SerialLine** (proofs of both: **SerialLineProofs**) extends it with the bytes:
what the device sends, the buffer of the line in `readLine()`, the limit on its
length, and the places where bytes are dropped (a timeout inside a line, a line
that is too long, `open()`, the loss of the device). Byte `i` of line `k` is
`<<k, i>>`, so that a byte in a wrong line is seen whatever its value. Its steps
are those of SerialLink conjoined with what they do to the bytes, so what
SerialLink promises is checked of it as well.

**Crc16**, **Md5Stream**, **Checksums** (proofs: **Md5StreamProofs**,
**ChecksumsProofs**). A 16-bit register is the set of its
bits; one object computes the CRC of the frame that was sent and one that of the
frame that came in, in which a burst of noise may garble up to 16 neighbouring
bits, wherever they lie: `noise` counts how many of the next bits it may still
reach, so that it may touch three bytes. MD5 is
modelled as a stream: `Update` with its buffer and block loop, `PadLen` and
`Finalize`; `transform()` is left open and `hashed` is what it has been given.
Checksums puts the two side by side for one run.

**MCSessionLock**, **MCUploadProtocol**, **MCUploadSession**, **MCSerialLine**
and **MCChecksums** give constants their values; FlashOp, HttpUpload and
SerialLink take them from the configuration directly.

## The runs

| Run | Checks | Bounds |
|---|---|---|
| `SessionLock.cfg` | `TypeOK`, `ExclusiveUnlessForced`, `BusyIsHonest`, `ResetOkEndsSession`, `StatusNamesHolder`, `SessionEndsByOwnerOrForce`, `ImplementsAbs`, `LockNeverBlocks` | none but the set of commands, which has every kind, those that are compared by spelling in both spellings; complete |
| `FlashOp.cfg` | `TypeOK`, `OneScriptUnlessDoomed`, `ResultIsHonest`, `NoPendingIsHonest`, `TimeoutIsHonest`, `ReportedOnce`, `ExitIsOrderly` | one caller, 3 submissions: a current one, the previous one whose remains it meets, and one more after a reset of both |
| `FlashOp_live.cfg` | `BecomesReportable` | two callers, 1 submission, so that two polls and joins meet; one submission, because two callers that both submit soon end in `std::terminate` |
| `FlashOp_two.cfg`, `FlashOp_unpolled.cfg` | violate `OneScript`, `CompleteAllowsSubmit` | one caller, 2 submissions; `popen()` may fail, allocations do not |
| `Upload.cfg` | `TypeOK`, `HashMatchesFile`, `ImplementsStore` | two names (symmetric), two symbols, frames of 1 and 2 bytes, declared lengths that are off by one and by `LenModulus`, uploads of up to 2 bytes, crashes, failing `fopen`, `fwrite`, `rename` and `unlink` (a failing `fclose` is in the next run): enough to repeat, swap and lose frames and to meet the leftovers of another upload |
| `UploadSession.cfg` | `TypeOK`, `OneSidePerUpload`, `ActiveMeansOpen`, `TmpOnlyDuringUpload`, `ImplementsProtocol`, `FilesChangeOnlyByDone` | both sides (symmetric: the handlers do not tell them apart), one name, frames of one byte, uploads of up to 2 bytes, every disk call may fail, `fclose` and `unlink` included |
| `HttpUpload.cfg` | `TypeOK`, `FileIsWholeUpload`, `TmpAccounted`, `FilesChangeOnlyByOk`, `CompleteIsAnswered` | two requests of up to 2 callbacks with data, two names, two values of the clock, every disk call that is reached may fail: two names show that one upload leaves the file of another alone, one name and one second that they collide |
| `HttpUpload_clash.cfg` | violates `OkIsSaved` | two requests, one name, nothing fails |
| `SerialLine.cfg` | `LineTypeOK`, `LineIsWhole`, `LinesInOrder`, `ShutdownLeavesNothing`, `ShutdownCompletes`, `ClosedPortIsReopened` | three lines: two that fit and one that only fits when its beginning has been dropped; SerialLink itself has no bound |
| `SerialLink_stale.cfg` | violates `StalePortIsReopened` | none |
| `Checksums.cfg` | `CrcIsRemainder`, `NoiseIsSeen`, `NothingLost`, `DigestIsOfMessage` | CRC: frames of up to 3 bytes, so that a burst of 16 bits may begin anywhere in the first byte and end in the third; every pattern of wrong bits in it; as the CRC is linear, one byte value for the data is enough. MD5: messages of up to 200 bytes in pieces whose lengths lie on both sides of every boundary (0, 1, 55, 56, 63, 64, 65, more than two blocks) |

The properties are explained where they are defined. Deadlock is not checked
where the system does stop: the daemon terminates or exits in FlashOp, a
behaviour of UploadSession ends where two handlers meet, all requests of
HttpUpload end, and Checksums stops at its bounds.

Properties of UploadProtocol that are not in its own run are checked elsewhere:
`TmpOnlyDuringUpload` and `FilesChangeOnlyByDone` in `UploadSession.cfg`, where
they are stated of the files at every step of a handler and not only when none is
running, and both are proved, of UploadProtocol and of UploadSession. Their
exceptions are part of the statements: a temporary file that `unlink()` failed to
remove stays until the next upload of its name opens it (`left`), and if the disk
lost bytes of an upload unnoticed (`fclose()` failed, or a short `fwrite()` was
followed by the same frame again), the file that is published may be less than
what was announced (`hit`). And they say nothing of what happens after two
handlers have met, where the code is undefined.

### Fairness

- `SessionLock!FairSpec`: the operating system runs a thread that is at an access
  to the lock. Commands are not assumed to end; clients need not send anything.
- `FlashOp!EndingSpec`: handlers and workers run, and scripts end; clients need
  not poll and `popen()` may fail.
- `SerialLink!Fairness`, also used by SerialLine: threads run, and a thread that
  waits for `io_mutex_` gets it in the end. The last is more than `std::mutex`
  promises and is named as an assumption: the reader holds the mutex for up to
  500 ms at a time and frees it for an instant only, so on an implementation that
  prefers the running thread a status request and the shutdown may wait long. No
  fairness is assumed of the device, of its bytes or of signals.
- `HttpUpload!Fairness`: MHD goes on calling the handler of a request that has
  all its data. Nothing is assumed of clients.

### Where code and documentation disagree

The violated properties are statements of the documentation or of comments that
the code does not keep:

- `OneScript` (`docs/at_commands.md:143`): `running` is set by the worker, so a
  second submission before it runs starts a second script.
- `CompleteAllowsSubmit` (`docs/at_commands.md:138-139`): the next AT+FLASH after
  an operation that nobody polled assigns to a joinable `std::thread`.
- `OkIsSaved` (`docs/http_endpoints.md:105`): the time stamp has a resolution of
  one second and callbacks of connections interleave, so two uploads of one name
  share a temporary file, and one is answered 200 although its data are nowhere.
- `StalePortIsReopened` (`src/serial_daemon.cpp:146`): an unplugged device stays
  "open", so the reader never reopens it.

The properties that hold name further ones as their exceptions:

- a poll between the writes of `running` and `start_time` is judged by the time
  of the previous operation (`docs/at_commands.md:158`; `early` in
  `TimeoutIsHonest`), and an immediate poll may be told "no pending"
  (`real_test/test_04_flash.py:57`; `early` in `NoPendingIsHonest`);
- a killed script may count as exit code 0 (`docs/architecture.md:122`;
  "killed" in `ResultIsHonest`);
- after a short `fwrite()` the upload goes on, and a client that sends the frame
  again is answered OK for a file with bytes too many; the result of `fclose()`
  is not looked at (`docs/at_commands.md:307`; `hit` and `flawed`);
- a crash, or an `unlink()` that fails and whose result is ignored
  (`handler_upload.cpp:223`, `235`, `243`, `274`), as on a file system that went
  read-only, leaves the temporary file (`docs/at_commands.md:320`; `left`), and a
  CRC error does not delete it (`docs/architecture.md:138`);
- a frame length that is off by 2^32 is accepted (`docs/at_commands.md:296`;
  `LengthFits`); a digest in upper case never matches (`DigestFits`); names of
  245 to 255 characters cannot be created (`docs/at_commands.md:262`);
- in multipart uploads a short `fwrite()` is not noticed and a second part called
  `firmware` goes to the same file (`spoilt`); a request with an empty body is
  never answered (`received` in `CompleteIsAnswered`); a broken connection leaks
  its `FILE` and leaves its temporary file (`TmpAccounted`).

And some were met while reading and have no property: the reader takes the lock
before it looks at the line, so FORCERESET on the serial line is answered BUSY
during an HTTP session (`docs/at_commands.md:106`); a lower-case `at+reset` or
`at+forcereset` does not bypass the lock (`handler_command.cpp:49`,
`docs/at_commands.md:9`); a poll after the timeout does not return while the
script hangs (`docs/at_commands.md:174`); RESET does not reopen the port
(`docs/at_commands.md:87`); hex digits of frame data are not checked
(`handler_upload.cpp:159`); `SerialPort::open()` would lock its own mutex twice
if it were called while open, which today nobody does (`serial_port.cpp:66`); a
second start that fails at the HTTP port removes the PID file of the running
daemon (`main.cpp:109`).

## The proofs

`SessionLockProofs`, for every set of commands and both builds
(`CommandsAssumption` gives the types of the constants):

| Theorem | Statement |
|---|---|
| `TypeCorrect` | `Spec => []TypeOK` |
| `Exclusion` | `Spec => []ExclusiveUnlessForced` |
| `BusyTruth` | `Spec => []BusyIsHonest` |
| `ResetTruth` | `Spec => []ResetOkEndsSession` |
| `StatusTruth` | `Spec => []StatusNamesHolder` |
| `SessionEnding` | `Spec => SessionEndsByOwnerOrForce` |
| `Implementation` | `Spec => ImplementsAbs` |

None of the properties is inductive. `IInv` adds what a thread's place in its
code says: `Control` ties `pc[t]` to the thread and to the kind of its command;
`Knows` says what the thread has seen: the current owner is always in `held[t]`
of a thread in a call, a thread that runs a `LOCAL` or `WORK` command owns the
lock unless it was robbed, and one at `owner` or `status3` has had a value in
`held[t]` that explains the answer it may give; `StatusKnows` does the same for
the name in `status`. There is one step per action, and the invariants follow
from `IInv` directly. `Implementation` maps each step: taking or continuing the
lock is `Grant`, the end of a command `Finish`, a release `Release`, a force
`Force`, and `Stutters` shows that the rest changes nothing of the abstract
state.

`FlashOpProofs`, for any number of submissions and with or without failing
allocations (`FlashAssumption`); `TypeCorrect` for any set of callers, the rest
for one, which is what the session lock lets through unless it is forced
(`OneCaller`; with two callers and two submissions TLC refutes each of the other
six, so after a force release none of them may be relied on):

| Theorem | Statement |
|---|---|
| `TypeCorrect` | `Spec => []TypeOK` |
| `ResultTruth` | `OneCaller /\ Spec => []ResultIsHonest` |
| `NoPendingTruth` | `OneCaller /\ Spec => []NoPendingIsHonest` |
| `TimeoutTruth` | `OneCaller /\ Spec => []TimeoutIsHonest` |
| `OneScriptAtATime` | `OneCaller /\ Spec => []OneScriptUnlessDoomed` |
| `ReportOnce` | `OneCaller /\ Spec => ReportedOnce` |
| `OrderlyExit` | `OneCaller /\ Spec => ExitIsOrderly` |

Even the types need `Started` and `Reading` (a handler that is about to spawn has
a submission; a worker reads from a script that exists). `Inv(t)` says that the
caller has stopped with the daemon (`Stopped`), has submitted over a thread that
nobody joined and is about to terminate it (`Overrun`), or finds everything in
order (`Good`): only the worker of the last submission is active and its handle
is in `worker` (`Workers`); `running` says whether it has begun and `done` only
that it has nearly ended (`Flags`); output and exit code are its own (`Result`);
it is reported at most once, and one that has ended is `done` until it is
(`Reports`); and what a poll has read so far agrees with that (`Answered`).
`StoppedStep`, `OverrunStep` and, for `Good`, `WorkerGood`, `ReadGood`,
`WriteGood` and `OtherGood` show that each kind of step keeps it.

`UploadProtocolProofs`, for every set of names, frames and digests, uploads of
any length, any `LenModulus` and any disk faults (`UploadAssumption`, which also
says that nobody calls a file like the temporary file of another):

| Theorem | Statement |
|---|---|
| `TypeCorrect` | `Spec => []TypeOK` |
| `HashCorrect` | `Spec => []HashMatchesFile` |
| `OnlyDoneChangesFiles` | `Spec => FilesChangeOnlyByDone` |
| `TmpOfUpload` | `Spec => []TmpOnlyDuringUpload` |
| `Implementation` | `Spec => ImplementsStore` |

`IInv` adds to the types and `HashMatchesFile` that the temporary file of an
active upload is there (`TmpExists`); without it a frame would have nothing to
be appended to. The lemmas on sequences say what a short write, a lost buffer
and an append make of a content. `Implementation` maps PREUPLOAD to `Announce`,
the successful UPLOADDONE to `Commit`, or to `Spoil` if the disk had failed in
that upload, every other end of an upload and a crash to `Abandon`, and shows
that the rest stutters.

`UploadSessionProofs`, for any number of sides, every set of names, frames and
digests, uploads of any length and any disk faults (`SessionAssumption`: no side
is called `NONE`, temporary files are not called like firmware files or like one
another):

| Theorem | Statement |
|---|---|
| `SessionTypeCorrect` | `Spec => []TypeOK` |
| `ActiveHasFile` | `Spec => []ActiveMeansOpen` |
| `TmpOfActiveOnly` | `Spec => []TmpOnlyDuringUpload` |
| `FramesOfOneSide` | `Spec => []OneSidePerUpload` |
| `HandlersAreAtomic` | `Spec => ImplementsProtocol` |
| `OnlyDoneChangesFiles` | `Spec => FilesChangeOnlyByDone` |
| `SessionHash` | `Spec => []Protocol!HashMatchesFile` |
| `SessionStore` | `Spec => Protocol!ImplementsStore` |

The inductive invariant `DataInv` has two parts besides the types. `RestInv`
says what is true when no handler runs: active, an open file and a temporary
file come together, and the file has at least the bytes that were counted.
`MidInv` says that a handler is alone until two have met, and `Mid(t)` what it
knows at each of its steps, relative to `rest`, the state it found: before it
changes anything, that all is as it was (`Same`); between `fwrite()` and the
update of the digest, that the file alone has the frame; after `fclose()`, that
the file has kept `k` bytes, and all of them unless the disk failed
(`ClosedAt`); before the state is reset, that a file was saved, or why not
(`Failed`). With that, an answer settles into a step of UploadProtocol: one
lemma per step of a handler (`FrameWriteRefines` and so on); all other steps
stutter. `SideInv` adds who runs it: a protected command is that of the holder
of the lock, and the upload belongs to the holder as long as no session has
ended since it began.

`TmpOfActiveOnly` and `OnlyDoneChangesFiles` hold at every step, not only between
handlers. The first is kept step by step (`TmpOfPreupload` to `TmpOfReset`):
a handler that is alone touches one temporary file (`OtherTmps`), and the reset
that ends an upload comes after its `rename()`, its `unlink()` or a failure of
the latter. For the second, `OtherStepsTouchNone` leaves `rename()` as the only
step that changes a firmware file, and `RenamePublishes` shows that it comes after
both checks and that the file is whole (`CutIsClosed` says what `fclose()` may
have lost). `SessionHash` and `SessionStore` are those of UploadProtocolProofs
under the mapping (the instance `Proved`), after `ProtocolAssumed` has shown
that its constants meet `UploadAssumption`.

`HttpUploadProofs`, for any number of requests, names, seconds and pieces, and any
disk faults (`HttpAssumption`):

| Theorem | Statement |
|---|---|
| `HttpTypeCorrect` | `Spec => []TypeOK` |
| `FilesAreWhole` | `Spec => []FileIsWholeUpload` |
| `TmpIsAccounted` | `Spec => []TmpAccounted` |
| `FilesChangeOnlyByAnswers` | `Spec => FilesChangeOnlyByOk` |

`FileIsWholeUpload` speaks of firmware files; the argument is about open `FILE`s
and inodes. `HttpInv` adds `PhaseInv` (a `FILE` is open only before the answer),
`DirInv` (an inode has one path at a time, and everybody who ever opened it knew
it by the same temporary path), `SharedInv` (two open `FILE`s on one temporary
path are recorded in `spoilt`; otherwise that path leads to the inode of the
`FILE`, and no firmware name does), `BytesInv` (what was received is what is in
the inode followed by the buffer) and `TmpInv`. So the rename of an unspoilt
`FILE` publishes all that was sent, and what any other `FILE` does cannot reach
it.

`SerialLineProofs`, for lines of any number and length (`LineAssumption`):

| Theorem | Statement |
|---|---|
| `LinkTypeCorrect` | `Spec => []TypeOK` of SerialLink |
| `ShutdownSafe` | `Spec => []ShutdownLeavesNothing` of SerialLink |
| `LineImplementsLink` | `LineSpec => FairSpec` |
| `LineTypeCorrect` | `LineSpec => []LineTypeOK` |
| `WholeLines` | `LineSpec => []LineIsWhole` |
| `OrderedLines` | `LineSpec => []LinesInOrder` |

`LinkInv` ties `io_mutex_` to the thread that is inside a critical section, and
says how far the reader and the HTTP server can be when the main thread is at a
given place; the join is what makes nothing come after it. By
`LineImplementsLink` all this holds of SerialLine too. `LineInv` adds that the
bytes on the wire follow one another and end before the next one the device
sends (`WireInv`), that the buffer is one piece of one line whose continuation is
what comes next (`TextInv`), and that the rest of a line comes only if its
beginning is in the buffer or was dropped and recorded in `torn` (`TornInv`).

`Md5StreamProofs` and `ChecksumsProofs`, for messages and frames of any length
(`Md5Assumption`, `CrcAssumption`):

| Theorem | Statement |
|---|---|
| `NoByteLost` | `Md5Init /\ [][Md5Next]_md5vars => []NothingLost` |
| `DigestIsRight` | `Md5Init /\ [][Md5Next]_md5vars => []DigestIsOfMessage` |
| `CrcByDefinition` | `Spec => []CrcIsRemainder` |
| `NoiseChangesCrc` | `Spec => []NoiseIsSeen` |

`StreamKeepsAll` and `DigestOfMessage` carry the first two over to the
specification of both checksums. `StreamInv` says that the blocks hashed so far
and the buffer up to its index are the message so far; the lemmas on `Update`,
`PadLen` and the padding follow the arithmetic of the block loop. For the CRC, a
shift of the register is linear and loses nothing (`ShiftLinear`,
`ShiftInjective`), so the difference of two registers develops by itself.
`NoiseInv` follows it from the first wrong bit: after the byte with that bit, the
difference is that byte, shifted; after the next one, it is none that the bits
which the burst may still reach could cancel (`BurstDiffers`: such a word,
shifted back, would have to have a bit below those); and once the burst is over
it is not zero, and stays so. A step of the long division that defines the
remainder is a shift of the register (`DivideShifts`), and dividing a frame with
a byte appended is dividing the frame first (`RemainderUpper`); so the register
holds the remainder (`UpdateIsDivision`).

`Remainder` is a recursive function over a range of degrees. The library's
induction theorems take an operator as a parameter and cannot be instantiated by
the installed provers; `Induction` in ChecksumsProofs states the principle for a
set of numbers instead, and is proved from the well-foundedness of `<`. With it
`AlwaysDivisible` shows that every division is defined and has one result,
whatever the degree.

Only model-checked: the liveness properties (`LockNeverBlocks`,
`BecomesReportable`, `ShutdownCompletes`, `ClosedPortIsReopened`,
`CompleteIsAnswered`), which lie outside what the prover handles. Every safety
and action property of a passing run is a theorem; those of FlashOp other than
`TypeOK` for one caller only, as said above.

## Not modelled

- Exec, reboot and version keep no state of the daemon; the configuration is read
  before any thread starts; the logger is a mutex around a file that nothing
  depends on, and always the innermost lock.
- `daemonize()` and the PID file: a sequence of system calls at start; the one
  disagreement found there is named above.
- The 64 rounds of `MD5::transform()`, a fixed formula without state of its own.
- The bytes of script output, and with them the exception of `json::dump()` for
  output that is not UTF-8 (`handler_command.cpp:82`).
- The collection of the body of a command request, routing, and the answers of
  routes that touch neither the lock nor files; `STATUS`, `HELP` and `VERIFY`
  keep no state.
- File names that are spelled like temporary files, in both kinds of upload.
- Hung scripts as a liveness matter: the join in `cancel()` then waits for ever.

## Plan

Done, in this order: SessionLock with SessionAbs and its proofs; FlashOp;
UploadProtocol with FirmwareStore; SerialLink; UploadSession; HttpUpload;
SerialLine; Checksums; the proofs of UploadProtocol and FlashOp; those of
SerialLine, Md5Stream, HttpUpload, UploadSession and the CRC.

Next, if the project goes on:

1. What of FlashOp holds for any number of callers as long as nobody submits
   over a running operation.
2. SessionLock and UploadSession as one composed specification, so that the
   instance of SessionAbs in the latter follows from `Implementation`.
