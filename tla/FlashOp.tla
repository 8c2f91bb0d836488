------------------------------ MODULE FlashOp ------------------------------
(***************************************************************************)
(* The asynchronous flash of handler_flash.cpp: AT+FLASH starts a worker   *)
(* thread that runs one flash script, AT+TRYFLASHDONE polls it through the *)
(* static FlashOp.  Every access to running, done, start_time and worker   *)
(* is a step of its own, so handlers, workers and scripts interleave as in *)
(* the program.  A job is the number of a submission and stands for its    *)
(* command line; argument checks and the wording of answers are left out.  *)
(***************************************************************************)
EXTENDS Naturals

CONSTANTS Callers,    \* threads that run AT commands.  One of them is what the
                      \* session lock lets through, two what a force allows.
          MaxJobs,    \* bound on submissions
          MayThrow    \* TRUE: allocation and thread creation may fail

ASSUME FlashAssumption == MaxJobs \in Nat /\ MayThrow \in BOOLEAN

Jobs  == 1..MaxJobs
NoJob == 0

VARIABLES
  op,        \* the FlashOp
  wpc,       \* wpc[j]: the next access of the worker thread of job j
  script,    \* script[j]: the script process of job j
  pc,        \* pc[t]: the next access of the handler of thread t
  mine,      \* mine[t]: the job it submits, or whose result it hands out
  reply,     \* reply[t]: its answer
  overdue,   \* history: 60 seconds have passed since the submission
  early,     \* history: the callers whose poll came before the worker's write
  reported   \* history: the jobs whose result was handed out

handlers == <<pc, mine, reply>>
ghosts   == <<overdue, early, reported>>
vars     == <<op, wpc, script, handlers, ghosts>>

FlashState ==
  [running : BOOLEAN, done : BOOLEAN,
   job     : Jobs \union {NoJob},        \* cmd
   exit    : {"none", "ok", "fail"},     \* exit_code, "none" is -1
   output  : SUBSET Jobs,                \* the jobs whose text it holds
   old     : BOOLEAN,                    \* start_time lies 60 seconds back
   worker  : Jobs \union {NoJob}]        \* the joinable thread

WorkerSteps == {"absent", "begin", "clock", "popen", "read", "exit", "done",
                "clear", "gone"}
HandlerSteps == {"idle", "check", "reset", "spawn", "assign", "running", "nodone",
                 "done", "elapsed", "cancel", "cancelled", "result", "join",
                 "clear", "reply", "dead", "aborted", "exited"}
Answers == {"none", "badarg", "inprogress", "submitted",
            "nopending", "RUNNING", "TIMEOUT", "OK", "ERROR"}

TypeOK ==
  /\ op \in FlashState
  /\ wpc \in [Jobs -> WorkerSteps]
  /\ script \in [Jobs -> {"none", "alive", "ok", "fail", "killed"}]
  /\ pc \in [Callers -> HandlerSteps]
  /\ mine \in [Callers -> Jobs \union {NoJob}]
  /\ reply \in [Callers -> Answers]
  /\ overdue \in BOOLEAN /\ early \subseteq Callers /\ reported \subseteq Jobs

(* The initial start_time is the epoch of the steady clock, which may well  *)
(* lie a minute back.                                                       *)
Init ==
  /\ \E o \in BOOLEAN :
       op = [running |-> FALSE, done |-> FALSE, job |-> NoJob, exit |-> "none",
             output |-> {}, old |-> o, worker |-> NoJob]
  /\ wpc = [j \in Jobs |-> "absent"]
  /\ script = [j \in Jobs |-> "none"]
  /\ pc = [t \in Callers |-> "idle"]
  /\ mine = [t \in Callers |-> NoJob]
  /\ reply = [t \in Callers |-> "none"]
  /\ overdue = FALSE /\ early = {} /\ reported = {}

(* One access of the handler of t, leaving FlashOp as o.                    *)
Handler(t, p, q, o) ==
  /\ pc[t] = p
  /\ pc' = [pc EXCEPT ![t] = q]
  /\ op' = o
  /\ UNCHANGED <<wpc, script, mine, reply, ghosts>>

Answer(t, p, r, o) ==
  /\ pc[t] = p
  /\ pc' = [pc EXCEPT ![t] = "reply"]
  /\ reply' = [reply EXCEPT ![t] = r]
  /\ op' = o
  /\ UNCHANGED <<wpc, script, mine, ghosts>>

(* The process ends, and its threads with it; the scripts live on.          *)
End(how) ==
  /\ pc' = [t \in Callers |-> how]
  /\ wpc' = [j \in Jobs |-> "absent"]
  /\ UNCHANGED <<op, script, mine, reply, ghosts>>

Terminate == End("dead")      \* std::terminate

-----------------------------------------------------------------------------
(* AT+FLASH                                                                *)

Submit(t) == op.job < MaxJobs /\ Handler(t, "idle", "check", op)

(* No file name, or a mode without a script.                                *)
SubmitBadArgument(t) == Answer(t, "check", "badarg", op)

SubmitCheck(t) ==
  IF op.running THEN Answer(t, "check", "inprogress", op)
                ELSE Handler(t, "check", "reset", op)

(* The new command and the cleared result.                                  *)
Reset(t, o) ==
  /\ pc[t] = "reset"
  /\ o.job < MaxJobs
  /\ op' = [o EXCEPT !.job = @ + 1, !.output = {}, !.exit = "none"]
  /\ mine' = [mine EXCEPT ![t] = o.job + 1]
  /\ pc' = [pc EXCEPT ![t] = "spawn"]
  /\ overdue' = FALSE
  /\ UNCHANGED <<wpc, script, reply, early, reported>>

(* Mutant: the previous result is not marked as taken.                      *)
SubmitReset_KeepDone(t) == Reset(t, op)
SubmitReset(t) == Reset(t, [op EXCEPT !.done = FALSE])

(* The temporary std::thread: from here on the worker runs.                 *)
SubmitSpawn(t) ==
  /\ pc[t] = "spawn"
  /\ pc' = [pc EXCEPT ![t] = "assign"]
  /\ wpc' = [wpc EXCEPT ![mine[t]] = "begin"]
  /\ UNCHANGED <<op, script, mine, reply, ghosts>>

(* The constructor of std::thread throws and nobody catches it.             *)
SpawnThrows(t) == MayThrow /\ pc[t] = "spawn" /\ Terminate

(* Move assignment to a handle that nobody has joined is std::terminate.    *)
SubmitAssign(t) ==
  IF op.worker = NoJob
    THEN Answer(t, "assign", "submitted", [op EXCEPT !.worker = mine[t]])
    ELSE pc[t] = "assign" /\ Terminate

-----------------------------------------------------------------------------
(* The worker thread and its script                                        *)

(* One access of the worker of j, leaving FlashOp as o.                     *)
Worker(j, p, q, o) ==
  /\ wpc[j] = p
  /\ wpc' = [wpc EXCEPT ![j] = q]
  /\ op' = o
  /\ UNCHANGED <<script, handlers, ghosts>>

WorkerBegin(j) == Worker(j, "begin", "clock", [op EXCEPT !.running = TRUE])

(* Mutant: the new operation keeps the start time of the one before it.     *)
WorkerClock_Keep(j) == Worker(j, "clock", "popen", op)
WorkerClock(j) == Worker(j, "clock", "popen", [op EXCEPT !.old = FALSE])

WorkerPopen(j) ==
  /\ wpc[j] = "popen"
  /\ wpc' = [wpc EXCEPT ![j] = "read"]
  /\ script' = [script EXCEPT ![j] = "alive"]
  /\ UNCHANGED <<op, handlers, ghosts>>

(* Mutant: a failure of popen() only clears running.                        *)
PopenFails_NoDone(j) == Worker(j, "popen", "clear", op)
PopenFails(j) == Worker(j, "popen", "done", op)

(* fgets() until the script closes its end, and pclose().                   *)
WorkerRead(j) ==
  script[j] # "alive" /\ Worker(j, "read", "exit", [op EXCEPT !.output = @ \union {j}])

(* output outgrows memory: the pipe, and the script, stay open.             *)
WorkerThrows(j) ==
  MayThrow /\ Worker(j, "read", "done", [op EXCEPT !.exit = "none"])

(* WEXITSTATUS does not look at the signal that killed a process: a killed  *)
(* script exits "ok" if the shell of popen() has replaced itself by it, and *)
(* with the 128 + n of the shell otherwise.                                 *)
WEXITSTATUS(r) == IF r = "killed" THEN {"ok", "fail"} ELSE {r}

(* Mutant: the wait status is stored without WEXITSTATUS.                   *)
WorkerExit_Raw(j) == Worker(j, "exit", "done", [op EXCEPT !.exit = "status"])
WorkerExit(j) ==
  \E e \in WEXITSTATUS(script[j]) : Worker(j, "exit", "done", [op EXCEPT !.exit = e])

WorkerDone(j) == Worker(j, "done", "clear", [op EXCEPT !.done = TRUE])
WorkerClear(j) == Worker(j, "clear", "gone", [op EXCEPT !.running = FALSE])

(* The script ends well or badly, is killed, or goes on.                    *)
ScriptEnds(j) ==
  /\ script[j] = "alive"
  /\ \E r \in {"ok", "fail", "killed"} : script' = [script EXCEPT ![j] = r]
  /\ UNCHANGED <<op, wpc, handlers, ghosts>>

MinutePasses ==
  /\ op' = [op EXCEPT !.old = TRUE]
  /\ overdue' = TRUE
  /\ UNCHANGED <<wpc, script, handlers, early, reported>>

-----------------------------------------------------------------------------
(* AT+TRYFLASHDONE                                                         *)

Poll(t) == Handler(t, "idle", "running", op)

(* The worker of the last submission has yet to take a step of W.           *)
Waits(W) == op.job # NoJob /\ wpc[op.job] \in W

(* !running && !done, loaded in this order.                                 *)
PollRunning(t) ==
  /\ pc[t] = "running"
  /\ pc' = [pc EXCEPT ![t] = IF op.running THEN "done" ELSE "nodone"]
  /\ early' = IF Waits({"begin"}) THEN early \union {t} ELSE early \ {t}
  /\ UNCHANGED <<op, wpc, script, mine, reply, overdue, reported>>

PollNoDone(t) ==
  IF op.done THEN Handler(t, "nodone", "done", op)
             ELSE Answer(t, "nodone", "nopending", op)

PollDone(t) == Handler(t, "done", IF op.done THEN "result" ELSE "elapsed", op)

(* start_time is no atomic: read while a worker writes it, it is any time.  *)
PollElapsed(t) ==
  /\ pc[t] = "elapsed"
  /\ \E late \in IF \E j \in Jobs : wpc[j] = "clock" THEN BOOLEAN ELSE {op.old} :
       /\ pc' = [pc EXCEPT ![t] = IF late THEN "cancel" ELSE "reply"]
       /\ reply' = [reply EXCEPT ![t] = IF late THEN @ ELSE "RUNNING"]
  /\ early' = IF Waits({"begin", "clock"}) THEN early \union {t} ELSE early
  /\ UNCHANGED <<op, wpc, script, mine, overdue, reported>>

(* if (worker.joinable()) worker.join()                                     *)
CanJoin == op.worker # NoJob => wpc[op.worker] = "gone"

(* Mutant: cancel() detaches a worker that takes too long.                  *)
CancelJoin_Detach(t) ==
  Handler(t, "cancel", "cancelled", [op EXCEPT !.worker = NoJob])
CancelJoin(t) ==
  CanJoin /\ Handler(t, "cancel", "cancelled", [op EXCEPT !.worker = NoJob])

CancelFlags(t) ==
  Answer(t, "cancelled", "TIMEOUT", [op EXCEPT !.running = FALSE, !.done = TRUE])

(* The answer is put together first ...                                     *)
PollResult(t) ==
  /\ pc[t] = "result"
  /\ pc' = [pc EXCEPT ![t] = "join"]
  /\ reply' = [reply EXCEPT ![t] = IF op.exit = "ok" THEN "OK" ELSE "ERROR"]
  /\ mine' = [mine EXCEPT ![t] = op.job]
  /\ UNCHANGED <<op, wpc, script, ghosts>>

(* ... then the worker is joined and the operation reset.                   *)
(* Mutant: a poll that finds the result does not join the worker.           *)
PollJoin_Skip(t) == Handler(t, "join", "clear", op)
PollJoin(t) ==
  CanJoin /\ Handler(t, "join", "clear", [op EXCEPT !.worker = NoJob])

Clear(t, o) ==
  /\ pc[t] = "clear"
  /\ pc' = [pc EXCEPT ![t] = "reply"]
  /\ op' = o
  /\ reported' = reported \union {mine[t]}
  /\ UNCHANGED <<wpc, script, mine, reply, overdue, early>>

(* Mutant: done survives the poll that hands the result out.                *)
PollClear_KeepDone(t) == Clear(t, [op EXCEPT !.running = FALSE])
PollClear(t) == Clear(t, [op EXCEPT !.running = FALSE, !.done = FALSE])

(* std::thread::join() of a thread that another caller is joining.          *)
DoubleJoin(t) ==
  /\ pc[t] \in {"cancel", "join"} /\ op.worker # NoJob
  /\ \E u \in Callers \ {t} : pc[u] \in {"cancel", "join"}
  /\ Terminate

Return(t) ==
  /\ pc[t] = "reply"
  /\ pc' = [pc EXCEPT ![t] = "idle"]
  /\ mine' = [mine EXCEPT ![t] = NoJob]
  /\ reply' = [reply EXCEPT ![t] = "none"]
  /\ UNCHANGED <<op, wpc, script, ghosts>>

(* main() stops the server and the reader, so that no handler runs, and     *)
(* returns; ~FlashOp() ends in std::terminate over a joinable thread.       *)
Exit ==
  /\ \A t \in Callers : pc[t] = "idle"
  /\ End(IF op.worker = NoJob THEN "exited" ELSE "aborted")

HandlerStep(t) ==
  \/ SubmitBadArgument(t) \/ SubmitCheck(t) \/ SubmitReset(t)
  \/ SubmitSpawn(t) \/ SpawnThrows(t) \/ SubmitAssign(t)
  \/ PollRunning(t) \/ PollNoDone(t) \/ PollDone(t) \/ PollElapsed(t)
  \/ CancelJoin(t) \/ CancelFlags(t)
  \/ PollResult(t) \/ PollJoin(t) \/ PollClear(t) \/ DoubleJoin(t)
  \/ Return(t)

(* Mutant: running is cleared before done is set.                           *)
WorkerStep_Swapped(j) ==
  \/ WorkerBegin(j) \/ WorkerClock(j) \/ WorkerPopen(j) \/ PopenFails(j)
  \/ WorkerRead(j) \/ WorkerThrows(j) \/ WorkerExit(j)
  \/ Worker(j, "done", "clear", [op EXCEPT !.running = FALSE])
  \/ Worker(j, "clear", "gone", [op EXCEPT !.done = TRUE])

WorkerStep(j) ==
  \/ WorkerBegin(j) \/ WorkerClock(j) \/ WorkerPopen(j) \/ PopenFails(j)
  \/ WorkerRead(j) \/ WorkerThrows(j) \/ WorkerExit(j)
  \/ WorkerDone(j) \/ WorkerClear(j)

Next ==
  \/ \E t \in Callers : Submit(t) \/ Poll(t) \/ HandlerStep(t)
  \/ \E j \in Jobs : WorkerStep(j) \/ ScriptEnds(j)
  \/ MinutePasses \/ Exit

Spec == Init /\ [][Next]_vars

(* Threads run; clients need not poll, a script may hang.                   *)
FairSpec ==
  /\ Spec
  /\ \A t \in Callers : WF_vars(HandlerStep(t))
  /\ \A j \in Jobs : WF_vars(WorkerStep(j))

(* Flash scripts end.                                                       *)
EndingSpec == FairSpec /\ \A j \in Jobs : WF_vars(ScriptEnds(j))

-----------------------------------------------------------------------------
(* Properties                                                              *)

Alive(j) == script[j] = "alive"
Ended(how) == \E t \in Callers : pc[t] = how
Dead       == \E how \in {"dead", "aborted", "exited"} : Ended(how)

(* A submission has passed the running check over a thread nobody joined:   *)
(* its assignment will end the daemon.                                      *)
Doomed ==
  \/ Dead
  \/ \E t \in Callers : pc[t] \in {"reset", "spawn", "assign"} /\ op.worker # NoJob

(* Two flash scripts never run together, except in a daemon on its way to   *)
(* std::terminate and for a script whose worker had to leave it behind.  It *)
(* is the join in cancel() that ensures it.                                 *)
OneScriptUnlessDoomed ==
  \A j, k \in Jobs :
    j # k /\ Alive(j) /\ Alive(k) /\ wpc[j] = "read" /\ wpc[k] = "read" => Doomed

(* A result handed out is that of the last submission, complete and alone:  *)
(* no output or exit code of an earlier operation, none that is unfinished. *)
(* An ERROR without an exit code is that of a worker that caught something. *)
ResultIsHonest ==
  \A t \in Callers :
    /\ reply[t] = "OK" =>
         script[mine[t]] \in {"ok", "killed"} /\ op.output = {mine[t]}
    /\ reply[t] = "ERROR" =>
         /\ op.output \subseteq {mine[t]}
         /\ wpc[mine[t]] \in {"clear", "gone"}
         /\ script[mine[t]] \in {"none", "fail", "killed"} \/ op.exit = "none"

(* "no pending" is answered only when every submission has had its result   *)
(* handed out, or when the worker had not begun at the time of the poll.    *)
(* It depends on done being set before running is cleared.                  *)
NoPendingIsHonest ==
  \A t \in Callers :
    reply[t] = "nopending" => op.job \in reported \union {NoJob} \/ t \in early

(* The result of an operation is handed out at most once.                   *)
ReportedOnce ==
  [][\A t \in Callers :
       pc[t] = "result" /\ pc'[t] = "join" => mine'[t] \notin reported]_vars

(* Once its script ends, every operation becomes reportable, popen()        *)
(* failures included, unless the daemon dies or a new one replaces it.      *)
BecomesReportable ==
  \A j \in Jobs :
    wpc[j] = "begin" ~> op.done \/ j \in reported \/ op.job # j \/ Dead

(* at_commands.md:143: only one concurrent flash, a second submission while *)
(* one runs is an error.                                                    *)
OneScript == \A j, k \in Jobs : Alive(j) /\ Alive(k) => j = k

(* at_commands.md:138-139: a submission that finds running cleared is       *)
(* launched and answered OK; it does not meet the thread of an operation    *)
(* that is complete.                                                        *)
CompleteAllowsSubmit ==
  [][\A t \in Callers :
       pc[t] = "check" /\ pc'[t] = "reset" =>
         ~ (op.worker # NoJob /\ wpc[op.worker] = "gone")]_vars

(* TIMEOUT is answered only once a minute has passed since the submission,  *)
(* or when the poll read start_time before the worker had written it: no    *)
(* other poll judges an operation by the start time of an earlier one.      *)
TimeoutIsHonest ==
  \A t \in Callers : reply[t] = "TIMEOUT" => overdue \/ t \in early

(* When main() returns, either no worker is left that would go on to use    *)
(* the destroyed FlashOp, or the process ends in std::terminate, and that   *)
(* only over an operation whose result nobody fetched.                      *)
ExitIsOrderly ==
  [][/\ Ended("exited")' /\ ~Ended("exited")
          => \A j \in Jobs : wpc[j] \in {"absent", "gone"}
     /\ Ended("aborted")' => op.job \notin reported]_vars
=============================================================================
