---------------------------- MODULE FlashOpProofs ----------------------------
(***************************************************************************)
(* Proofs about FlashOp for any number of submissions, with and without    *)
(* failing allocations: type correctness for any set of callers, and for   *)
(* the one caller that the session lock lets through, that its answers are *)
(* true.                                                                   *)
(***************************************************************************)
EXTENDS FlashOp, TLAPS

(* Nothing is running, reported or joined before the first submission.      *)
Started ==
  /\ op.job = NoJob =>
       ~op.running /\ ~op.done /\ \A j \in Jobs : wpc[j] = "absent"
  /\ \A t \in Callers :
       /\ pc[t] \in {"spawn", "assign", "done", "elapsed", "cancel", "cancelled", "result"}
            => op.job # NoJob
       /\ pc[t] \in {"spawn", "join", "clear"} => mine[t] # NoJob

(* A worker reads from the pipe until its script has ended.                 *)
Reading ==
  \A j \in Jobs :
    /\ wpc[j] = "read" => script[j] # "none"
    /\ wpc[j] = "exit" => script[j] \in {"ok", "fail", "killed"}

TypeInv == TypeOK /\ Started /\ Reading

-----------------------------------------------------------------------------
(* Writes to FlashOp. *)

(* To one field.                                                            *)
LEMMA Write ==
  ASSUME NEW o \in FlashState
  PROVE  /\ \A b \in BOOLEAN : /\ [o EXCEPT !.running = b] \in FlashState
                               /\ [o EXCEPT !.done = b] \in FlashState
                               /\ [o EXCEPT !.old = b] \in FlashState
         /\ \A j \in Jobs \union {NoJob} : [o EXCEPT !.worker = j] \in FlashState
         /\ \A e \in {"none", "ok", "fail"} : [o EXCEPT !.exit = e] \in FlashState
         /\ \A s \in SUBSET Jobs : [o EXCEPT !.output = s] \in FlashState
  BY DEF FlashState

(* To both flags, at the end of an operation.                               *)
LEMMA WriteFlags ==
  ASSUME TypeOK, NEW b \in BOOLEAN, op' = [op EXCEPT !.running = FALSE, !.done = b]
  PROVE  /\ op' \in FlashState
         /\ op'.running = FALSE /\ op'.done = b
         /\ op'.job = op.job /\ op'.exit = op.exit /\ op'.output = op.output
         /\ op'.old = op.old /\ op'.worker = op.worker
<1>. DEFINE o1 == [op EXCEPT !.running = FALSE]
<1>1. /\ o1 \in FlashState /\ o1.running = FALSE
      /\ o1.job = op.job /\ o1.exit = op.exit /\ o1.output = op.output
      /\ o1.old = op.old /\ o1.worker = op.worker
  BY DEF TypeOK, FlashState
<1>2. op' = [o1 EXCEPT !.done = b]
  OBVIOUS
<1>. HIDE DEF o1
<1>. QED BY <1>1, <1>2 DEF FlashState

(* What a submission resets.                                                *)
LEMMA WriteReset ==
  ASSUME TypeOK, NEW t \in Callers, SubmitReset(t)
  PROVE  /\ op' \in FlashState /\ op.job + 1 \in Jobs
         /\ op'.job = op.job + 1 /\ op'.done = FALSE
         /\ op'.output = {} /\ op'.exit = "none"
         /\ op'.running = op.running /\ op'.old = op.old /\ op'.worker = op.worker
<1>. DEFINE o1 == [op EXCEPT !.done = FALSE]
            o2 == [o1 EXCEPT !.job = op.job + 1]
            o3 == [o2 EXCEPT !.output = {}]
<1>1. /\ o1 \in FlashState /\ o1.done = FALSE /\ o1.job = op.job
      /\ o1.running = op.running /\ o1.old = op.old /\ o1.worker = op.worker
  BY DEF TypeOK, FlashState
<1>2. o1.job < MaxJobs /\ op' = [o3 EXCEPT !.exit = "none"]
  BY <1>1 DEF SubmitReset, Reset
<1>. HIDE DEF o1
<1>3. op.job + 1 \in Jobs
  BY <1>1, <1>2, FlashAssumption DEF FlashState, Jobs, NoJob
<1>4. /\ o2 \in FlashState /\ o2.done = FALSE /\ o2.job = op.job + 1
      /\ o2.running = op.running /\ o2.old = op.old /\ o2.worker = op.worker
  BY <1>1, <1>3 DEF FlashState
<1>. HIDE DEF o2
<1>5. /\ o3 \in FlashState /\ o3.done = FALSE /\ o3.job = op.job + 1
      /\ o3.output = {}
      /\ o3.running = op.running /\ o3.old = op.old /\ o3.worker = op.worker
  BY <1>4 DEF FlashState
<1>. HIDE DEF o3
<1>. QED BY <1>2, <1>3, <1>5 DEF FlashState

-----------------------------------------------------------------------------

(* Every step keeps the types and what Started and Reading say.              *)
LEMMA TypeStep == TypeInv /\ [Next]_vars => TypeInv'
<1>. SUFFICES ASSUME TypeInv, [Next]_vars PROVE TypeInv'
  OBVIOUS
<1>. USE FlashAssumption DEF TypeInv, Started, Reading, TypeOK, handlers, ghosts
<1>1. ASSUME NEW t \in Callers, Submit(t) \/ SubmitCheck(t) \/ Poll(t) \/ PollDone(t)
      PROVE  TypeInv'
  BY <1>1 DEF Submit, SubmitCheck, Poll, PollDone, Handler, Answer, HandlerSteps, Answers
<1>2. ASSUME NEW t \in Callers, SubmitBadArgument(t) \/ PollNoDone(t)
      PROVE  TypeInv'
  BY <1>2 DEF SubmitBadArgument, PollNoDone, Handler, Answer, HandlerSteps, Answers
<1>3. ASSUME NEW how \in {"dead", "aborted", "exited"}, End(how)
      PROVE  TypeInv'
  BY <1>3 DEF End, WorkerSteps, HandlerSteps
<1>6. ASSUME NEW t \in Callers, SubmitReset(t)
      PROVE  TypeInv'
  <2>1. op' \in FlashState /\ op.job + 1 \in Jobs /\ op'.job = op.job + 1
    BY <1>6, WriteReset
  <2>2. op.job + 1 # NoJob
    BY <2>1 DEF Jobs, NoJob
  <2>3. mine' = [mine EXCEPT ![t] = op.job + 1]
    <3>1. [op EXCEPT !.done = FALSE].job = op.job
      BY DEF FlashState
    <3>. QED BY <1>6, <3>1 DEF SubmitReset, Reset
  <2>4. /\ pc' = [pc EXCEPT ![t] = "spawn"] /\ overdue' = FALSE
        /\ UNCHANGED <<wpc, script, reply, early, reported>>
    BY <1>6 DEF SubmitReset, Reset
  <2>. HIDE <1>6
  <2>. QED BY <2>1, <2>2, <2>3, <2>4 DEF HandlerSteps
<1>7. ASSUME NEW t \in Callers, SubmitSpawn(t)
      PROVE  TypeInv'
  BY <1>7 DEF SubmitSpawn, HandlerSteps, WorkerSteps
<1>8. ASSUME NEW t \in Callers, SpawnThrows(t) \/ DoubleJoin(t)
      PROVE  TypeInv'
  BY <1>3, <1>8 DEF SpawnThrows, DoubleJoin, Terminate
<1>9. ASSUME NEW t \in Callers, SubmitAssign(t)
      PROVE  TypeInv'
  <2>1. CASE op.worker = NoJob
    <3>1. op' = [op EXCEPT !.worker = mine[t]]
      BY <1>9, <2>1 DEF SubmitAssign, Answer
    <3>2. op' \in FlashState /\ op'.job = op.job /\ op'.running = op.running /\ op'.done = op.done
      BY <3>1 DEF FlashState
    <3>. QED BY <1>9, <2>1, <3>2 DEF SubmitAssign, Answer, HandlerSteps, Answers
  <2>2. CASE op.worker # NoJob
    BY <1>3, <1>9, <2>2 DEF SubmitAssign, Terminate
  <2>. QED BY <2>1, <2>2
<1>11. ASSUME NEW t \in Callers, PollRunning(t)
       PROVE  TypeInv'
  BY <1>11 DEF PollRunning, HandlerSteps
<1>12. ASSUME NEW t \in Callers, PollElapsed(t)
       PROVE  TypeInv'
  <2>1. /\ pc[t] = "elapsed" /\ op' = op /\ wpc' = wpc /\ script' = script /\ mine' = mine
        /\ overdue' = overdue /\ reported' = reported
        /\ early' \subseteq Callers
    BY <1>12 DEF PollElapsed
  <2>2. /\ \E q \in {"cancel", "reply"} : pc' = [pc EXCEPT ![t] = q]
        /\ \E r \in Answers : reply' = [reply EXCEPT ![t] = r]
    BY <1>12 DEF PollElapsed, Answers
  <2>. QED BY <2>1, <2>2 DEF HandlerSteps
<1>13. ASSUME NEW t \in Callers, CancelJoin(t) \/ PollJoin(t)
       PROVE  TypeInv'
  <2>1. op' = [op EXCEPT !.worker = NoJob]
    BY <1>13 DEF CancelJoin, PollJoin, Handler
  <2>2. op' \in FlashState /\ op'.job = op.job /\ op'.running = op.running /\ op'.done = op.done
    BY <2>1 DEF FlashState
  <2>. QED BY <1>13, <2>2 DEF CancelJoin, PollJoin, Handler, HandlerSteps
<1>14. ASSUME NEW t \in Callers, CancelFlags(t)
       PROVE  TypeInv'
  <2>0. op' = [op EXCEPT !.running = FALSE, !.done = TRUE]
    BY <1>14 DEF CancelFlags, Answer
  <2>1. op' \in FlashState /\ op'.job = op.job
    BY <2>0, WriteFlags
  <2>. QED BY <1>14, <2>1 DEF CancelFlags, Answer, HandlerSteps, Answers
<1>15. ASSUME NEW t \in Callers, PollClear(t)
       PROVE  TypeInv'
  <2>0. op' = [op EXCEPT !.running = FALSE, !.done = FALSE]
    BY <1>15 DEF PollClear, Clear
  <2>1. op' \in FlashState /\ op'.job = op.job /\ op'.running = FALSE /\ op'.done = FALSE
    BY <2>0, WriteFlags
  <2>2. pc[t] = "clear" /\ mine[t] \in Jobs
    BY <1>15 DEF PollClear, Clear
  <2>. QED BY <1>15, <2>1, <2>2 DEF PollClear, Clear, HandlerSteps
<1>16. ASSUME NEW t \in Callers, PollResult(t) \/ Return(t)
       PROVE  TypeInv'
  BY <1>16 DEF PollResult, Return, FlashState, HandlerSteps, Answers
<1>17. CASE Exit
  BY <1>3, <1>17 DEF Exit
<1>18. ASSUME NEW j \in Jobs, WorkerStep(j)
       PROVE  TypeInv'
  <2>1. /\ op' \in FlashState /\ op'.job = op.job /\ wpc' \in [Jobs -> WorkerSteps]
        /\ wpc[j] # "absent" /\ Reading'
        /\ script' \in [Jobs -> {"none", "alive", "ok", "fail", "killed"}]
    <3>1. CASE WorkerBegin(j) \/ WorkerClock(j) \/ PopenFails(j)
      BY <3>1 DEF WorkerBegin, WorkerClock, PopenFails, Worker, FlashState, WorkerSteps
    <3>2. CASE WorkerPopen(j)
      BY <3>2 DEF WorkerPopen, FlashState, WorkerSteps
    <3>3. CASE WorkerRead(j) \/ WorkerThrows(j)
      BY <3>3 DEF WorkerRead, WorkerThrows, Worker, FlashState, WorkerSteps
    <3>4. CASE WorkerExit(j)
      <4>1. wpc[j] = "exit"
        BY <3>4 DEF WorkerExit, Worker
      <4>2. WEXITSTATUS(script[j]) \subseteq {"ok", "fail"}
        BY <4>1 DEF WEXITSTATUS
      <4>3. PICK e \in {"ok", "fail"} : Worker(j, "exit", "done", [op EXCEPT !.exit = e])
        BY <3>4, <4>2 DEF WorkerExit
      <4>. QED BY <4>3 DEF Worker, FlashState, WorkerSteps
    <3>5. CASE WorkerDone(j) \/ WorkerClear(j)
      BY <3>5 DEF WorkerDone, WorkerClear, Worker, FlashState, WorkerSteps
    <3>. QED BY <1>18, <3>1, <3>2, <3>3, <3>4, <3>5 DEF WorkerStep
  <2>2. UNCHANGED <<handlers, ghosts>>
    BY <1>18
    DEF WorkerStep, WorkerBegin, WorkerClock, WorkerPopen, PopenFails, WorkerRead,
        WorkerThrows, WorkerExit, WorkerDone, WorkerClear, Worker
  <2>3. op.job # NoJob
    BY <2>1
  <2>. QED BY <2>1, <2>2, <2>3
<1>19. ASSUME NEW j \in Jobs, ScriptEnds(j)
       PROVE  TypeInv'
  BY <1>19 DEF ScriptEnds
<1>20. CASE MinutePasses
  <2>1. op' \in FlashState /\ op'.job = op.job /\ op'.running = op.running /\ op'.done = op.done
    BY <1>20 DEF MinutePasses, FlashState
  <2>. QED BY <1>20, <2>1 DEF MinutePasses
<1>21. CASE UNCHANGED vars
  BY <1>21 DEF vars
<1>. QED
  BY <1>1, <1>2, <1>6, <1>7, <1>8, <1>9, <1>11, <1>12, <1>13, <1>14, <1>15, <1>16,
     <1>17, <1>18, <1>19, <1>20, <1>21
  DEF Next, HandlerStep

(* The initial states have the types.                                        *)
LEMMA InitTyped == Init => TypeInv
<1>. SUFFICES ASSUME Init PROVE TypeInv
  OBVIOUS
<1>1. /\ op \in FlashState /\ op.running = FALSE /\ op.done = FALSE
  BY DEF Init, FlashState
<1>. QED BY <1>1 DEF Init, TypeInv, TypeOK, Started, Reading, WorkerSteps, HandlerSteps, Answers

(* FlashOp, the workers and the answers keep their types, whatever commands  *)
(* come together and whatever fails.                                         *)
THEOREM TypeCorrect == Spec => []TypeOK
<1>1. TypeInv => TypeOK
  BY DEF TypeInv
<1>. QED BY <1>1, InitTyped, TypeStep, PTL DEF Spec

-----------------------------------------------------------------------------
(* One caller t: what its answers rest on. *)

(* What a thread knows at each of its steps, whatever it has met.           *)
Handles(t) ==
  /\ pc[t] \in {"spawn", "assign", "join", "clear"} => mine[t] = op.job
  /\ reply[t] # "none" => pc[t] \in {"join", "clear", "reply"}
  /\ pc[t] = "aborted" => op.job \notin reported

Stopped(t) == pc[t] \in {"dead", "aborted", "exited"}

(* It has submitted over a thread that nobody has joined.                   *)
Overrun(t) == pc[t] \in {"reset", "spawn", "assign"} /\ op.worker # NoJob

Active == {"begin", "clock", "popen", "read", "exit", "done", "clear"}

(* Else only the worker of the last submission is active, running says      *)
(* whether it has begun, and done that it has nearly ended.                 *)
Workers(t) ==
  /\ op.worker \in {NoJob, op.job}
  /\ pc[t] \in {"reset", "spawn", "assign", "cancelled", "clear"} => op.worker = NoJob
  /\ \A j \in Jobs :
       wpc[j] \in Active => j = op.job /\ (op.worker = op.job \/ pc[t] = "assign")
  /\ \A j \in Jobs : j > op.job => wpc[j] = "absent" /\ script[j] = "none"
  /\ op.job # NoJob => (wpc[op.job] = "absent" <=> pc[t] = "spawn")

Flags(t) ==
  /\ op.running <=> Waits(Active \ {"begin"})
  /\ op.done => Waits({"clear", "gone"})
  /\ pc[t] \in {"elapsed", "cancel"} => op.worker = op.job
  /\ pc[t] = "done" => op.done \/ op.worker = op.job
  /\ pc[t] \in {"result", "join", "clear"} => op.done

(* The result in FlashOp is that of its last submission.                    *)
Result ==
  /\ \/ op.job = NoJob
     \/ Waits({"absent", "begin", "clock", "popen", "read"})
     => op.output = {} /\ op.exit = "none"
  /\ Waits({"exit"}) => op.output = {op.job} /\ op.exit = "none"
  /\ op.output \subseteq {op.job}
  /\ op.exit = "ok" => op.output = {op.job} /\ script[op.job] \in {"ok", "killed"}
  /\ op.exit = "fail" => script[op.job] \in {"fail", "killed"}

(* It is handed out once, and lost only by a new submission.                *)
Reports(t) ==
  /\ \A j \in reported : j <= op.job
  /\ op.job \in reported =>
       ~op.done /\ op.worker = NoJob /\ pc[t] \notin {"cancelled", "spawn", "assign"}
  /\ Waits({"clear", "gone"}) => op.done \/ op.job \in reported

Answered(t) ==
  /\ pc[t] = "nodone" /\ t \notin early => op.job = NoJob \/ Waits({"gone"})
  /\ reply[t] = "nopending" => op.job \in reported \union {NoJob} \/ t \in early
  /\ op.old /\ ~overdue => op.job = NoJob \/ Waits({"absent", "begin", "clock"})
  /\ pc[t] \in {"cancel", "cancelled"} \/ reply[t] = "TIMEOUT" => overdue \/ t \in early
  /\ reply[t] \in {"OK", "ERROR"} => mine[t] = op.job /\ Waits({"clear", "gone"})
  /\ reply[t] = "OK" => op.exit = "ok"
  /\ reply[t] = "ERROR" => op.exit # "ok"

Good(t) == Workers(t) /\ Flags(t) /\ Result /\ Reports(t) /\ Answered(t)

Inv(t) == TypeInv /\ Handles(t) /\ (Stopped(t) \/ Overrun(t) \/ Good(t))

(* In a daemon that has ended only the scripts go on.                       *)
LEMMA StoppedStep ==
  ASSUME NEW t \in Callers, Callers = {t}, TypeInv, Handles(t), Stopped(t), [Next]_vars
  PROVE  Handles(t)' /\ Stopped(t)' /\ pc'[t] = pc[t]
<1>. USE DEF TypeInv, TypeOK, Stopped, handlers, ghosts
<1>1. CASE \E j \in Jobs : WorkerStep(j) \/ ScriptEnds(j)
  <2>1. UNCHANGED <<handlers, ghosts>> /\ op'.job = op.job
    BY <1>1
    DEF WorkerStep, ScriptEnds, WorkerBegin, WorkerClock, WorkerPopen, PopenFails, WorkerRead,
        WorkerThrows, WorkerExit, WorkerDone, WorkerClear, Worker, FlashState
  <2>. QED BY <2>1 DEF Handles
<1>2. CASE MinutePasses
  BY <1>2 DEF MinutePasses, Handles, FlashState
<1>3. CASE UNCHANGED vars
  BY <1>3 DEF vars, Handles
<1>4. ASSUME NEW u \in Callers, Submit(u) \/ Poll(u) \/ HandlerStep(u)
      PROVE  FALSE
  <2>1. u = t
    OBVIOUS
  <2>. QED
  BY <1>4, <2>1
  DEF Submit, Poll, HandlerStep, SubmitBadArgument, SubmitCheck, SubmitReset, Reset,
      SubmitSpawn, SpawnThrows, SubmitAssign, PollRunning, PollNoDone, PollDone,
      PollElapsed, CancelJoin, CancelFlags, PollResult, PollJoin, PollClear, Clear,
      DoubleJoin, Return, Handler, Answer
<1>5. CASE Exit
  BY <1>5 DEF Exit
<1>. QED BY <1>1, <1>2, <1>3, <1>4, <1>5 DEF Next
(* What a worker step changes.                                              *)
WorkerEffect(j) ==
  /\ UNCHANGED <<pc, mine, reply, overdue, early, reported>>
  /\ op'.job = op.job /\ op'.worker = op.worker
  /\ wpc' = [wpc EXCEPT ![j] = wpc'[j]]
  /\ \A k \in Jobs \ {j} : script'[k] = script[k]
  /\ wpc[j] = "popen" \/ script'[j] = script[j]
  /\ wpc[j] \in {"begin", "clear"} \/ op'.running = op.running
  /\ wpc[j] = "done" \/ op'.done = op.done
  /\ wpc[j] \in {"read", "exit"} \/ op'.exit = op.exit
  /\ wpc[j] = "read" \/ op'.output = op.output
  /\ wpc[j] = "clock" \/ op'.old = op.old
  /\ \/ wpc[j] = "begin" /\ wpc'[j] = "clock" /\ op'.running = TRUE
     \/ wpc[j] = "clock" /\ wpc'[j] = "popen" /\ op'.old = FALSE
     \/ wpc[j] = "popen" /\ wpc'[j] \in {"read", "done"}
     \/ /\ wpc[j] = "read" /\ wpc'[j] = "exit" /\ op'.output = op.output \union {j}
        /\ op'.exit = op.exit
     \/ /\ wpc[j] = "read" /\ wpc'[j] = "done" /\ op'.output = op.output
        /\ op'.exit = "none"
     \/ /\ wpc[j] = "exit" /\ wpc'[j] = "done"
        /\ \/ op'.exit = "ok" /\ script[j] \in {"ok", "killed"}
           \/ op'.exit = "fail" /\ script[j] \in {"fail", "killed"}
     \/ wpc[j] = "done" /\ wpc'[j] = "clear" /\ op'.done = TRUE
     \/ wpc[j] = "clear" /\ wpc'[j] = "gone" /\ op'.running = FALSE

(* What a step of a worker may do.                                           *)
LEMMA WorkerEffects ==
  ASSUME TypeInv, NEW j \in Jobs, WorkerStep(j)
  PROVE  WorkerEffect(j)
<1>. USE DEF WorkerEffect, TypeInv, TypeOK, FlashState, WorkerSteps, Worker, handlers, ghosts
<1>1. CASE WorkerBegin(j) \/ WorkerClock(j)
  BY <1>1 DEF WorkerBegin, WorkerClock
<1>2. CASE WorkerPopen(j) \/ PopenFails(j)
  BY <1>2 DEF WorkerPopen, PopenFails
<1>3. CASE WorkerRead(j)
  BY <1>3 DEF WorkerRead
<1>4. CASE WorkerThrows(j)
  BY <1>4 DEF WorkerThrows
<1>5. CASE WorkerExit(j)
  <2>1. wpc[j] = "exit" /\ script[j] \in {"ok", "fail", "killed"}
    BY <1>5 DEF WorkerExit, Reading
  <2>2. PICK e \in {"ok", "fail"} :
          /\ Worker(j, "exit", "done", [op EXCEPT !.exit = e])
          /\ script[j] \in {e, "killed"}
    BY <1>5, <2>1 DEF WorkerExit, WEXITSTATUS
  <2>. QED BY <2>1, <2>2
<1>6. CASE WorkerDone(j) \/ WorkerClear(j)
  BY <1>6 DEF WorkerDone, WorkerClear
<1>. QED BY <1>1, <1>2, <1>3, <1>4, <1>5, <1>6 DEF WorkerStep

(* The steps of the worker, which is that of the last submission.           *)
LEMMA WorkerGood ==
  ASSUME NEW t \in Callers, Callers = {t}, TypeInv, Handles(t), Good(t),
         NEW j \in Jobs, WorkerStep(j)
  PROVE  Handles(t)' /\ Good(t)'
<1>0. WorkerEffect(j)
  BY WorkerEffects
<1>1. wpc[j] \in Active /\ wpc \in [Jobs -> WorkerSteps] /\ j # NoJob
  BY <1>0 DEF WorkerEffect, TypeInv, TypeOK, Active, Jobs, NoJob
<1>2. op.job = j
  BY <1>1 DEF Good, Workers
<1>3. /\ wpc'[j] \in Active \union {"gone"} /\ wpc'[j] # "begin"
      /\ \A k \in Jobs \ {j} : wpc'[k] = wpc[k]
  BY <1>0, <1>1 DEF WorkerEffect, Active, WorkerSteps
<1>4. Handles(t)'
  BY <1>0, <1>1, <1>2, <1>3 DEF Handles, WorkerEffect
<1>5. Workers(t)'
  BY <1>0, <1>1, <1>2, <1>3 DEF Good, Workers, Active, WorkerEffect
<1>6. Flags(t)'
  BY <1>0, <1>1, <1>2, <1>3 DEF Good, Flags, Workers, Waits, Active, WorkerEffect
<1>7. Result'
  BY <1>0, <1>1, <1>2, <1>3 DEF Good, Result, Waits, WorkerEffect
<1>8. Reports(t)'
  BY <1>0, <1>1, <1>2, <1>3 DEF Good, Reports, Workers, Flags, Waits, WorkerEffect, Active
<1>9. Answered(t)'
  BY <1>0, <1>1, <1>2, <1>3 DEF Good, Answered, Workers, Flags, Waits, WorkerEffect
<1>. QED BY <1>4, <1>5, <1>6, <1>7, <1>8, <1>9 DEF Good

(* The steps of a handler that only read.                                   *)
LEMMA ReadGood ==
  ASSUME NEW t \in Callers, Callers = {t}, TypeInv, Handles(t), Good(t),
         \/ Submit(t) \/ SubmitBadArgument(t) \/ SubmitCheck(t) \/ Poll(t)
         \/ PollRunning(t) \/ PollNoDone(t) \/ PollDone(t) \/ PollElapsed(t)
         \/ PollResult(t) \/ Return(t)
  PROVE  Handles(t)' /\ (Overrun(t)' \/ Good(t)')
<1>. USE DEF TypeInv, TypeOK, handlers, ghosts, Good, Handles, Overrun
<1>0. op.job \in Jobs \union {NoJob}
  BY DEF FlashState
<1>1. CASE Submit(t) \/ SubmitBadArgument(t) \/ SubmitCheck(t) \/ Poll(t)
  BY <1>1
  DEF Submit, SubmitBadArgument, SubmitCheck, Poll, Handler, Answer,
      Workers, Flags, Result, Reports, Answered, Waits
<1>2. CASE PollRunning(t)
  <2>1. /\ UNCHANGED <<op, wpc, script, mine, reply, overdue, reported>>
        /\ pc[t] = "running"
        /\ pc' = [pc EXCEPT ![t] = IF op.running THEN "done" ELSE "nodone"]
        /\ t \in early' <=> Waits({"begin"})
    BY <1>2 DEF PollRunning
  <2>2. pc'[t] \in {"done", "nodone"} /\ (pc'[t] = "done" <=> op.running)
    BY <2>1
  <2>3. Workers(t)' /\ Result' /\ Reports(t)'
    BY <2>1, <2>2 DEF Workers, Result, Reports, Waits
  <2>4. Flags(t)'
    <3>1. op.running => op.worker = op.job
      BY <2>1, <1>0 DEF Workers, Flags, Waits, Active
    <3>2. (op.running <=> Waits(Active \ {"begin"}))' /\ (op.done => Waits({"clear", "gone"}))'
      BY <2>1 DEF Flags, Waits
    <3>. QED BY <2>1, <2>2, <3>1, <3>2 DEF Flags
  <2>5. op.running \/ op.job = NoJob \/ Waits({"begin", "gone"})
    <3>1. op.job # NoJob => wpc[op.job] \in WorkerSteps \ {"absent"}
      BY <1>0, <2>1 DEF Workers
    <3>. QED BY <3>1 DEF Flags, Waits, Active, WorkerSteps
  <2>6. Answered(t)'
    BY <2>1, <2>2, <2>5 DEF Answered, Waits
  <2>. QED BY <2>1, <2>2, <2>3, <2>4, <2>6
<1>3. CASE PollNoDone(t) \/ PollDone(t)
  BY <1>3
  DEF PollNoDone, PollDone, Handler, Answer, Workers, Flags, Result, Reports, Answered, Waits
<1>4. CASE PollElapsed(t)
  <2>1. /\ UNCHANGED <<op, wpc, script, mine, overdue, reported>>
        /\ pc[t] = "elapsed" /\ pc'[t] \in {"cancel", "reply"}
        /\ reply'[t] = IF pc'[t] = "cancel" THEN reply[t] ELSE "RUNNING"
        /\ t \in early' <=> t \in early \/ Waits({"begin", "clock"})
    BY <1>4 DEF PollElapsed
  <2>2. pc'[t] = "cancel" => op.old \/ \E j \in Jobs : wpc[j] = "clock"
    BY <1>4, <2>1 DEF PollElapsed
  <2>3. pc'[t] = "cancel" => overdue \/ t \in early'
    <3>1. (\E j \in Jobs : wpc[j] = "clock") => Waits({"clock"})
      BY DEF Workers, Waits, Active, Jobs, NoJob
    <3>2. op.job # NoJob /\ ~Waits({"absent"})
      BY <2>1 DEF Started, Workers, Waits
    <3>3. op.old /\ ~overdue => Waits({"begin", "clock"})
      BY <3>2 DEF Answered, Waits
    <3>. QED BY <2>1, <2>2, <3>1, <3>3 DEF Waits
  <2>4. Workers(t)' /\ Flags(t)' /\ Result' /\ Reports(t)'
    BY <2>1 DEF Workers, Flags, Result, Reports, Waits
  <2>5. Answered(t)'
    BY <2>1, <2>3 DEF Answered, Waits
  <2>. QED BY <2>1, <2>4, <2>5
<1>5. CASE PollResult(t)
  BY <1>5 DEF PollResult, Workers, Flags, Result, Reports, Answered, Waits
<1>6. CASE Return(t)
  BY <1>6 DEF Return, Workers, Flags, Result, Reports, Answered, Waits
<1>. QED BY <1>1, <1>2, <1>3, <1>4, <1>5, <1>6

(* The steps of a handler that write.                                       *)
LEMMA WriteGood ==
  ASSUME NEW t \in Callers, Callers = {t}, TypeInv, Handles(t), Good(t),
         \/ SubmitReset(t) \/ SubmitSpawn(t) \/ SpawnThrows(t) \/ SubmitAssign(t)
         \/ CancelJoin(t) \/ CancelFlags(t) \/ PollJoin(t) \/ PollClear(t) \/ DoubleJoin(t)
  PROVE  Handles(t)' /\ (Stopped(t)' \/ Good(t)')
<1>. USE DEF TypeInv, TypeOK, handlers, ghosts, Good, Handles
<1>0. op.job \in Jobs \union {NoJob}
  BY DEF FlashState
<1>1. CASE SubmitReset(t)
  <2>0. /\ op'.job = op.job + 1 /\ op.job + 1 \in Jobs
        /\ op'.done = FALSE /\ op'.output = {} /\ op'.exit = "none"
        /\ op'.running = op.running /\ op'.old = op.old /\ op'.worker = op.worker
    BY <1>1, WriteReset
  <2>1. op'.job = op.job + 1 /\ op'.job \in Jobs /\ op'.job # NoJob
    BY <2>0 DEF Jobs, NoJob
  <2>2. /\ pc[t] = "reset" /\ pc'[t] = "spawn" /\ UNCHANGED <<wpc, script, reply, early, reported>>
        /\ overdue' = FALSE
    BY <1>1 DEF SubmitReset, Reset
  <2>3. mine'[t] = op'.job
    <3>1. [op EXCEPT !.done = FALSE].job = op.job
      BY DEF FlashState
    <3>. QED BY <1>1, <2>1, <3>1 DEF SubmitReset, Reset
  <2>4. op'.job > op.job /\ wpc[op'.job] = "absent" /\ script[op'.job] = "none"
    BY <1>0, <2>1 DEF Workers, Jobs, NoJob
  <2>5. \A j \in Jobs : wpc[j] \notin Active
    BY <1>0, <2>2 DEF Workers, Jobs, NoJob
  <2>6. ~op.running /\ op.worker = NoJob
    BY <1>0, <2>2, <2>5 DEF Workers, Flags, Waits
  <2>7. op'.job \notin reported
    BY <1>0, <2>1, <2>4 DEF Reports, Jobs, NoJob
  <2>8. Workers(t)'
    BY <1>0, <2>0, <2>1, <2>2, <2>4, <2>5, <2>6 DEF Workers, Jobs, NoJob
  <2>9. Flags(t)' /\ Result' /\ Answered(t)'
    BY <2>0, <2>1, <2>2, <2>4, <2>6 DEF Flags, Result, Answered, Waits, Active
  <2>10. Reports(t)'
    <3>1. \A j \in reported' : j <= op'.job
      BY <1>0, <2>1, <2>2, FlashAssumption DEF Reports, Jobs, NoJob
    <3>2. ~Waits({"clear", "gone"})' /\ op'.job \notin reported'
      BY <2>2, <2>4, <2>7 DEF Waits
    <3>. QED BY <3>1, <3>2 DEF Reports
  <2>. QED BY <2>2, <2>3, <2>7, <2>8, <2>9, <2>10
<1>2. CASE SubmitSpawn(t)
  <2>1. /\ pc[t] = "spawn" /\ pc'[t] = "assign" /\ wpc' = [wpc EXCEPT ![op.job] = "begin"]
        /\ UNCHANGED <<op, script, mine, reply, ghosts>> /\ wpc[op.job] = "absent" /\ op.job \in Jobs
    BY <1>0, <1>2 DEF SubmitSpawn, Started, Workers
  <2>2. wpc'[op.job] = "begin" /\ \A j \in Jobs \ {op.job} : wpc'[j] = wpc[j]
    BY <2>1
  <2>3. Workers(t)'
    BY <2>1, <2>2, FlashAssumption DEF Workers, Active, Jobs, NoJob
  <2>4. Flags(t)' /\ Result'
    BY <2>1, <2>2 DEF Flags, Result, Waits, Active
  <2>5. Reports(t)' /\ Answered(t)'
    BY <2>1, <2>2 DEF Reports, Answered, Waits
  <2>. QED BY <2>1, <2>3, <2>4, <2>5
<1>3. CASE SpawnThrows(t) \/ DoubleJoin(t)
  BY <1>3 DEF SpawnThrows, DoubleJoin, Terminate, End, Stopped
<1>4. CASE SubmitAssign(t)
  <2>1. /\ pc[t] = "assign" /\ pc'[t] = "reply" /\ reply'[t] = "submitted"
        /\ op' = [op EXCEPT !.worker = op.job]
        /\ UNCHANGED <<wpc, script, mine, ghosts>> /\ op.job \in Jobs
    BY <1>0, <1>4 DEF SubmitAssign, Answer, Started, Workers
  <2>2. /\ op'.job = op.job /\ op'.worker = op.job /\ op'.running = op.running
        /\ op'.done = op.done /\ op'.output = op.output /\ op'.exit = op.exit
        /\ op'.old = op.old
    BY <1>0, <2>1 DEF FlashState
  <2>3. Workers(t)' /\ Flags(t)' /\ Result' /\ Reports(t)' /\ Answered(t)'
    BY <2>1, <2>2 DEF Workers, Flags, Result, Reports, Answered, Waits, Started
  <2>. QED BY <2>1, <2>2, <2>3
<1>5. CASE CancelJoin(t) \/ PollJoin(t)
  <2>1. /\ CanJoin /\ op' = [op EXCEPT !.worker = NoJob]
        /\ pc[t] \in {"cancel", "join"}
        /\ pc'[t] = IF pc[t] = "cancel" THEN "cancelled" ELSE "clear"
        /\ UNCHANGED <<wpc, script, mine, reply, ghosts>>
    BY <1>5 DEF CancelJoin, PollJoin, Handler
  <2>2. /\ op'.job = op.job /\ op'.worker = NoJob /\ op'.running = op.running
        /\ op'.done = op.done /\ op'.output = op.output /\ op'.exit = op.exit
        /\ op'.old = op.old
    BY <2>1 DEF FlashState
  <2>3. \A j \in Jobs : wpc[j] \notin Active
    BY <1>0, <2>1 DEF CanJoin, Workers, Active, Jobs, NoJob
  <2>4. Workers(t)' /\ Flags(t)' /\ Result' /\ Reports(t)' /\ Answered(t)'
    BY <1>0, <2>1, <2>2, <2>3 DEF Workers, Flags, Result, Reports, Answered, Waits, Active, Started
  <2>. QED BY <2>1, <2>2, <2>4
<1>6. CASE CancelFlags(t)
  <2>1. /\ pc[t] = "cancelled" /\ pc'[t] = "reply" /\ reply'[t] = "TIMEOUT"
        /\ op' = [op EXCEPT !.running = FALSE, !.done = TRUE]
        /\ UNCHANGED <<wpc, script, mine, ghosts>>
    BY <1>6 DEF CancelFlags, Answer
  <2>2. /\ op'.running = FALSE /\ op'.done = TRUE
        /\ op'.job = op.job /\ op'.exit = op.exit /\ op'.output = op.output
        /\ op'.old = op.old /\ op'.worker = op.worker
    BY <2>1, WriteFlags
  <2>3. Waits({"gone"})
    BY <1>0, <2>1 DEF Workers, Waits, Active, WorkerSteps, Started
  <2>4. Workers(t)' /\ Flags(t)' /\ Result' /\ Reports(t)' /\ Answered(t)'
    BY <1>0, <2>1, <2>2, <2>3 DEF Workers, Flags, Result, Reports, Answered, Waits, Active
  <2>. QED BY <2>1, <2>2, <2>4
<1>7. CASE PollClear(t)
  <2>1. /\ pc[t] = "clear" /\ pc'[t] = "reply" /\ reported' = reported \union {op.job}
        /\ op' = [op EXCEPT !.running = FALSE, !.done = FALSE]
        /\ UNCHANGED <<wpc, script, mine, reply, overdue, early>>
    BY <1>7 DEF PollClear, Clear
  <2>2. /\ op'.running = FALSE /\ op'.done = FALSE
        /\ op'.job = op.job /\ op'.exit = op.exit /\ op'.output = op.output
        /\ op'.old = op.old /\ op'.worker = op.worker
    BY <2>1, WriteFlags
  <2>3. Waits({"gone"})
    BY <1>0, <2>1 DEF Workers, Flags, Waits, Active
  <2>4. Workers(t)' /\ Flags(t)' /\ Result' /\ Answered(t)'
    BY <1>0, <2>1, <2>2, <2>3 DEF Workers, Flags, Result, Answered, Waits, Active
  <2>5. Reports(t)'
    BY <1>0, <2>1, <2>2, <2>3 DEF Workers, Reports, Waits, Jobs, NoJob
  <2>. QED BY <2>1, <2>2, <2>4, <2>5
<1>. QED BY <1>1, <1>2, <1>3, <1>4, <1>5, <1>6, <1>7

(* The script, the clock and the end of the daemon.                         *)
LEMMA OtherGood ==
  ASSUME NEW t \in Callers, Callers = {t}, TypeInv, Handles(t), Good(t),
         (\E j \in Jobs : ScriptEnds(j)) \/ MinutePasses \/ Exit \/ UNCHANGED vars
  PROVE  Handles(t)' /\ (Stopped(t)' \/ Good(t)')
<1>. USE DEF TypeInv, TypeOK, handlers, ghosts, Good, Handles
<1>0. op.job \in Jobs \union {NoJob}
  BY DEF FlashState
<1>1. ASSUME NEW j \in Jobs, ScriptEnds(j)
      PROVE  Handles(t)' /\ Good(t)'
  <2>1. /\ script[j] = "alive" /\ UNCHANGED <<op, wpc, handlers, ghosts>>
        /\ \A k \in Jobs : script'[k] = script[k] \/ k = j
    BY <1>1 DEF ScriptEnds
  <2>2. Handles(t)' /\ Workers(t)' /\ Flags(t)' /\ Reports(t)' /\ Answered(t)'
    BY <2>1 DEF Workers, Flags, Reports, Answered, Waits
  <2>3. Result'
    BY <1>0, <2>1 DEF Result, Waits
  <2>. QED BY <2>2, <2>3
<1>2. CASE MinutePasses
  <2>1. /\ op'.job = op.job /\ op'.worker = op.worker /\ op'.running = op.running
        /\ op'.done = op.done /\ op'.output = op.output /\ op'.exit = op.exit
        /\ overdue' = TRUE /\ UNCHANGED <<wpc, script, handlers, early, reported>>
    BY <1>2 DEF MinutePasses, FlashState
  <2>. QED BY <2>1 DEF Workers, Flags, Result, Reports, Answered, Waits
<1>3. CASE Exit
  <2>1. /\ pc[t] = "idle" /\ UNCHANGED <<op, script, mine, reply, ghosts>>
        /\ pc'[t] = IF op.worker = NoJob THEN "exited" ELSE "aborted"
    BY <1>3 DEF Exit, End
  <2>. QED BY <1>0, <2>1 DEF Stopped, Reports, Workers
<1>4. CASE UNCHANGED vars
  BY <1>4 DEF vars, Workers, Flags, Result, Reports, Answered, Waits
<1>. QED BY <1>1, <1>2, <1>3, <1>4

(* A submission over an unjoined thread goes on to std::terminate.          *)
LEMMA OverrunStep ==
  ASSUME NEW t \in Callers, Callers = {t}, TypeInv, Handles(t), Overrun(t), [Next]_vars
  PROVE  Handles(t)' /\ (Overrun(t)' \/ Stopped(t)')
<1>. USE DEF TypeInv, TypeOK, Overrun, Stopped, handlers, ghosts
<1>1. CASE SubmitReset(t)
  <2>1. op'.worker = op.worker /\ op'.job = op.job + 1
    BY <1>1, WriteReset
  <2>2. pc'[t] = "spawn" /\ reply' = reply
    BY <1>1 DEF SubmitReset, Reset
  <2>3. mine'[t] = op'.job
    <3>1. [op EXCEPT !.done = FALSE].job = op.job
      BY DEF FlashState
    <3>. QED BY <1>1, <2>1, <3>1 DEF SubmitReset, Reset
  <2>. QED BY <2>1, <2>2, <2>3 DEF Handles
<1>2. CASE SubmitSpawn(t)
  BY <1>2 DEF SubmitSpawn, Handles
<1>3. CASE SpawnThrows(t) \/ SubmitAssign(t)
  BY <1>3 DEF SpawnThrows, SubmitAssign, Terminate, End, Handles
<1>4. CASE \E j \in Jobs : WorkerStep(j)
  <2>1. UNCHANGED <<handlers, ghosts>> /\ op'.job = op.job /\ op'.worker = op.worker
    BY <1>4, WorkerEffects DEF WorkerEffect
  <2>. QED BY <2>1 DEF Handles
<1>5. CASE (\E j \in Jobs : ScriptEnds(j)) \/ MinutePasses \/ UNCHANGED vars
  BY <1>5 DEF ScriptEnds, MinutePasses, FlashState, vars, Handles
<1>6. CASE \/ Submit(t) \/ Poll(t) \/ SubmitBadArgument(t) \/ SubmitCheck(t)
           \/ PollRunning(t) \/ PollNoDone(t) \/ PollDone(t) \/ PollElapsed(t)
           \/ CancelJoin(t) \/ CancelFlags(t) \/ PollResult(t) \/ PollJoin(t) \/ PollClear(t)
           \/ DoubleJoin(t) \/ Return(t) \/ Exit
  <2>1. pc[t] \notin {"reset", "spawn", "assign"}
    BY <1>6
    DEF Submit, Poll, SubmitBadArgument, SubmitCheck, PollRunning, PollNoDone, PollDone,
        PollElapsed, CancelJoin, CancelFlags, PollResult, PollJoin, PollClear, Clear,
        DoubleJoin, Return, Exit, Handler, Answer
  <2>. QED BY <2>1
<1>. QED BY <1>1, <1>2, <1>3, <1>4, <1>5, <1>6 DEF Next, HandlerStep

(* The invariant is inductive: every step of the one caller, its workers,    *)
(* the scripts, the clock and the exit keeps it.                             *)
LEMMA InvStep ==
  ASSUME NEW t \in Callers, Callers = {t}, Inv(t), [Next]_vars
  PROVE  Inv(t)'
<1>1. TypeInv'
  BY TypeStep DEF Inv
<1>2. CASE Stopped(t)
  BY <1>1, <1>2, StoppedStep DEF Inv
<1>3. CASE Overrun(t)
  BY <1>1, <1>3, OverrunStep DEF Inv
<1>4. CASE Good(t)
  <2>1. CASE \E j \in Jobs : WorkerStep(j)
    BY <1>1, <1>4, <2>1, WorkerGood DEF Inv
  <2>2. CASE \/ Submit(t) \/ SubmitBadArgument(t) \/ SubmitCheck(t) \/ Poll(t)
             \/ PollRunning(t) \/ PollNoDone(t) \/ PollDone(t) \/ PollElapsed(t)
             \/ PollResult(t) \/ Return(t)
    BY <1>1, <1>4, <2>2, ReadGood DEF Inv
  <2>3. CASE \/ SubmitReset(t) \/ SubmitSpawn(t) \/ SpawnThrows(t) \/ SubmitAssign(t)
             \/ CancelJoin(t) \/ CancelFlags(t) \/ PollJoin(t) \/ PollClear(t) \/ DoubleJoin(t)
    BY <1>1, <1>4, <2>3, WriteGood DEF Inv
  <2>4. CASE (\E j \in Jobs : ScriptEnds(j)) \/ MinutePasses \/ Exit \/ UNCHANGED vars
    BY <1>1, <1>4, <2>4, OtherGood DEF Inv
  <2>. QED BY <2>1, <2>2, <2>3, <2>4 DEF Next, HandlerStep
<1>. QED BY <1>2, <1>3, <1>4 DEF Inv

(* Only PollResult leads from "result" to "join".                           *)
LEMMA PollsResult ==
  ASSUME NEW t \in Callers, Callers = {t}, TypeInv, [Next]_vars,
         pc[t] = "result", pc'[t] = "join"
  PROVE  mine'[t] = op.job
<1>. USE DEF TypeInv, TypeOK, handlers, ghosts
<1>1. CASE \E j \in Jobs : WorkerStep(j)
  BY <1>1, WorkerEffects DEF WorkerEffect
<1>2. CASE (\E j \in Jobs : ScriptEnds(j)) \/ MinutePasses \/ Exit \/ UNCHANGED vars
  BY <1>2 DEF ScriptEnds, MinutePasses, Exit, vars
<1>3. CASE PollResult(t)
  BY <1>3 DEF PollResult
<1>4. CASE Submit(t) \/ Poll(t) \/ (HandlerStep(t) /\ ~PollResult(t))
  BY <1>4
  DEF Submit, Poll, HandlerStep, SubmitBadArgument, SubmitCheck, SubmitReset, Reset,
      SubmitSpawn, SpawnThrows, SubmitAssign, PollRunning, PollNoDone, PollDone,
      PollElapsed, CancelJoin, CancelFlags, PollJoin, PollClear, Clear,
      DoubleJoin, Return, Handler, Answer
<1>. QED BY <1>1, <1>2, <1>3, <1>4 DEF Next

(* Only Exit leads to a clean end or an abort.                              *)
LEMMA Exits ==
  ASSUME NEW t \in Callers, Callers = {t}, TypeInv, [Next]_vars,
         ~Stopped(t), pc'[t] \in {"exited", "aborted"}
  PROVE  pc[t] = "idle" /\ (pc'[t] = "exited" <=> op.worker = NoJob)
<1>. USE DEF TypeInv, TypeOK, handlers, ghosts
<1>1. CASE \E j \in Jobs : WorkerStep(j)
  BY <1>1, WorkerEffects DEF WorkerEffect, Stopped
<1>2. CASE (\E j \in Jobs : ScriptEnds(j)) \/ MinutePasses \/ UNCHANGED vars
  BY <1>2 DEF ScriptEnds, MinutePasses, vars, Stopped
<1>3. CASE Exit
  BY <1>3 DEF Exit, End
<1>4. CASE Submit(t) \/ Poll(t) \/ HandlerStep(t)
  BY <1>4
  DEF Submit, Poll, HandlerStep, SubmitBadArgument, SubmitCheck, SubmitReset, Reset,
      SubmitSpawn, SpawnThrows, SubmitAssign, PollRunning, PollNoDone, PollDone,
      PollElapsed, CancelJoin, CancelFlags, PollResult, PollJoin, PollClear, Clear,
      DoubleJoin, Return, Handler, Answer, Terminate, End
<1>. QED BY <1>1, <1>2, <1>3, <1>4 DEF Next

(* It holds initially.                                                       *)
LEMMA InvInit ==
  ASSUME NEW t \in Callers, Callers = {t}, Init
  PROVE  Inv(t)
<1>1. TypeInv
  BY InitTyped
<1>2. /\ op.running = FALSE /\ op.done = FALSE /\ op.job = NoJob /\ op.exit = "none"
      /\ op.output = {} /\ op.worker = NoJob
  BY DEF Init
<1>3. Handles(t) /\ Good(t)
  BY <1>2
  DEF Init, Handles, Good, Workers, Flags, Result, Reports, Answered, Waits, Active, Jobs, NoJob
<1>. QED BY <1>1, <1>3 DEF Inv

-----------------------------------------------------------------------------
(* With the one caller that the session lock lets through, every answer of   *)
(* AT+TRYFLASHDONE is true.                                                  *)

OneCaller == \E c : Callers = {c}

IInv == \A c \in Callers : Inv(c)

(* Every reachable state of a daemon with one caller satisfies it.           *)
THEOREM Invariant == OneCaller /\ Spec => []IInv
<1>. SUFFICES ASSUME OneCaller
              PROVE  Spec => []IInv
  OBVIOUS
<1>1. Init => IInv
  BY InvInit DEF OneCaller, IInv
<1>2. IInv /\ [Next]_vars => IInv'
  <2>. SUFFICES ASSUME IInv, [Next]_vars, NEW c \in Callers
                PROVE  Inv(c)'
    BY DEF IInv
  <2>. QED BY InvStep DEF OneCaller, IInv
<1>. QED BY <1>1, <1>2, PTL DEF Spec

(* A result handed out is that of the last submission, complete and alone.   *)
THEOREM ResultTruth ==
  OneCaller /\ Spec => []ResultIsHonest
<1>. SUFFICES ASSUME OneCaller
              PROVE  Spec => []ResultIsHonest
  OBVIOUS
<1>0. Spec => []IInv
  BY Invariant
<1>1. IInv => ResultIsHonest
  <2>. SUFFICES ASSUME IInv, NEW t \in Callers, reply[t] \in {"OK", "ERROR"}
                PROVE  /\ reply[t] = "OK" =>
                            script[mine[t]] \in {"ok", "killed"} /\ op.output = {mine[t]}
                       /\ reply[t] = "ERROR" =>
                            /\ op.output \subseteq {mine[t]}
                            /\ wpc[mine[t]] \in {"clear", "gone"}
                            /\ script[mine[t]] \in {"none", "fail", "killed"} \/ op.exit = "none"
    BY DEF ResultIsHonest
  <2>0. Inv(t)
    BY DEF IInv
  <2>1. Good(t)
    BY <2>0 DEF Inv, Handles, Stopped, Overrun
  <2>2. mine[t] = op.job /\ op.exit \in {"none", "ok", "fail"}
    BY <2>0, <2>1 DEF Good, Answered, Inv, TypeInv, TypeOK, FlashState
  <2>. QED BY <2>1, <2>2 DEF Good, Answered, Result, Waits
<1>. QED BY <1>0, <1>1, PTL

(* "no pending" means that every result was handed out, or that the worker   *)
(* had not begun when it was asked for.                                      *)
THEOREM NoPendingTruth ==
  OneCaller /\ Spec => []NoPendingIsHonest
<1>. SUFFICES ASSUME OneCaller
              PROVE  Spec => []NoPendingIsHonest
  OBVIOUS
<1>0. Spec => []IInv
  BY Invariant
<1>1. IInv => NoPendingIsHonest
  <2>. SUFFICES ASSUME IInv, NEW t \in Callers, reply[t] = "nopending"
                PROVE  op.job \in reported \union {NoJob} \/ t \in early
    BY DEF NoPendingIsHonest
  <2>0. Inv(t)
    BY DEF IInv
  <2>1. Good(t)
    BY <2>0 DEF Inv, Handles, Stopped, Overrun
  <2>. QED BY <2>1 DEF Good, Answered
<1>. QED BY <1>0, <1>1, PTL

(* TIMEOUT means that a minute has passed since the submission, unless the   *)
(* worker had not yet written the start time when it was read.               *)
THEOREM TimeoutTruth ==
  OneCaller /\ Spec => []TimeoutIsHonest
<1>. SUFFICES ASSUME OneCaller
              PROVE  Spec => []TimeoutIsHonest
  OBVIOUS
<1>0. Spec => []IInv
  BY Invariant
<1>1. IInv => TimeoutIsHonest
  <2>. SUFFICES ASSUME IInv, NEW t \in Callers, reply[t] = "TIMEOUT"
                PROVE  overdue \/ t \in early
    BY DEF TimeoutIsHonest
  <2>0. Inv(t)
    BY DEF IInv
  <2>1. Good(t)
    BY <2>0 DEF Inv, Handles, Stopped, Overrun
  <2>. QED BY <2>1 DEF Good, Answered
<1>. QED BY <1>0, <1>1, PTL

(* Two scripts run together only in a daemon on its way to std::terminate,   *)
(* or when one was left behind by its worker.                                *)
THEOREM OneScriptAtATime ==
  OneCaller /\ Spec => []OneScriptUnlessDoomed
<1>. SUFFICES ASSUME OneCaller
              PROVE  Spec => []OneScriptUnlessDoomed
  OBVIOUS
<1>0. Spec => []IInv
  BY Invariant
<1>1. IInv => OneScriptUnlessDoomed
  <2>. SUFFICES ASSUME IInv, NEW j \in Jobs, NEW k \in Jobs, j # k,
                       wpc[j] = "read", wpc[k] = "read"
                PROVE  Doomed
    BY DEF OneScriptUnlessDoomed
  <2>0. PICK t : t \in Callers /\ Inv(t)
    BY DEF OneCaller, IInv
  <2>1. ~Good(t)
    BY DEF Good, Workers, Active
  <2>2. Stopped(t) \/ Overrun(t)
    BY <2>0, <2>1 DEF Inv
  <2>. QED BY <2>0, <2>2 DEF Doomed, Dead, Ended, Stopped, Overrun
<1>. QED BY <1>0, <1>1, PTL

(* The result of an operation is handed out at most once.                    *)
THEOREM ReportOnce ==
  OneCaller /\ Spec => ReportedOnce
<1>. SUFFICES ASSUME OneCaller
              PROVE  Spec => ReportedOnce
  OBVIOUS
<1>0. Spec => []IInv
  BY Invariant
<1>1. IInv /\ [Next]_vars =>
        [\A t \in Callers : pc[t] = "result" /\ pc'[t] = "join" => mine'[t] \notin reported]_vars
  <2>. SUFFICES ASSUME IInv, [Next]_vars,
                       NEW c \in Callers, pc[c] = "result", pc'[c] = "join"
                PROVE  mine'[c] \notin reported
    OBVIOUS
  <2>0. Inv(c) /\ Callers = {c}
    BY DEF OneCaller, IInv
  <2>1. Good(c)
    BY <2>0 DEF Inv, Stopped, Overrun
  <2>2. op.job \notin reported
    BY <2>1 DEF Good, Flags, Reports
  <2>3. mine'[c] = op.job
    BY <2>0, PollsResult DEF Inv
  <2>. QED BY <2>2, <2>3
<1>. QED BY <1>0, <1>1, PTL DEF Spec, ReportedOnce

(* A clean exit leaves no worker behind, and the process aborts at exit only *)
(* over an operation whose result nobody has fetched.                        *)
THEOREM OrderlyExit ==
  OneCaller /\ Spec => ExitIsOrderly
<1>. SUFFICES ASSUME OneCaller
              PROVE  Spec => ExitIsOrderly
  OBVIOUS
<1>0. Spec => []IInv
  BY Invariant
<1>1. IInv /\ [Next]_vars =>
        [/\ Ended("exited")' /\ ~Ended("exited") => \A j \in Jobs : wpc[j] \in {"absent", "gone"}
         /\ Ended("aborted")' => op.job \notin reported]_vars
  <2>. SUFFICES ASSUME IInv, [Next]_vars,
                       NEW t \in Callers, Callers = {t}, Inv(t)
                PROVE  /\ pc'[t] = "exited" /\ pc[t] # "exited" =>
                            \A j \in Jobs : wpc[j] \in {"absent", "gone"}
                       /\ pc'[t] = "aborted" => op.job \notin reported
    BY DEF Ended, OneCaller, IInv
  <2>1. CASE Stopped(t)
    BY <2>1, StoppedStep DEF Inv, Handles
  <2>2. ASSUME ~Stopped(t), pc'[t] \in {"exited", "aborted"}
        PROVE  /\ pc[t] = "idle" /\ (pc'[t] = "exited" <=> op.worker = NoJob)
               /\ Good(t)
    <3>1. pc[t] = "idle" /\ (pc'[t] = "exited" <=> op.worker = NoJob)
      BY <2>2, Exits DEF Inv
    <3>. QED BY <2>2, <3>1 DEF Inv, Overrun
  <2>3. ASSUME ~Stopped(t), pc'[t] = "exited"
        PROVE  \A j \in Jobs : wpc[j] \in {"absent", "gone"}
    <3>1. Good(t) /\ pc[t] = "idle" /\ op.worker = NoJob
      BY <2>2, <2>3
    <3>2. \A j \in Jobs : wpc[j] \notin Active
      BY <3>1 DEF Good, Workers, Jobs, NoJob
    <3>. QED BY <3>2 DEF Active, WorkerSteps, Inv, TypeInv, TypeOK
  <2>4. ASSUME ~Stopped(t), pc'[t] = "aborted"
        PROVE  op.job \notin reported
    <3>1. Good(t) /\ op.worker # NoJob
      BY <2>2, <2>4
    <3>. QED BY <3>1 DEF Good, Reports
  <2>. QED BY <2>1, <2>3, <2>4
<1>. QED BY <1>0, <1>1, PTL DEF Spec, ExitIsOrderly
=============================================================================
