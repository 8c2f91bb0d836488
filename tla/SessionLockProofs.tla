------------------------- MODULE SessionLockProofs -------------------------
(***************************************************************************)
(* Proofs about SessionLock, for every set of commands and both builds.    *)
(***************************************************************************)
EXTENDS SessionLock, TLAPS

(* Which steps a thread can be at, and with which command.                  *)
Control(t) ==
  /\ pc[t] # "reply" => reply[t] = "none"
  /\ pc[t] \in {"isbusy", "status1", "status2", "status3"} => t = "HTTP"
  /\ pc[t] \in {"status1", "status2", "status3"} => cmd[t].act = "APISTATUS"
  /\ pc[t] = "release" => cmd[t].act = "RESET"

(* What a thread knows about the lock at each of its steps.                 *)
Knows(t) ==
  /\ pc[t] \notin {"idle", "reply"} => owner \in held[t]
  /\ pc[t] = "acquire" /\ t = "HTTP" => owner # "HTTP"
  /\ pc[t] = "owner" => owner = t \/ Other(t) \in held[t] \/ t \in robbed
  /\ pc[t] = "process" /\ cmd[t].act \in {"LOCAL", "WORK"} => owner = t \/ t \in robbed
  /\ pc[t] = "release" => t \in held[t]
  /\ pc[t] = "status3" => owner = t \/ Other(t) \in held[t] \/ t \in robbed
  /\ reply[t] = "busy" => Other(t) \in held[t] \/ t \in robbed
  /\ reply[t] = "ok" /\ cmd[t].act = "RESET" => t \in held[t] /\ held[t] # {t}

StatusKnows ==
  /\ pc["HTTP"] # "reply" => status.name = "NONE"
  /\ StatusNamesHolder

IInv ==
  /\ TypeOK
  /\ \A t \in Threads : Control(t)
  /\ \A t \in Threads : Knows(t)
  /\ StatusKnows

-----------------------------------------------------------------------------
(* Type correctness: every variable keeps its range, whatever commands the  *)
(* clients send.                                                            *)
LEMMA TypeStep == TypeOK /\ [Next]_vars => TypeOK'
<1>. SUFFICES ASSUME TypeOK, [Next]_vars PROVE TypeOK'
  OBVIOUS
<1>1. ASSUME NEW c \in Commands \union Endpoint, HttpRequest(c) PROVE TypeOK'
  BY <1>1, CommandsAssumption
  DEF HttpRequest, Enter, Goto, FirstStep, Bypass, Command, Endpoint, TypeOK, Threads, Owner, Steps, Replies, NoStatus, NoCommand
<1>2. ASSUME HttpBadRequest PROVE TypeOK'
  BY <1>2
  DEF HttpBadRequest, Answer, TypeOK, Threads, Owner, Steps, Replies, NoStatus, NoCommand
<1>3. ASSUME NEW c \in Commands, SerialLine(c) PROVE TypeOK'
  BY <1>3, CommandsAssumption
  DEF SerialLine, Enter, Goto, TypeOK, Threads, Owner, Steps, Replies, NoStatus, NoCommand
<1>4. ASSUME NEW u \in Threads, IsBusy(u) PROVE TypeOK'
  BY <1>4
  DEF IsBusy, Goto, TypeOK, Threads, Owner, Steps, Replies, NoStatus, NoCommand
<1>5. ASSUME NEW u \in Threads, TryAcquire(u) PROVE TypeOK'
  BY <1>5
  DEF TryAcquire, Goto, SetOwner, TypeOK, Threads, Owner, Steps, Replies, NoStatus, NoCommand
<1>6. ASSUME NEW u \in Threads, AcquireFails(u) PROVE TypeOK'
  BY <1>6
  DEF AcquireFails, Goto, Answer, TypeOK, Threads, Owner, Steps, Replies, NoStatus, NoCommand
<1>7. ASSUME NEW u \in Threads, CheckOwner(u) PROVE TypeOK'
  BY <1>7
  DEF CheckOwner, Goto, TypeOK, Threads, Owner, Steps, Replies, NoStatus, NoCommand
<1>8. ASSUME NEW u \in Threads, NotOwner(u) PROVE TypeOK'
  BY <1>8
  DEF NotOwner, Answer, TypeOK, Threads, Owner, Steps, Replies, NoStatus, NoCommand
<1>9. ASSUME NEW u \in Threads, ProcessReset(u) PROVE TypeOK'
  BY <1>9
  DEF ProcessReset, Goto, Answer, TypeOK, Threads, Owner, Steps, Replies, NoStatus, NoCommand
<1>10. ASSUME NEW u \in Threads, Release(u) PROVE TypeOK'
  BY <1>10
  DEF Release, Answer, SetOwner, TypeOK, Threads, Owner, Steps, Replies, NoStatus, NoCommand
<1>11. ASSUME NEW u \in Threads, ForceRelease(u) PROVE TypeOK'
  BY <1>11
  DEF ForceRelease, Answer, SetOwner, TypeOK, Threads, Owner, Steps, Replies, NoStatus, NoCommand
<1>12. ASSUME NEW u \in Threads, LockSerial(u) PROVE TypeOK'
  BY <1>12
  DEF LockSerial, Answer, SetOwner, TypeOK, Threads, Owner, Steps, Replies, NoStatus, NoCommand
<1>13. ASSUME NEW u \in Threads, StatusBusy(u) PROVE TypeOK'
  BY <1>13
  DEF StatusBusy, Goto, TypeOK, Threads, Owner, Steps, Replies, NoStatus, NoCommand
<1>14. ASSUME NEW u \in Threads, StatusBranch(u) PROVE TypeOK'
  BY <1>14
  DEF StatusBranch, Goto, Answer, TypeOK, Threads, Owner, Steps, Replies, NoStatus, NoCommand
<1>15. ASSUME NEW u \in Threads, StatusOwner(u) PROVE TypeOK'
  BY <1>15
  DEF StatusOwner, Answer, TypeOK, Threads, Owner, Steps, Replies, NoStatus, NoCommand
<1>16. ASSUME NEW u \in Threads, ProcessCommand(u) PROVE TypeOK'
  BY <1>16
  DEF ProcessCommand, Answer, TypeOK, Threads, Owner, Steps, Replies, NoStatus, NoCommand
<1>17. ASSUME NEW u \in Threads, Return(u) PROVE TypeOK'
  BY <1>17
  DEF Return, TypeOK, Threads, Owner, Steps, Replies, NoStatus, NoCommand
<1>18. CASE UNCHANGED vars
  BY <1>18
  DEF vars, TypeOK, Threads, Owner, Steps, Replies, NoStatus, NoCommand
<1>. QED
  BY <1>1, <1>2, <1>3, <1>4, <1>5, <1>6, <1>7, <1>8, <1>9, <1>10,
     <1>11, <1>12, <1>13, <1>14, <1>15, <1>16, <1>17, <1>18
  DEF Next, ThreadStep, LockStep

(* TypeOK: owner_, the program counters, the commands and the answers stay   *)
(* in their types, whatever the two threads do.                              *)
THEOREM TypeCorrect == Spec => []TypeOK
<1>1. Init => TypeOK
  BY DEF Init, TypeOK, Threads, Owner, Steps, Replies, NoStatus, NoCommand
<1>. QED
  BY <1>1, TypeStep, PTL DEF Spec

(* The control part of the invariant: serial lines never reach the steps of *)
(* an HTTP endpoint, and an answer exists only when the call is over.       *)
LEMMA ControlStep ==
  TypeOK /\ (\A t \in Threads : Control(t)) /\ [Next]_vars
    => (\A t \in Threads : Control(t))'
<1>. SUFFICES ASSUME TypeOK, \A t \in Threads : Control(t), [Next]_vars,
                     NEW t \in Threads
              PROVE  Control(t)'
  OBVIOUS
<1>1. ASSUME NEW c \in Commands \union Endpoint, HttpRequest(c) PROVE Control(t)'
  BY <1>1, CommandsAssumption
  DEF HttpRequest, Enter, Goto, FirstStep, Bypass, Command, Endpoint, Control, TypeOK, Threads
<1>2. ASSUME HttpBadRequest PROVE Control(t)'
  BY <1>2
  DEF HttpBadRequest, Answer, Control, TypeOK, Threads
<1>3. ASSUME NEW c \in Commands, SerialLine(c) PROVE Control(t)'
  BY <1>3, CommandsAssumption
  DEF SerialLine, Enter, Goto, Control, TypeOK, Threads
<1>4. ASSUME NEW u \in Threads, IsBusy(u) PROVE Control(t)'
  BY <1>4
  DEF IsBusy, Goto, Control, TypeOK, Threads
<1>5. ASSUME NEW u \in Threads, TryAcquire(u) PROVE Control(t)'
  BY <1>5
  DEF TryAcquire, Goto, SetOwner, Control, TypeOK, Threads
<1>6. ASSUME NEW u \in Threads, AcquireFails(u) PROVE Control(t)'
  BY <1>6
  DEF AcquireFails, Goto, Answer, Control, TypeOK, Threads
<1>7. ASSUME NEW u \in Threads, CheckOwner(u) PROVE Control(t)'
  BY <1>7
  DEF CheckOwner, Goto, Control, TypeOK, Threads
<1>8. ASSUME NEW u \in Threads, NotOwner(u) PROVE Control(t)'
  BY <1>8
  DEF NotOwner, Answer, Control, TypeOK, Threads
<1>9. ASSUME NEW u \in Threads, ProcessReset(u) PROVE Control(t)'
  BY <1>9
  DEF ProcessReset, Goto, Answer, Control, TypeOK, Threads
<1>10. ASSUME NEW u \in Threads, Release(u) PROVE Control(t)'
  BY <1>10
  DEF Release, Answer, SetOwner, Control, TypeOK, Threads
<1>11. ASSUME NEW u \in Threads, ForceRelease(u) PROVE Control(t)'
  BY <1>11
  DEF ForceRelease, Answer, SetOwner, Control, TypeOK, Threads
<1>12. ASSUME NEW u \in Threads, LockSerial(u) PROVE Control(t)'
  BY <1>12
  DEF LockSerial, Answer, SetOwner, Control, TypeOK, Threads
<1>13. ASSUME NEW u \in Threads, StatusBusy(u) PROVE Control(t)'
  BY <1>13
  DEF StatusBusy, Goto, Control, TypeOK, Threads
<1>14. ASSUME NEW u \in Threads, StatusBranch(u) PROVE Control(t)'
  BY <1>14
  DEF StatusBranch, Goto, Answer, Control, TypeOK, Threads
<1>15. ASSUME NEW u \in Threads, StatusOwner(u) PROVE Control(t)'
  BY <1>15
  DEF StatusOwner, Answer, Control, TypeOK, Threads
<1>16. ASSUME NEW u \in Threads, ProcessCommand(u) PROVE Control(t)'
  BY <1>16
  DEF ProcessCommand, Answer, Control, TypeOK, Threads
<1>17. ASSUME NEW u \in Threads, Return(u) PROVE Control(t)'
  BY <1>17
  DEF Return, Control, TypeOK, Threads
<1>18. CASE UNCHANGED vars
  BY <1>18
  DEF vars, Control, TypeOK, Threads
<1>. QED
  BY <1>1, <1>2, <1>3, <1>4, <1>5, <1>6, <1>7, <1>8, <1>9, <1>10,
     <1>11, <1>12, <1>13, <1>14, <1>15, <1>16, <1>17, <1>18
  DEF Next, ThreadStep, LockStep

(* What a thread knows about the lock survives the steps of the other one:  *)
(* held only grows during a call, and a session is lost only by a force.    *)
LEMMA KnowsStep ==
  /\ TypeOK /\ TypeOK'
  /\ \A t \in Threads : Control(t) /\ Knows(t)
  /\ [Next]_vars
  => (\A t \in Threads : Knows(t))'
<1>. SUFFICES ASSUME TypeOK, TypeOK', \A t \in Threads : Control(t) /\ Knows(t),
                     [Next]_vars, NEW t \in Threads
              PROVE  Knows(t)'
  OBVIOUS
<1>1. ASSUME NEW c \in Commands \union Endpoint, HttpRequest(c) PROVE Knows(t)'
  BY <1>1, CommandsAssumption
  DEF HttpRequest, Enter, Goto, FirstStep, Bypass, Command, Endpoint, Control, Knows, TypeOK, Threads, Owner, Other
<1>2. ASSUME HttpBadRequest PROVE Knows(t)'
  BY <1>2
  DEF HttpBadRequest, Answer, Control, Knows, TypeOK, Threads, Owner, Other
<1>3. ASSUME NEW c \in Commands, SerialLine(c) PROVE Knows(t)'
  BY <1>3, CommandsAssumption
  DEF SerialLine, Enter, Goto, Control, Knows, TypeOK, Threads, Owner, Other
<1>4. ASSUME NEW u \in Threads, IsBusy(u) PROVE Knows(t)'
  BY <1>4
  DEF IsBusy, Goto, Control, Knows, TypeOK, Threads, Owner, Other
<1>5. ASSUME NEW u \in Threads, TryAcquire(u) PROVE Knows(t)'
  BY <1>5
  DEF TryAcquire, Goto, SetOwner, Control, Knows, TypeOK, Threads, Owner, Other
<1>6. ASSUME NEW u \in Threads, AcquireFails(u) PROVE Knows(t)'
  BY <1>6
  DEF AcquireFails, Goto, Answer, Control, Knows, TypeOK, Threads, Owner, Other
<1>7. ASSUME NEW u \in Threads, CheckOwner(u) PROVE Knows(t)'
  BY <1>7
  DEF CheckOwner, Goto, Control, Knows, TypeOK, Threads, Owner, Other
<1>8. ASSUME NEW u \in Threads, NotOwner(u) PROVE Knows(t)'
  BY <1>8
  DEF NotOwner, Answer, Control, Knows, TypeOK, Threads, Owner, Other
<1>9. ASSUME NEW u \in Threads, ProcessReset(u) PROVE Knows(t)'
  BY <1>9
  DEF ProcessReset, Goto, Answer, Control, Knows, TypeOK, Threads, Owner, Other
<1>10. ASSUME NEW u \in Threads, Release(u) PROVE Knows(t)'
  BY <1>10
  DEF Release, Answer, SetOwner, Control, Knows, TypeOK, Threads, Owner, Other
<1>11. ASSUME NEW u \in Threads, ForceRelease(u) PROVE Knows(t)'
  BY <1>11
  DEF ForceRelease, Answer, SetOwner, Control, Knows, TypeOK, Threads, Owner, Other
<1>12. ASSUME NEW u \in Threads, LockSerial(u) PROVE Knows(t)'
  BY <1>12
  DEF LockSerial, Answer, SetOwner, Control, Knows, TypeOK, Threads, Owner, Other
<1>13. ASSUME NEW u \in Threads, StatusBusy(u) PROVE Knows(t)'
  BY <1>13
  DEF StatusBusy, Goto, Control, Knows, TypeOK, Threads, Owner, Other
<1>14. ASSUME NEW u \in Threads, StatusBranch(u) PROVE Knows(t)'
  BY <1>14
  DEF StatusBranch, Goto, Answer, Control, Knows, TypeOK, Threads, Owner, Other
<1>15. ASSUME NEW u \in Threads, StatusOwner(u) PROVE Knows(t)'
  BY <1>15
  DEF StatusOwner, Answer, Control, Knows, TypeOK, Threads, Owner, Other
<1>16. ASSUME NEW u \in Threads, ProcessCommand(u) PROVE Knows(t)'
  BY <1>16
  DEF ProcessCommand, Answer, Control, Knows, TypeOK, Threads, Owner, Other
<1>17. ASSUME NEW u \in Threads, Return(u) PROVE Knows(t)'
  BY <1>17
  DEF Return, Control, Knows, TypeOK, Threads, Owner, Other
<1>18. CASE UNCHANGED vars
  BY <1>18
  DEF vars, Control, Knows, TypeOK, Threads, Owner, Other
<1>. QED
  BY <1>1, <1>2, <1>3, <1>4, <1>5, <1>6, <1>7, <1>8, <1>9, <1>10,
     <1>11, <1>12, <1>13, <1>14, <1>15, <1>16, <1>17, <1>18
  DEF Next, ThreadStep, LockStep

(* The answer of /api/status under construction.                            *)
LEMMA StatusStep ==
  /\ TypeOK /\ TypeOK'
  /\ \A t \in Threads : Control(t) /\ Knows(t)
  /\ StatusKnows
  /\ [Next]_vars
  => StatusKnows'
<1>. SUFFICES ASSUME TypeOK, TypeOK', \A t \in Threads : Control(t) /\ Knows(t),
                     StatusKnows, [Next]_vars
              PROVE  StatusKnows'
  OBVIOUS
<1>1. ASSUME NEW c \in Commands \union Endpoint, HttpRequest(c) PROVE StatusKnows'
  BY <1>1, CommandsAssumption
  DEF HttpRequest, Enter, Goto, FirstStep, Bypass, Command, Endpoint, Control, Knows, StatusKnows, StatusNamesHolder, NoStatus, TypeOK, Threads, Owner, Other
<1>2. ASSUME HttpBadRequest PROVE StatusKnows'
  BY <1>2
  DEF HttpBadRequest, Answer, Control, Knows, StatusKnows, StatusNamesHolder, NoStatus, TypeOK, Threads, Owner, Other
<1>3. ASSUME NEW c \in Commands, SerialLine(c) PROVE StatusKnows'
  BY <1>3, CommandsAssumption
  DEF SerialLine, Enter, Goto, Control, Knows, StatusKnows, StatusNamesHolder, NoStatus, TypeOK, Threads, Owner, Other
<1>4. ASSUME NEW u \in Threads, IsBusy(u) PROVE StatusKnows'
  BY <1>4
  DEF IsBusy, Goto, Control, Knows, StatusKnows, StatusNamesHolder, NoStatus, TypeOK, Threads, Owner, Other
<1>5. ASSUME NEW u \in Threads, TryAcquire(u) PROVE StatusKnows'
  BY <1>5
  DEF TryAcquire, Goto, SetOwner, Control, Knows, StatusKnows, StatusNamesHolder, NoStatus, TypeOK, Threads, Owner, Other
<1>6. ASSUME NEW u \in Threads, AcquireFails(u) PROVE StatusKnows'
  BY <1>6
  DEF AcquireFails, Goto, Answer, Control, Knows, StatusKnows, StatusNamesHolder, NoStatus, TypeOK, Threads, Owner, Other
<1>7. ASSUME NEW u \in Threads, CheckOwner(u) PROVE StatusKnows'
  BY <1>7
  DEF CheckOwner, Goto, Control, Knows, StatusKnows, StatusNamesHolder, NoStatus, TypeOK, Threads, Owner, Other
<1>8. ASSUME NEW u \in Threads, NotOwner(u) PROVE StatusKnows'
  BY <1>8
  DEF NotOwner, Answer, Control, Knows, StatusKnows, StatusNamesHolder, NoStatus, TypeOK, Threads, Owner, Other
<1>9. ASSUME NEW u \in Threads, ProcessReset(u) PROVE StatusKnows'
  BY <1>9
  DEF ProcessReset, Goto, Answer, Control, Knows, StatusKnows, StatusNamesHolder, NoStatus, TypeOK, Threads, Owner, Other
<1>10. ASSUME NEW u \in Threads, Release(u) PROVE StatusKnows'
  BY <1>10
  DEF Release, Answer, SetOwner, Control, Knows, StatusKnows, StatusNamesHolder, NoStatus, TypeOK, Threads, Owner, Other
<1>11. ASSUME NEW u \in Threads, ForceRelease(u) PROVE StatusKnows'
  BY <1>11
  DEF ForceRelease, Answer, SetOwner, Control, Knows, StatusKnows, StatusNamesHolder, NoStatus, TypeOK, Threads, Owner, Other
<1>12. ASSUME NEW u \in Threads, LockSerial(u) PROVE StatusKnows'
  BY <1>12
  DEF LockSerial, Answer, SetOwner, Control, Knows, StatusKnows, StatusNamesHolder, NoStatus, TypeOK, Threads, Owner, Other
<1>13. ASSUME NEW u \in Threads, StatusBusy(u) PROVE StatusKnows'
  BY <1>13
  DEF StatusBusy, Goto, Control, Knows, StatusKnows, StatusNamesHolder, NoStatus, TypeOK, Threads, Owner, Other
<1>14. ASSUME NEW u \in Threads, StatusBranch(u) PROVE StatusKnows'
  BY <1>14
  DEF StatusBranch, Goto, Answer, Control, Knows, StatusKnows, StatusNamesHolder, NoStatus, TypeOK, Threads, Owner, Other
<1>15. ASSUME NEW u \in Threads, StatusOwner(u) PROVE StatusKnows'
  BY <1>15
  DEF StatusOwner, Answer, Control, Knows, StatusKnows, StatusNamesHolder, NoStatus, TypeOK, Threads, Owner, Other
<1>16. ASSUME NEW u \in Threads, ProcessCommand(u) PROVE StatusKnows'
  BY <1>16
  DEF ProcessCommand, Answer, Control, Knows, StatusKnows, StatusNamesHolder, NoStatus, TypeOK, Threads, Owner, Other
<1>17. ASSUME NEW u \in Threads, Return(u) PROVE StatusKnows'
  BY <1>17
  DEF Return, Control, Knows, StatusKnows, StatusNamesHolder, NoStatus, TypeOK, Threads, Owner, Other
<1>18. CASE UNCHANGED vars
  BY <1>18
  DEF vars, Control, Knows, StatusKnows, StatusNamesHolder, NoStatus, TypeOK, Threads, Owner, Other
<1>. QED
  BY <1>1, <1>2, <1>3, <1>4, <1>5, <1>6, <1>7, <1>8, <1>9, <1>10,
     <1>11, <1>12, <1>13, <1>14, <1>15, <1>16, <1>17, <1>18
  DEF Next, ThreadStep, LockStep

(* The inductive invariant holds in every reachable state.                  *)
THEOREM Invariant == Spec => []IInv
<1>1. Init => IInv
  BY DEF Init, IInv, TypeOK, Threads, Owner, Steps, Replies, NoStatus, NoCommand,
         Control, Knows, StatusKnows, StatusNamesHolder
<1>2. IInv /\ [Next]_vars => IInv'
  BY TypeStep, ControlStep, KnowsStep, StatusStep DEF IInv
<1>. QED
  BY <1>1, <1>2, PTL DEF Spec

-----------------------------------------------------------------------------
(* Two commands on the shared state overlap only after a force release.     *)
THEOREM Exclusion == Spec => []ExclusiveUnlessForced
<1>1. IInv => ExclusiveUnlessForced
  <2>. SUFFICES ASSUME IInv, \A t \in Threads : Working(t), robbed = {}
                PROVE  FALSE
    BY DEF ExclusiveUnlessForced
  <2>1. owner = "HTTP" /\ owner = "SERIAL"
    BY DEF IInv, Knows, Working, Threads
  <2>. QED
    BY <2>1
<1>. QED
  BY <1>1, Invariant, PTL

(* A busy answer is the truth at some moment of the call.                   *)
THEOREM BusyTruth == Spec => []BusyIsHonest
<1>1. IInv => BusyIsHonest
  BY DEF IInv, Knows, BusyIsHonest
<1>. QED
  BY <1>1, Invariant, PTL

(* An OK to AT+RESET means that the caller's session existed and ended.     *)
THEOREM ResetTruth == Spec => []ResetOkEndsSession
<1>1. IInv => ResetOkEndsSession
  BY DEF IInv, Knows, ResetOkEndsSession
<1>. QED
  BY <1>1, Invariant, PTL

(* /api/status names a side that held the lock during the request.          *)
THEOREM StatusTruth == Spec => []StatusNamesHolder
<1>1. IInv => StatusNamesHolder
  BY DEF IInv, StatusKnows
<1>. QED
  BY <1>1, Invariant, PTL

-----------------------------------------------------------------------------
(* A session ends only by its owner's RESET or by a force release.          *)
LEMMA SessionEndsStep ==
  TypeOK /\ [Next]_vars => \A t \in Threads : SessionEnds(t)
<1>. SUFFICES ASSUME TypeOK, [Next]_vars, NEW t \in Threads
              PROVE  SessionEnds(t)
  OBVIOUS
<1>1. ASSUME UNCHANGED owner PROVE SessionEnds(t)
  BY <1>1 DEF SessionEnds
<1>2. ASSUME NEW u \in Threads, TryAcquire(u) PROVE SessionEnds(t)
  BY <1>2 DEF TryAcquire, SetOwner, SessionEnds, Threads
<1>3. ASSUME NEW u \in Threads, Release(u) PROVE SessionEnds(t)
  BY <1>3 DEF Release, SetOwner, SessionEnds
<1>4. ASSUME NEW u \in Threads, ForceRelease(u) PROVE SessionEnds(t)
  BY <1>4 DEF ForceRelease, SetOwner, Answer, SessionEnds, TypeOK
<1>5. ASSUME NEW u \in Threads, LockSerial(u) PROVE SessionEnds(t)
  BY <1>5 DEF LockSerial, SetOwner, SessionEnds, Threads
<1>6. UNCHANGED owner \/ \E u \in Threads :
        TryAcquire(u) \/ Release(u) \/ ForceRelease(u) \/ LockSerial(u)
  BY DEF Next, ThreadStep, LockStep, HttpRequest, HttpBadRequest, SerialLine, Enter,
         IsBusy, AcquireFails, CheckOwner, NotOwner, ProcessReset, StatusBusy,
         StatusBranch, StatusOwner, ProcessCommand, Return, vars
<1>. QED
  BY <1>1, <1>2, <1>3, <1>4, <1>5, <1>6

(* SessionEndsByOwnerOrForce: owner_ goes back to NONE only by the RESET of  *)
(* its owner or by a force release.                                          *)
THEOREM SessionEnding == Spec => SessionEndsByOwnerOrForce
<1>1. TypeOK /\ [Next]_vars => [\A t \in Threads : SessionEnds(t)]_vars
  BY SessionEndsStep
<1>. QED
  BY <1>1, TypeCorrect, PTL DEF Spec, SessionEndsByOwnerOrForce

-----------------------------------------------------------------------------
(* The lock implements SessionAbs: every step is a step of the abstract     *)
(* session or leaves it unchanged.                                          *)

(* Outside the lock accesses nothing changes for the abstract session.      *)
LEMMA Stutters ==
  ASSUME IInv,
         \/ \E c \in Commands \union Endpoint : HttpRequest(c)
         \/ HttpBadRequest
         \/ \E c \in Commands : SerialLine(c)
         \/ \E u \in Threads :
              \/ IsBusy(u) \/ AcquireFails(u) \/ NotOwner(u) \/ ProcessReset(u)
              \/ StatusBusy(u) \/ StatusBranch(u) \/ StatusOwner(u) \/ Return(u)
         \/ UNCHANGED vars
  PROVE  UNCHANGED <<owner, Running>>
<1>1. ASSUME NEW c \in Commands \union Endpoint, HttpRequest(c)
      PROVE  UNCHANGED <<owner, Running>>
  BY <1>1, CommandsAssumption
  DEF HttpRequest, Enter, Goto, FirstStep, Bypass, Command, Endpoint, IInv, TypeOK,
      Running, Working, Threads
<1>2. ASSUME HttpBadRequest PROVE UNCHANGED <<owner, Running>>
  BY <1>2 DEF HttpBadRequest, Answer, IInv, TypeOK, Running, Working, Threads
<1>3. ASSUME NEW c \in Commands, SerialLine(c) PROVE UNCHANGED <<owner, Running>>
  BY <1>3 DEF SerialLine, Enter, Goto, IInv, TypeOK, Running, Working, Threads
<1>4. ASSUME NEW u \in Threads, IsBusy(u) PROVE UNCHANGED <<owner, Running>>
  BY <1>4
  DEF IsBusy, Goto, IInv, TypeOK, Running, Working, Threads
<1>5. ASSUME NEW u \in Threads, AcquireFails(u) PROVE UNCHANGED <<owner, Running>>
  BY <1>5
  DEF AcquireFails, Goto, Answer, IInv, TypeOK, Running, Working, Threads
<1>6. ASSUME NEW u \in Threads, NotOwner(u) PROVE UNCHANGED <<owner, Running>>
  BY <1>6
  DEF NotOwner, Answer, IInv, TypeOK, Running, Working, Threads
<1>7. ASSUME NEW u \in Threads, ProcessReset(u) PROVE UNCHANGED <<owner, Running>>
  BY <1>7
  DEF ProcessReset, Goto, Answer, IInv, TypeOK, Running, Working, Threads
<1>8. ASSUME NEW u \in Threads, StatusBusy(u) PROVE UNCHANGED <<owner, Running>>
  BY <1>8
  DEF StatusBusy, Goto, IInv, TypeOK, Running, Working, Threads
<1>9. ASSUME NEW u \in Threads, StatusBranch(u) PROVE UNCHANGED <<owner, Running>>
  BY <1>9
  DEF StatusBranch, Goto, Answer, IInv, TypeOK, Running, Working, Threads
<1>10. ASSUME NEW u \in Threads, StatusOwner(u) PROVE UNCHANGED <<owner, Running>>
  BY <1>10
  DEF StatusOwner, Answer, IInv, TypeOK, Running, Working, Threads
<1>11. ASSUME NEW u \in Threads, Return(u) PROVE UNCHANGED <<owner, Running>>
  BY <1>11
  DEF Return, IInv, TypeOK, Running, Working, Threads
<1>12. CASE UNCHANGED vars
  BY <1>12 DEF vars, Running, Working
<1>. QED
  BY <1>1, <1>2, <1>3, <1>4, <1>5, <1>6, <1>7, <1>8, <1>9, <1>10, <1>11, <1>12

(* Every step of SessionLock is a step of SessionAbs or a stutter.           *)
LEMMA ImplementationStep ==
  IInv /\ [Next]_vars => [Abs!Next]_(Abs!vars)
<1>. SUFFICES ASSUME IInv, [Next]_vars PROVE Abs!Next \/ UNCHANGED Abs!vars
  OBVIOUS
<1>. USE DEF IInv, TypeOK
<1>1. ASSUME NEW u \in Threads, TryAcquire(u) PROVE Abs!Next
  <2>1. Running' \in {Running, Running \union {u}}
    BY <1>1 DEF TryAcquire, Goto, SetOwner, Running, Working, Threads
  <2>. QED
    BY <1>1, <2>1 DEF TryAcquire, SetOwner, Abs!Next, Abs!Grant
<1>2. ASSUME NEW u \in Threads, CheckOwner(u) PROVE Abs!Next
  <2>1. Running' \in {Running, Running \union {u}}
    BY <1>2 DEF CheckOwner, Goto, Running, Working, Threads
  <2>. QED
    BY <1>2, <2>1 DEF CheckOwner, Abs!Next, Abs!Grant
<1>3. ASSUME NEW u \in Threads, ProcessCommand(u)
      PROVE  Abs!Next \/ UNCHANGED Abs!vars
  <2>1. Running' = Running \ {u}
    BY <1>3 DEF ProcessCommand, Answer, Running, Working, Threads
  <2>. QED
    BY <1>3, <2>1 DEF ProcessCommand, Abs!Next, Abs!Finish, Abs!vars
<1>4. ASSUME NEW u \in Threads, Release(u) PROVE Abs!Next \/ UNCHANGED Abs!vars
  <2>1. UNCHANGED Running /\ u \notin Running
    BY <1>4 DEF Release, Answer, SetOwner, Running, Working, Threads
  <2>. QED
    BY <1>4, <2>1 DEF Release, SetOwner, Abs!Next, Abs!Release, Abs!vars
<1>5. ASSUME NEW u \in Threads, ForceRelease(u) PROVE Abs!Next
  <2>1. Running' = {}
    BY <1>5 DEF ForceRelease, Answer, SetOwner, Running, Working, Knows, Threads
  <2>. QED
    BY <1>5, <2>1 DEF ForceRelease, SetOwner, Abs!Next, Abs!Force
<1>6. ASSUME NEW u \in Threads, LockSerial(u) PROVE Abs!Next \/ UNCHANGED Abs!vars
  <2>1. UNCHANGED Running
    BY <1>6 DEF LockSerial, Answer, SetOwner, Running, Working, Threads
  <2>. QED
    BY <1>6, <2>1 DEF LockSerial, SetOwner, Abs!Next, Abs!Grant, Abs!vars, Threads
<1>. QED
  BY <1>1, <1>2, <1>3, <1>4, <1>5, <1>6, Stutters
  DEF Next, ThreadStep, LockStep, Abs!vars

(* The session lock gives the exclusion that its clients rely on.           *)
THEOREM Implementation == Spec => ImplementsAbs
<1>1. Init => Abs!Init
  BY DEF Init, Abs!Init, Running, Working, Threads
<1>. QED
  BY <1>1, ImplementationStep, Invariant, PTL DEF Spec, ImplementsAbs, Abs!Spec
=============================================================================
