----------------------------- MODULE SessionLock -----------------------------
(***************************************************************************)
(* The global session lock of SerialDaemon and the two threads that use    *)
(* it: the libmicrohttpd thread (handleCommand, handleReset, handleStatus, *)
(* the debug endpoint) and the serial reader thread.  Every access to the  *)
(* atomic owner_ is a step of its own, so the threads interleave exactly   *)
(* where the program lets them.                                            *)
(*                                                                         *)
(* A thread is named by the Owner value it passes to the lock.  What a     *)
(* command does besides the lock is left to the other modules: LOCAL       *)
(* stands for every command that touches no shared state (STATUS, VERSION, *)
(* HELP, VERIFY, a malformed line), WORK for those that use the static     *)
(* UploadState or FlashOp.                                                 *)
(***************************************************************************)
CONSTANTS Commands,    \* AT commands a client may send: [act, exact] records
          DebugBuild   \* TRUE when NDEBUG is not defined

Threads == {"HTTP", "SERIAL"}
Owner   == Threads \union {"NONE"}

(* exact: spelled as handleCommand compares it (upper case, no trailing    *)
(* blank).  process() itself trims and upper-cases, so it accepts both.    *)
Command  == [act : {"RESET", "FORCERESET", "LOCAL", "WORK"}, exact : BOOLEAN]
Endpoint == [act : {"APISTATUS", "APIRESET"}
                     \union IF DebugBuild THEN {"LOCKSERIAL"} ELSE {},
             exact : {TRUE}]
NoCommand == [act |-> "LOCAL", exact |-> TRUE]

ASSUME CommandsAssumption == Commands \subseteq Command /\ DebugBuild \in BOOLEAN

VARIABLES
  owner,    \* SerialDaemon::owner_
  pc,       \* pc[t]: the next access of thread t
  cmd,      \* cmd[t]: the command or endpoint thread t serves
  reply,    \* reply[t]: the answer of the call, once there is one
  status,   \* what /api/status has read: daemon_busy and lock_owner
  held,     \* history: the values owner has had since t's call began
  robbed    \* history: the threads a force release took the lock from
            \* in the middle of their call

vars == <<owner, pc, cmd, reply, status, held, robbed>>

Steps   == {"idle", "isbusy", "acquire", "owner", "process", "release",
            "status1", "status2", "status3", "reply"}
Replies == {"none", "ok", "busy", "denied", "conflict", "bad"}
NoStatus == [busy |-> FALSE, name |-> "NONE"]

TypeOK ==
  /\ owner \in Owner
  /\ pc \in [Threads -> Steps]
  /\ cmd \in [Threads -> Commands \union Endpoint \union {NoCommand}]
  /\ reply \in [Threads -> Replies]
  /\ status \in [busy : BOOLEAN, name : Owner]
  /\ held \in [Threads -> SUBSET Owner]
  /\ robbed \subseteq Threads

Init ==
  /\ owner = "NONE"
  /\ pc = [t \in Threads |-> "idle"]
  /\ cmd = [t \in Threads |-> NoCommand]
  /\ reply = [t \in Threads |-> "none"]
  /\ status = NoStatus
  /\ held = [t \in Threads |-> {}]
  /\ robbed = {}

-----------------------------------------------------------------------------
(* Steps of a thread                                                       *)

Goto(t, p) == pc' = [pc EXCEPT ![t] = p] /\ UNCHANGED reply

Answer(t, r) ==
  /\ pc' = [pc EXCEPT ![t] = "reply"]
  /\ reply' = [reply EXCEPT ![t] = r]

SetOwner(o) ==
  /\ owner' = o
  /\ held' = [t \in Threads |-> held[t] \union {o}]

Enter(t, c, p) ==
  /\ pc[t] = "idle"
  /\ Goto(t, p)
  /\ cmd' = [cmd EXCEPT ![t] = c]
  /\ held' = [held EXCEPT ![t] = {owner}]
  /\ robbed' = robbed \ {t}
  /\ UNCHANGED <<owner, status>>

(* handleCommand lets these two reach the processor whoever holds the lock. *)
Bypass(c) == c.act \in {"RESET", "FORCERESET"} /\ c.exact

FirstStep(c) ==
  CASE c.act = "APISTATUS" -> "status1"
    [] c.act \in {"APIRESET", "LOCKSERIAL"} \/ Bypass(c) -> "process"
    [] OTHER -> "isbusy"

HttpRequest(c) == Enter("HTTP", c, FirstStep(c))

(* 400: the body is not JSON or has no string "cmd"; the lock is not used.  *)
HttpBadRequest ==
  /\ pc["HTTP"] = "idle"
  /\ Answer("HTTP", "bad")
  /\ UNCHANGED <<owner, cmd, status, held, robbed>>

SerialLine(c) == Enter("SERIAL", c, "acquire")

(* Mutant: every holder is taken for a foreign one.                         *)
IsBusy_NoReuse(t) ==
  /\ pc[t] = "isbusy"
  /\ IF owner = "NONE" THEN Goto(t, "acquire") ELSE Answer(t, "busy")
  /\ UNCHANGED <<owner, cmd, status, held, robbed>>

(* is_busy() of handleCommand, before try_acquire or owner().               *)
IsBusy(t) ==
  /\ pc[t] = "isbusy"
  /\ Goto(t, IF owner = "NONE" THEN "acquire" ELSE "owner")
  /\ UNCHANGED <<owner, cmd, status, held, robbed>>

(* Mutant: a plain store after the is_busy() test, no compare-and-swap.     *)
TryAcquire_Store(t) ==
  /\ pc[t] = "acquire"
  /\ SetOwner(t)
  /\ robbed' = robbed \ {t}
  /\ Goto(t, "process")
  /\ UNCHANGED <<cmd, status>>

(* try_acquire(): a compare-and-swap NONE -> t.                             *)
TryAcquire(t) ==
  /\ pc[t] = "acquire"
  /\ owner = "NONE"
  /\ SetOwner(t)
  /\ robbed' = robbed \ {t}
  /\ Goto(t, "process")
  /\ UNCHANGED <<cmd, status>>

(* When it fails, HTTP answers 503 and the serial reader looks at the owner.*)
AcquireFails(t) ==
  /\ pc[t] = "acquire"
  /\ owner # "NONE"
  /\ IF t = "HTTP" THEN Answer(t, "busy") ELSE Goto(t, "owner")
  /\ UNCHANGED <<owner, cmd, status, held, robbed>>

(* Mutant: a taken lock is accepted whoever took it.                        *)
CheckOwner_AnyHolder(t) ==
  /\ pc[t] = "owner"
  /\ owner # "NONE"
  /\ Goto(t, "process")
  /\ robbed' = robbed \ {t}
  /\ UNCHANGED <<owner, cmd, status, held>>

(* owner() == t continues the session.                                      *)
CheckOwner(t) ==
  /\ pc[t] = "owner"
  /\ owner = t
  /\ Goto(t, "process")
  /\ robbed' = robbed \ {t}
  /\ UNCHANGED <<owner, cmd, status, held>>

(* Mutant: the loser spins until the lock is its own instead of answering.  *)
NotOwner_Spin(t) ==
  /\ pc[t] = "owner"
  /\ owner # t
  /\ Goto(t, "acquire")
  /\ UNCHANGED <<owner, cmd, status, held, robbed>>

(* Anything else, a free lock included, is answered BUSY.                   *)
NotOwner(t) ==
  /\ pc[t] = "owner"
  /\ owner # t
  /\ Answer(t, "busy")
  /\ UNCHANGED <<owner, cmd, status, held, robbed>>

-----------------------------------------------------------------------------
(* AtCommand::process and the endpoints that act on the lock               *)

ProcessCommand(t) ==
  /\ pc[t] = "process"
  /\ cmd[t].act \in {"LOCAL", "WORK"}
  /\ Answer(t, "ok")
  /\ UNCHANGED <<owner, cmd, status, held, robbed>>

(* Mutant: handle_reset relies on release() to refuse a foreign caller.     *)
ProcessReset_NoCheck(t) ==
  /\ pc[t] = "process"
  /\ cmd[t].act = "RESET"
  /\ Goto(t, "release")
  /\ UNCHANGED <<owner, cmd, status, held, robbed>>

(* handle_reset, first access: owner() != caller is refused.                *)
ProcessReset(t) ==
  /\ pc[t] = "process"
  /\ cmd[t].act = "RESET"
  /\ IF owner # t THEN Answer(t, "denied") ELSE Goto(t, "release")
  /\ UNCHANGED <<owner, cmd, status, held, robbed>>

(* Mutant: release() stores NONE, trusting the earlier owner() test.        *)
Release_Store(t) ==
  /\ pc[t] = "release"
  /\ SetOwner("NONE")
  /\ Answer(t, "ok")
  /\ UNCHANGED <<cmd, status, robbed>>

(* handle_reset, second access: release() is a compare-and-swap t -> NONE   *)
(* and its failure is only logged; the answer is OK either way.             *)
Release(t) ==
  /\ pc[t] = "release"
  /\ IF owner = t THEN SetOwner("NONE") ELSE UNCHANGED <<owner, held>>
  /\ Answer(t, "ok")
  /\ UNCHANGED <<cmd, status, robbed>>

(* force_release(): an unconditional exchange.                              *)
ForceRelease(t) ==
  /\ pc[t] = "process"
  /\ cmd[t].act \in {"FORCERESET", "APIRESET"}
  /\ SetOwner("NONE")
  /\ robbed' = robbed \union ({owner} \ {"NONE"})
  /\ Answer(t, "ok")
  /\ UNCHANGED <<cmd, status>>

(* Mutant: the debug endpoint takes it in a name of its own.                *)
LockSerial_Debug(t) ==
  /\ pc[t] = "process"
  /\ cmd[t].act = "LOCKSERIAL"
  /\ SetOwner("DEBUG")
  /\ Answer(t, "ok")
  /\ UNCHANGED <<cmd, status, robbed>>

(* The debug endpoint takes the lock in the name of the serial side.        *)
LockSerial(t) ==
  /\ pc[t] = "process"
  /\ cmd[t].act = "LOCKSERIAL"
  /\ IF owner = "NONE"
       THEN SetOwner("SERIAL") /\ Answer(t, "ok")
       ELSE Answer(t, "conflict") /\ UNCHANGED <<owner, held>>
  /\ UNCHANGED <<cmd, status, robbed>>

(* handleStatus loads owner_ up to three times: is_busy() for daemon_busy,  *)
(* is_busy() for the branch, owner() for the name of the holder.            *)
StatusBusy(t) ==
  /\ pc[t] = "status1"
  /\ status' = [status EXCEPT !.busy = (owner # "NONE")]
  /\ Goto(t, "status2")
  /\ UNCHANGED <<owner, cmd, held, robbed>>

StatusBranch(t) ==
  /\ pc[t] = "status2"
  /\ IF owner # "NONE" THEN Goto(t, "status3") ELSE Answer(t, "ok")
  /\ UNCHANGED <<owner, cmd, status, held, robbed>>

(* Mutant: the name is chosen by a test for SERIAL.                         *)
StatusOwner_TestSerial(t) ==
  /\ pc[t] = "status3"
  /\ status' = [status EXCEPT !.name = IF owner = "SERIAL" THEN "SERIAL" ELSE "HTTP"]
  /\ Answer(t, "ok")
  /\ UNCHANGED <<owner, cmd, held, robbed>>

StatusOwner(t) ==
  /\ pc[t] = "status3"
  /\ status' = [status EXCEPT !.name = IF owner = "HTTP" THEN "HTTP" ELSE "SERIAL"]
  /\ Answer(t, "ok")
  /\ UNCHANGED <<owner, cmd, held, robbed>>

(* The answer leaves; the thread waits for its next request or line.        *)
Return(t) ==
  /\ pc[t] = "reply"
  /\ pc' = [pc EXCEPT ![t] = "idle"]
  /\ reply' = [reply EXCEPT ![t] = "none"]
  /\ status' = IF t = "HTTP" THEN NoStatus ELSE status
  /\ UNCHANGED <<owner, cmd, held, robbed>>

(* The accesses to the lock, without the commands themselves.               *)
LockStep(t) ==
  \/ IsBusy(t) \/ TryAcquire(t) \/ AcquireFails(t) \/ CheckOwner(t) \/ NotOwner(t)
  \/ ProcessReset(t) \/ Release(t) \/ ForceRelease(t) \/ LockSerial(t)
  \/ StatusBusy(t) \/ StatusBranch(t) \/ StatusOwner(t)

ThreadStep(t) == LockStep(t) \/ ProcessCommand(t) \/ Return(t)

Next ==
  \/ \E c \in Commands \union Endpoint : HttpRequest(c)
  \/ HttpBadRequest
  \/ \E c \in Commands : SerialLine(c)
  \/ \E t \in Threads : ThreadStep(t)

Spec == Init /\ [][Next]_vars

(* The operating system runs each thread.  Clients need not send anything,  *)
(* and a command (a flash poll, AT+EXEC) may hang its thread for ever.      *)
FairSpec == Spec /\ \A t \in Threads : WF_vars(LockStep(t))

-----------------------------------------------------------------------------
(* Properties                                                              *)

Other(t)   == IF t = "HTTP" THEN "SERIAL" ELSE "HTTP"
Working(t) == pc[t] = "process" /\ cmd[t].act = "WORK"

(* Two commands on the shared upload and flash state run at the same time   *)
(* only after a force release took the session from one that was running:   *)
(* try_acquire, owner() and release() alone never let a second one in.      *)
ExclusiveUnlessForced ==
  (\A t \in Threads : Working(t)) => robbed # {}

(* A caller is told busy (503, or BUSY on the line) only if the other side  *)
(* had the lock at some moment of the call, or its own session was forced   *)
(* away in the middle of it: a side is never shut out by its own session.   *)
BusyIsHonest ==
  \A t \in Threads :
    reply[t] = "busy" => Other(t) \in held[t] \/ t \in robbed

(* AT+RESET answers OK only if the caller had the session in this call and  *)
(* that session ended before the answer, by its release() or by a force.    *)
ResetOkEndsSession ==
  \A t \in Threads :
    reply[t] = "ok" /\ cmd[t].act = "RESET" =>
      t \in held[t] /\ held[t] # {t}

(* lock_owner of /api/status names a side that did hold the lock during the *)
(* request, although the lock is read three times.  The exception is a      *)
(* force release of HTTP's own session between the reads.                   *)
StatusNamesHolder ==
  status.name # "NONE" => status.name \in held["HTTP"] \/ "HTTP" \in robbed

(* A session ends by AT+RESET of its owner or by a force release, and the   *)
(* lock is then free: it never passes from one side to the other directly,  *)
(* and a RESET delayed between owner() and release() ends no other session. *)
SessionEnds(t) ==
  owner = t /\ owner' # t =>
    /\ owner' = "NONE"
    /\ \/ pc[t] = "release"
       \/ \E u \in Threads :
            cmd[u].act \in {"FORCERESET", "APIRESET"} /\ reply'[u] = "ok"
SessionEndsByOwnerOrForce == [][\A t \in Threads : SessionEnds(t)]_vars

(* The lock gives the exclusion SessionAbs promises: commands under an      *)
(* unforced session, and the holder, follow that specification.             *)
Running == {t \in Threads : Working(t) /\ t \notin robbed}
Abs == INSTANCE SessionAbs
         WITH Sides <- Threads, holder <- owner, running <- Running
ImplementsAbs == Abs!Spec

(* The lock is non-blocking: a call gets past its lock accesses, to its     *)
(* command or to its answer, even if the other thread never moves again.    *)
LockNeverBlocks ==
  \A t \in Threads :
    pc[t] \in {"isbusy", "acquire", "owner"} ~> pc[t] \in {"process", "reply"}
=============================================================================
