----------------------------- MODULE SessionAbs -----------------------------
(***************************************************************************)
(* What the global session lock of rk_firmware_flashd promises: at any     *)
(* time at most one side (HTTP or SERIAL) holds the session, and only the  *)
(* holder runs commands on the shared upload and flash state.  A session   *)
(* ends when its holder releases it or when an administrator forces it;    *)
(* a forced session also loses its protection.                             *)
(***************************************************************************)
CONSTANT Sides

VARIABLES holder,   \* the side that holds the session, or "NONE"
          running   \* the sides running a command under a live session

vars == <<holder, running>>

Init ==
  /\ holder = "NONE"
  /\ running = {}

(* A side opens a session or continues its own, to run a command or not.   *)
Grant(t) ==
  /\ holder \in {"NONE", t}
  /\ holder' = t
  /\ running' \in {running, running \union {t}}

(* A command ends; the session stays open for the side's next command.     *)
Finish(t) ==
  /\ t \in running
  /\ running' = running \ {t}
  /\ UNCHANGED holder

(* The holder ends its session, between two commands.                      *)
Release(t) ==
  /\ holder = t
  /\ t \notin running
  /\ holder' = "NONE"
  /\ UNCHANGED running

(* An administrative override ends whatever session there is.              *)
Force ==
  /\ holder' = "NONE"
  /\ running' = {}

Next ==
  \/ \E t \in Sides : Grant(t) \/ Finish(t) \/ Release(t)
  \/ Force

Spec == Init /\ [][Next]_vars
=============================================================================
