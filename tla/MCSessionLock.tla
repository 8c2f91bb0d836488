---------------------------- MODULE MCSessionLock ----------------------------
(***************************************************************************)
(* Values of the constants of SessionLock for model checking.              *)
(***************************************************************************)
EXTENDS SessionLock

Cmd(a, e) == [act |-> a, exact |-> e]

(* Every kind of command, the ones handleCommand compares by spelling in    *)
(* both spellings.                                                          *)
MCCommands ==
  {Cmd("RESET", TRUE), Cmd("RESET", FALSE),
   Cmd("FORCERESET", TRUE), Cmd("FORCERESET", FALSE),
   Cmd("LOCAL", TRUE), Cmd("WORK", TRUE)}
=============================================================================
