---------------------------- MODULE MCSerialLine ----------------------------
(***************************************************************************)
(* Lines for the model checking of SerialLine: two that fit and one that   *)
(* is too long, and only fits when its beginning is dropped.               *)
(***************************************************************************)
EXTENDS SerialLine

MCLineLens == <<2, 1, 3>>
=============================================================================
