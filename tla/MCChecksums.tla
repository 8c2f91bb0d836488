----------------------------- MODULE MCChecksums -----------------------------
(***************************************************************************)
(* Values of the constants of Checksums for model checking.  A garbled     *)
(* byte has any of its bits wrong, so it is any byte; those that were sent *)
(* are letters A.                                                          *)
(***************************************************************************)
EXTENDS Checksums

MCDataBytes  == {{6, 0}}
MCErrorBytes == Byte \ {{}}
=============================================================================
