----------------------------- MODULE Checksums -----------------------------
(***************************************************************************)
(* The two checksums of an upload.  Their objects share nothing; a         *)
(* behaviour exercises one of them.                                        *)
(***************************************************************************)
EXTENDS Crc16, Md5Stream

Init == CrcInit /\ Md5Init

Next ==
  \/ md5 = Fresh /\ CrcNext /\ UNCHANGED md5vars
  \/ len = 0 /\ Md5Next /\ UNCHANGED crcvars

Spec == Init /\ [][Next]_<<crcvars, md5vars>>
=============================================================================
