--------------------------- MODULE MCUploadSession ---------------------------
(***************************************************************************)
(* Values of the constants of UploadSession for model checking.            *)
(***************************************************************************)
EXTENDS UploadSession, TLC

CONSTANTS a, b, app, boot, appTmp, bootTmp, HTTP, SERIAL

MCTmpOf    == app :> appTmp @@ boot :> bootTmp
MCAnnounced == {<<a, b>>, <<b>>}
MCFrames   == {<<a>>, <<b>>}

\* The handlers are the same for both sides.
MCSymmetry == Permutations({HTTP, SERIAL})
=============================================================================
