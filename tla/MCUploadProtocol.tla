-------------------------- MODULE MCUploadProtocol --------------------------
(***************************************************************************)
(* Values of the constants of UploadProtocol for model checking: two       *)
(* symbols, uploads of up to two bytes, two file names.                    *)
(***************************************************************************)
EXTENDS UploadProtocol, TLC

CONSTANTS a, b, app, boot

MCSymbols == {a, b}
MCTmpOf   == [n \in {app, boot} |-> <<"upload", n>>]

Frame(d, n) == [data |-> d, declared |-> n]

(* Frames of one and two bytes;     a declared length that is off by one,   *)
(* and one that is off by the range of frame_len, scaled down to 8.         *)
MCFrames ==
  {Frame(d, Len(d)) : d \in {<<a>>, <<b>>, <<a, b>>}}
    \union {Frame(<<a>>, 2), Frame(<<a>>, 9)}

MCDigests == {<<b>>, <<a, b>>}

MCSymmetry == Permutations({app, boot})
=============================================================================
