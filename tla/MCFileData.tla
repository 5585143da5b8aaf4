----------------------------- MODULE MCFileData -----------------------------
(***************************************************************************)
(* Two files on a volume of a few clusters of two sectors of two bytes.    *)
(***************************************************************************)
EXTENDS FileData, TLC

CONSTANTS f1, f2, b0, b1

Files == {f1, f2}
Bytes == {b0, b1}

\* Files stand for each other, and so do bytes.
Alike == Permutations(Files) \cup Permutations(Bytes)
=============================================================================
