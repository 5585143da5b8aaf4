--------------------------- MODULE MCFileObjects ---------------------------
(***************************************************************************)
(* A root directory and two more clusters, two names.                      *)
(***************************************************************************)
EXTENDS FileObjects, TLC

CONSTANTS a, b

Names == {a, b}
Alike == Permutations(Names)
=============================================================================
