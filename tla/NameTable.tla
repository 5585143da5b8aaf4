----------------------------- MODULE NameTable ------------------------------
(***************************************************************************)
(* What a directory promises: a finite map from names to the metadata of   *)
(* the files they stand for.  Every call changes it in one step; an object *)
(* writes the metadata of its own name back and nothing else.              *)
(***************************************************************************)
CONSTANTS Name, Meta

VARIABLE file   \* the names there are, each with its metadata

Init == \E S \in SUBSET Name : file \in [S -> Meta]

(* A name is added, removed, or its metadata changes. *)
Set(n, m) == file' = [k \in DOMAIN file \cup {n} |-> IF k = n THEN m ELSE file[k]]
Remove(n) == file' = [k \in DOMAIN file \ {n} |-> file[k]]

\* The file gets the new name, whether something had that name or not.
Rename(n, to) ==
    file' = [k \in (DOMAIN file \cup {to}) \ {n} |-> IF k = to THEN file[n] ELSE file[k]]

Next ==
    \/ \E n \in Name, m \in Meta : Set(n, m)
    \/ \E n \in DOMAIN file : Remove(n)
    \/ \E n \in DOMAIN file : \E to \in Name \ {n} : Rename(n, to)

Spec == Init /\ [][Next]_file
=============================================================================
