----------------------------- MODULE MCDirTable -----------------------------
(***************************************************************************)
(* A directory of up to two clusters, three names, one of them long enough *)
(* for three entries where none is listed.                                 *)
(***************************************************************************)
EXTENDS DirTable, TLC

CONSTANTS a, b, c

Names == {a, b, c}
EntriesNeeded == (a :> 2) @@ (b :> 2) @@ (c :> 3)
TwoEach == [n \in Names |-> 2]

\* Contents of clusters the directory does not hold.
Stale == Short(NoName, NewMeta)

Directory(entries) ==
    [chain |-> <<0>>,
     cell  |-> [p \in 0 .. ClusterCount * PerCluster - 1 |->
        IF p >= PerCluster THEN Stale
        ELSE IF p < Dots THEN Short(NoName, NewMeta)
        ELSE IF p - Dots + 1 <= Len(entries) THEN entries[p - Dots + 1] ELSE Zeroed]]

\* A new directory, and one of another driver in which a short name has no
\* long entries.
Fresh == Directory(<<>>)
Shortened(n) == Directory(<<Short(n, NewMeta)>>)

StartDirectories == {Fresh} \cup {Shortened(n) : n \in {a, b}}
ListedDirectories == {Fresh, Shortened(a)}

\* a and b take as many entries and stand for each other.
Alike == Permutations({a, b})
=============================================================================
