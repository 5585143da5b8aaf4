----------------------------- MODULE MCFatTable -----------------------------
(***************************************************************************)
(* Small volumes for TLC: six data clusters (2..7), of which the scans of  *)
(* the program see 2..5, a root directory, one more directory and two      *)
(* regular files.                                                          *)
(***************************************************************************)
EXTENDS FatTable, TLC

CONSTANTS root, sub, a, b

MCOwner == {root, sub, a, b}
MCDir == {root, sub}

Table(links) == [c \in 0 .. CountOfClusters + 1 |->
    IF c \in {0, 1} THEN CountOfClusters + 2
    ELSE IF c \in DOMAIN links THEN links[c] ELSE 0]
Eoc == CountOfClusters + 2
Heads(r, s, x, y) == (root :> r) @@ (sub :> s) @@ (a :> x) @@ (b :> y)

\* mkfs: the root has cluster 2 and free_count is the number of free
\* clusters, taken by the program as the number of a free one.
Formatted == [fat |-> Table(2 :> Eoc), fst |-> Heads(2, 0, 0, 0),
              free_count |-> CountOfClusters - 1]

\* Used by another driver: fragmented chains, clusters above the scanned
\* part in use, FSInfo marked unknown.
Used == [fat |-> Table((2 :> 7) @@ (7 :> Eoc) @@ (5 :> 3) @@ (3 :> Eoc)),
         fst |-> Heads(2, 0, 5, 0), free_count |-> Unknown]

\* The same volume as its driver leaves it with a free count in FSInfo (two
\* free clusters, 4 and 6): the number taken as a free cluster is 2.
UsedCounted == [Used EXCEPT !.free_count = 2]

\* A file of three clusters behind the root leaves 6 and 7 and cluster 3
\* free: the count, 3, is the number of the lowest free cluster.
LowestHint == [fat |-> Table((2 :> Eoc) @@ (4 :> 5) @@ (5 :> Eoc)),
               fst |-> Heads(2, 0, 4, 0), free_count |-> 3]

HealthyImages == {Formatted, Used}
CountedImages == {UsedCounted}
LowestImages == {LowestHint}
=============================================================================
