---------------------------- MODULE ClusterPool -----------------------------
(***************************************************************************)
(* What the FAT promises its callers (the comments on FAT::resize and      *)
(* FAT::freeClus in library/fat32.h): every owner has a sequence of        *)
(* clusters of its own, which grows at its end by clusters nobody has,     *)
(* is cut to a prefix, is given back whole, or changes hands.              *)
(***************************************************************************)
EXTENDS Integers, Sequences, SequencesExt

CONSTANTS
    Data,    \* the data clusters of the volume
    Owner    \* the directory entries that hold clusters

VARIABLE chain   \* the clusters of every owner, in order

Held == UNION {ToSet(chain[o]) : o \in Owner}

Init ==
    /\ chain \in [Owner -> Seq(Data)]
    /\ \A o \in Owner : IsInjective(chain[o])
    /\ \A o, q \in Owner : o # q => ToSet(chain[o]) \cap ToSet(chain[q]) = {}

\* All or nothing: a refused extension is a stuttering step.
Extend(o) ==
    /\ chain' \in [Owner -> Seq(Data)]
    /\ \A q \in Owner \ {o} : chain'[q] = chain[q]
    /\ IsStrictPrefix(chain[o], chain'[o])
    /\ IsInjective(chain'[o])
    /\ (ToSet(chain'[o]) \ ToSet(chain[o])) \cap Held = {}

Cut(o) ==
    \E n \in 0 .. Len(chain[o]) - 1 :
        chain' = [chain EXCEPT ![o] = SubSeq(@, 1, n)]

Exchange(o, q) ==
    chain' = [chain EXCEPT ![o] = chain[q], ![q] = chain[o]]

Next ==
    \/ \E o \in Owner : Extend(o) \/ Cut(o)
    \/ \E o, q \in Owner : Exchange(o, q)

Spec == Init /\ [][Next]_chain
=============================================================================
