------------------------------ MODULE FatTable ------------------------------
(***************************************************************************)
(* The file allocation table of library/fat32.cpp (class FAT) together     *)
(* with the first-cluster fields of the files and directories that hand    *)
(* their chains to it.  An entry of the table is free (0), the number of   *)
(* the next cluster of a chain, or an end-of-chain mark; entries 0 and 1   *)
(* are reserved.  The driver is single threaded, so one call of File       *)
(* (truncate, selfDestruct, exchangeMetaData) or FAT (availClusCnt) is one *)
(* step, with everything that call does to the table.                      *)
(*                                                                         *)
(* The copies of the table (BPB_num_fats) are written together by          *)
(* writeFatEntry and only copy 0 is ever read: one table stands for all.   *)
(***************************************************************************)
EXTENDS Integers, Sequences, FiniteSets, FiniteSetsExt

CONSTANTS
    CountOfClusters,  \* cnt_of_clus_: data clusters, numbered from 2
    Word,             \* 2^32 in the program: where a u32 counter wraps
    Owner,            \* directory entries that hold a first cluster number
    Dir,              \* the owners that are directories (File::isDir)
    Root,             \* the root directory
    MaxRequest,       \* bound: clusters asked of one resize
    Images            \* the volumes that may be mounted

Data  == 2 .. CountOfClusters + 1
Entry == 0 .. CountOfClusters + 1

\* The end-of-chain mark: above every entry number, as 0x0FFFFFF8 is.
EOC == CountOfClusters + 2

\* 0xFFFFFFFF in free_count_, and an empty avail_clus_cnt_.
Unknown == -1

isValidCluster(c) == c \notin {0, 1}
isEndOfClusChain(v) == v >= EOC

(***************************************************************************)
(* Walking a chain: Walk(t, c)[n] is the cluster reached from c after      *)
(* following n entries of t; past the end mark the walk stays on the mark. *)
(***************************************************************************)
Walk(t, c) ==
    LET at[n \in Nat] ==
          IF n = 0 THEN c
          ELSE LET prev == at[n - 1] IN IF prev \in Entry THEN t[prev] ELSE EOC
    IN  at

\* The clusters a walk visits; none when c is not a valid cluster number.
Clusters(t, c) ==
    IF isValidCluster(c)
    THEN LET at == Walk(t, c) IN {at[n] : n \in Entry} \cap Entry
    ELSE {}

\* The walk meets an end mark: the loops over a chain terminate.
Ends(t, c) ==
    isValidCluster(c) => \E p \in Clusters(t, c) : isEndOfClusChain(t[p])

\* The vector readClusChains returns.
readClusChains(t, c) ==
    LET at == Walk(t, c)
    IN  [i \in 1 .. Cardinality(Clusters(t, c)) |-> at[i - 1]]

(***************************************************************************)
(* A well-formed volume: links lead from used entry to used data cluster,  *)
(* no cluster has two predecessors, first clusters have none and differ.   *)
(***************************************************************************)
Reserved(t) == t[0] = EOC /\ t[1] = EOC
LinksToUsed(t) ==
    \A c \in Entry : t[c] \in Entry \ {0} => t[c] \in Data /\ t[t[c]] # 0
OnePredecessor(t) ==
    \A c, d \in Entry : t[c] = t[d] /\ t[c] \in Data => c = d
HeadsUsed(t, h) == \A o \in Owner : h[o] # 0 => h[o] \in Data /\ t[h[o]] # 0
HeadsDiffer(t, h) ==
    \A o, q \in Owner : h[o] = h[q] /\ h[o] # 0 => o = q
HeadsFirst(t, h) ==
    \A o \in Owner : h[o] # 0 => \A c \in Entry : t[c] # h[o]

WellFormed(t, h) ==
    /\ Reserved(t)
    /\ LinksToUsed(t)
    /\ OnePredecessor(t)
    /\ HeadsUsed(t, h)
    /\ HeadsDiffer(t, h)
    /\ HeadsFirst(t, h)

ASSUME SizesAssumption ==
    /\ CountOfClusters \in Nat \ {0}
    /\ Word \in Nat /\ Word > CountOfClusters
    /\ MaxRequest \in Nat

ASSUME OwnersAssumption == Dir \subseteq Owner /\ Root \in Dir

\* A volume to mount: its table, the first clusters its directory entries
\* name, and free_count of its FSInfo sector.
ASSUME ImagesAssumption ==
    \A im \in Images :
        /\ im.fat \in [Entry -> 0 .. EOC]
        /\ im.fst \in [Owner -> {0} \cup Data]
        /\ im.free_count \in Entry \cup {Unknown}
        /\ WellFormed(im.fat, im.fst)

VARIABLES
    fat,     \* the table
    fst,     \* fst_clus_ of every owner, 0 when it has no cluster
    avail,   \* avail_clus_cnt_: Unknown until first asked for
    hint,    \* free_count_: consumed by the first allocation
    status   \* "running", or "aborted" once an assertion failed

vars == <<fat, fst, avail, hint, status>>

TypeOK ==
    /\ fat \in [Entry -> 0 .. EOC]
    /\ fst \in [Owner -> Entry]
    /\ avail \in (0 .. Word - 1) \cup {Unknown}
    /\ hint \in Entry \cup {Unknown}
    /\ status \in {"running", "aborted"}

-----------------------------------------------------------------------------
(***************************************************************************)
(* Counting and allocating.                                                *)
(***************************************************************************)

\* What the counting and allocating loops see: they stop after
\* CountOfClusters entries, counted from entry 0.
Seen(t) == {c \in 0 .. CountOfClusters - 1 : t[c] = 0}

\* FAT::availClusCnt: the cached count, or a scan.
availClusCnt == IF avail = Unknown THEN Cardinality(Seen(fat)) ELSE avail

\* Faults of the counter: no wrap, and a count begun at zero by an update.
AvailPlusNoWrap(a, n) == IF a = Unknown THEN a ELSE a + n
AvailPlusFromZero(a, n) == (IF a = Unknown THEN n ELSE a + n) % Word

\* inc_avail_cnt and dec_avail_cnt: nothing while there is no count,
\* u32 arithmetic otherwise.
AvailPlus(a, n) == IF a = Unknown THEN a ELSE (a + n) % Word

Hinted == hint # Unknown

\* The entries the allocation scan finds free.  A hint taken before the scan
\* is found again exactly when it is the lowest free entry: nothing is
\* written to it until the scan's first find.
Scanned ==
    LET free == Seen(fat)
    IN  IF Hinted /\ free # {} /\ hint # Min(free) THEN free \ {hint} ELSE free

\* Fault: the hinted cluster is not counted.
WantedAll(n) == n

\* The clusters the scan contributes to a request.
Wanted(n) == IF Hinted THEN n - 1 ELSE n
Picked(n) == {c \in Scanned : Cardinality({d \in Scanned : d < c}) < Wanted(n)}

\* The scan runs out before the request is met: the assertion after it.
RunsOut(n) == Cardinality(Scanned) < Wanted(n)

\* First cluster of the allocated chain, and the rest of it.
First(n) == IF Hinted THEN hint ELSE Min(Picked(n))
Rest(n)  == Picked(n) \ {First(n)}

\* Fault: the last entry of the chain is not marked.
LinkNoMark(t, first, rest) ==
    [c \in Entry |->
        LET later == {d \in rest : c = first \/ d > c}
        IN  IF c \in {first} \cup rest /\ later # {} THEN Min(later) ELSE t[c]]

\* The entries written by allocClus: first, then rest in ascending order,
\* each linked to the next and the last one marked.  Entry 0 is not linked.
Link(t, first, rest) ==
    [c \in Entry |->
        IF c \in rest \/ (c = first /\ (c # 0 \/ rest = {}))
        THEN LET later == {d \in rest : c = first \/ d > c}
             IN  IF later = {} THEN EOC ELSE Min(later)
        ELSE t[c]]

-----------------------------------------------------------------------------
Init ==
    /\ \E im \in Images : fat = im.fat /\ fst = im.fst /\ hint = im.free_count
    /\ avail = Unknown
    /\ status = "running"

Size(o) == Cardinality(Clusters(fat, fst[o]))

\* The requests callers make: a regular file takes any size, a directory
\* keeps at least one cluster.
Request(o) == IF o \in Dir THEN 1 .. MaxRequest ELSE 0 .. MaxRequest

\* File::truncate, the chain has n clusters or more: the n-th becomes the
\* last and the ones behind it are freed (and the count decremented).
Shrink(o, n) ==
    /\ status = "running" /\ n \in Request(o)
    /\ Ends(fat, fst[o]) /\ Size(o) >= n
    /\ LET at  == Walk(fat, fst[o])
           cut == {at[i] : i \in n .. Size(o) - 1}
       IN  /\ fat' = [c \in Entry |-> IF c \in cut THEN 0
                                      ELSE IF n > 0 /\ c = at[n - 1] THEN EOC
                                      ELSE fat[c]]
           /\ avail' = AvailPlus(avail, n - Size(o))
    /\ fst' = [fst EXCEPT ![o] = IF n = 0 THEN 0 ELSE @]
    /\ UNCHANGED <<hint, status>>

\* File::truncate, more clusters wanted than the count admits: the count may
\* have been computed for the question, nothing else happens.
GrowRefused(o, n) ==
    /\ status = "running" /\ n \in Request(o)
    /\ Ends(fat, fst[o]) /\ Size(o) < n
    /\ availClusCnt < n - Size(o)
    /\ avail' = availClusCnt
    /\ UNCHANGED <<fat, fst, hint, status>>

\* File::truncate, clusters allocated and appended behind the last one.
Grow(o, n) ==
    LET more  == n - Size(o)
        first == First(more)
        rest  == Rest(more)
    IN  /\ status = "running" /\ n \in Request(o)
        /\ Ends(fat, fst[o]) /\ more > 0
        /\ availClusCnt >= more /\ ~RunsOut(more)
        /\ o \in Dir => \A c \in {first} \cup rest : isValidCluster(c)
        /\ LET linked == Link(fat, first, rest)
           IN  IF isValidCluster(fst[o])
               THEN /\ \E p \in Clusters(fat, fst[o]) :
                         /\ isEndOfClusChain(fat[p])
                         /\ fat' = [linked EXCEPT ![p] = first]
                    /\ fst' = fst
               ELSE fat' = linked /\ fst' = [fst EXCEPT ![o] = first]
        /\ avail' = AvailPlus(availClusCnt, -more)
        /\ hint' = Unknown
        /\ UNCHANGED status

\* File::truncate, an assertion fails: the scan ends without enough free
\* entries although the count admitted the request, or the new clusters of a
\* directory are to be cleared and one is not a cluster number.  The process
\* is gone, its table is not followed further.
GrowAborts(o, n) ==
    LET more == n - Size(o)
    IN  /\ status = "running" /\ n \in Request(o)
        /\ Ends(fat, fst[o]) /\ more > 0
        /\ availClusCnt >= more
        /\ \/ RunsOut(more)
           \/ /\ o \in Dir /\ ~RunsOut(more)
              /\ \E c \in {First(more)} \cup Rest(more) : ~isValidCluster(c)
        /\ status' = "aborted"
        /\ UNCHANGED <<fat, fst, avail, hint>>

\* Faults: only the first cluster is released; the owner keeps its number.
FreeClusHead(o) ==
    /\ status = "running" /\ o # Root
    /\ fat' = [fat EXCEPT ![fst[o]] = IF fst[o] \in Data THEN 0 ELSE @]
    /\ fst' = [fst EXCEPT ![o] = 0]
    /\ UNCHANGED <<avail, hint, status>>
FreeClusKeepsHead(o) ==
    /\ status = "running" /\ o # Root
    /\ Ends(fat, fst[o])
    /\ LET gone == Clusters(fat, fst[o])
       IN  fat' = [c \in Entry |-> IF c \in gone THEN 0 ELSE fat[c]]
    /\ UNCHANGED <<fst, avail, hint, status>>

\* File::selfDestruct: FAT::freeClus on the first cluster; the directory
\* entry is gone.  The root directory is never destroyed.
FreeClus(o) ==
    /\ status = "running" /\ o # Root
    /\ Ends(fat, fst[o])
    /\ LET gone == Clusters(fat, fst[o])
       IN  /\ fat' = [c \in Entry |-> IF c \in gone THEN 0 ELSE fat[c]]
           /\ avail' = AvailPlus(avail, Cardinality(gone))
    /\ fst' = [fst EXCEPT ![o] = 0]
    /\ UNCHANGED <<hint, status>>

\* Fault: only one of the two files is changed.
ExchangeOneSided(o, q) ==
    /\ status = "running" /\ o # q
    /\ Root \notin {o, q} /\ (o \in Dir <=> q \in Dir)
    /\ fst' = [fst EXCEPT ![o] = fst[q]]
    /\ UNCHANGED <<fat, avail, hint, status>>

\* File::exchangeMetaData, called by rename on two files or two directories.
ExchangeMetaData(o, q) ==
    /\ status = "running" /\ o # q
    /\ Root \notin {o, q} /\ (o \in Dir <=> q \in Dir)
    /\ fst' = [fst EXCEPT ![o] = fst[q], ![q] = fst[o]]
    /\ UNCHANGED <<fat, avail, hint, status>>

\* statfs: availClusCnt computes the count and keeps it.
Statfs ==
    /\ status = "running"
    /\ avail' = availClusCnt
    /\ UNCHANGED <<fat, fst, hint, status>>

\* A clean unmount and a new mount: a new FAT object.  FSInfo holds
\* 0xFFFFFFFF since FAT32fs::from overwrote it at the first mount.
Remount ==
    /\ status = "running"
    /\ avail' = Unknown /\ hint' = Unknown
    /\ UNCHANGED <<fat, fst, status>>

Next ==
    \/ \E o \in Owner, n \in 0 .. MaxRequest :
          Shrink(o, n) \/ GrowRefused(o, n) \/ Grow(o, n) \/ GrowAborts(o, n)
    \/ \E o \in Owner : FreeClus(o)
    \/ \E o, q \in Owner : ExchangeMetaData(o, q)
    \/ Statfs
    \/ Remount

Spec == Init /\ [][Next]_vars

-----------------------------------------------------------------------------
(***************************************************************************)
(* The volumes on which free_count names a free cluster, or nothing.       *)
(***************************************************************************)
FreeHint(t, h) == h = Unknown \/ (h \in Data /\ t[h] = 0)
TrustedHints == \A im \in Images : FreeHint(im.fat, im.free_count)

-----------------------------------------------------------------------------
(***************************************************************************)
(* Properties.                                                             *)
(***************************************************************************)

\* Two directory entries never share a cluster: whatever sequence of
\* truncates, unlinks and renames ran, the chains readClusChains walks from
\* different first clusters are disjoint (no cross-linked files).
ChainsDisjoint ==
    \A o, q \in Owner :
        o # q => Clusters(fat, fst[o]) \cap Clusters(fat, fst[q]) = {}

\* Every chain is a chain of allocated data clusters and reaches an end mark,
\* so that no walk of freeClus, resize or readClusChains meets a freed or a
\* reserved entry or runs for ever.
ChainsSound ==
    \A o \in Owner :
        /\ Ends(fat, fst[o])
        /\ \A c \in Clusters(fat, fst[o]) : c \in Data /\ fat[c] # 0

\* No cluster is lost: an entry that is not free is in the chain of some
\* owner, so that resize and freeClus give back all they cut off.
NothingLost ==
    \A c \in Data : fat[c] # 0 => \E o \in Owner : c \in Clusters(fat, fst[o])

\* A resize that returns true leaves a chain of exactly the clusters asked
\* for, starting with the ones the owner had (File::truncate).
ResizeExact ==
    [][\A o \in Owner, n \in 0 .. MaxRequest :
          Shrink(o, n) \/ Grow(o, n) =>
            LET old == readClusChains(fat, fst[o])
                new == readClusChains(fat', fst'[o])
            IN  /\ Len(new) = n
                /\ \A i \in 1 .. Min({n, Len(old)}) : new[i] = old[i]]_vars

\* Refinement: every owner's chain is the sequence readClusChains returns.
Pool == INSTANCE ClusterPool
            WITH chain <- [o \in Owner |-> readClusChains(fat, fst[o])]

\* The table implements the pool of clusters: every step of the FAT is an
\* extension by clusters nobody held, a cut, an exchange or no change of the
\* chains (FAT::resize, FAT::freeClus and their comments).
RefinesPool == Pool!Spec

Free(t) == {c \in Data : t[c] = 0}

\* Every step but a shrink moves the cached count by exactly the clusters it
\* takes from or gives back to the volume, modulo the width of the counter: the
\* last two, which no scan sees, and the hinted one included.  A step that asks
\* for the count first begins with the one it computes.  (inc_avail_cnt,
\* dec_avail_cnt; a shrink moves it the wrong way, see CountRestored.)
AvailFollows ==
    [][avail' # Unknown /\ ~ (\E o \in Owner, n \in 0 .. MaxRequest : Shrink(o, n))
       => (avail' - availClusCnt) % Word
              = (Cardinality(Free(fat')) - Cardinality(Free(fat))) % Word]_vars

\* After everything allocated was released again the count is what it was
\* before (test_fat32.cpp, AllocFree: "check available cnt").
CountRestored ==
    avail # Unknown /\ (\E im \in Images : fat = im.fat)
        => avail = Cardinality(Seen(fat))

\* Space is refused only when the data clusters that are free do not suffice:
\* clusters up to CountOfClusters + 1 are valid (fat32.h, getCountOfClusters).
RefusedOnlyWhenFull ==
    [][\A o \in Owner, n \in 0 .. MaxRequest :
          GrowRefused(o, n) =>
            Cardinality(Free(fat)) < n - Size(o)]_vars

\* The scan of an allocation meets the request it was begun for, so that its end
\* is not reached ("assert(false); // unreachable", fat32.cpp): the count
\* admits no request for more clusters than the scan finds free.
ScanSuffices ==
    [][\A o \in Owner, n \in 0 .. MaxRequest :
          GrowAborts(o, n) => ~RunsOut(n - Size(o))]_vars
=============================================================================
