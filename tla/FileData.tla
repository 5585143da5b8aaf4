------------------------------ MODULE FileData ------------------------------
(***************************************************************************)
(* The data of files: File::read, write and truncate (library/fs.cpp) over *)
(* the chain of a file, which its object reads from the table when it      *)
(* first needs it and keeps until the length changes.  Offsets and lengths *)
(* are u32.  Which clusters a resize takes is the business of FatTable:    *)
(* here it takes the lowest free ones.                                     *)
(***************************************************************************)
EXTENDS Integers, Sequences, FiniteSets, SequencesExt

CONSTANTS
    File,
    SectorSize,         \* BPB_bytes_per_sec
    SectorsPerCluster,  \* BPB_sec_per_clus
    ClusterCount,       \* clusters of the volume
    Content,
    Unknown,                \* a byte nobody wrote
    Word,               \* 2^32
    Offset,             \* bounds: where a write begins,
    Length,             \*   how many bytes it has,
    NewSize             \*   the lengths setattr asks for

ASSUME DataAssumption ==
    /\ SectorSize \in Nat \ {0} /\ SectorsPerCluster \in Nat \ {0}
    /\ ClusterCount \in Nat \ {0}
    /\ Unknown \notin Content
    /\ Word \in Nat \ {0}
    /\ Offset \subseteq Nat /\ Length \subseteq Nat \ {0} /\ NewSize \subseteq Nat

VARIABLES
    chain,     \* clusters of every file in the table
    size,      \* file_sz_
    cached,    \* clus_chain_: NoChain, or the chain when it was read
    data,      \* bytes of every cluster
    expected   \* history: what a reader of each file should find

dataVars == <<chain, size, cached, data, expected>>

ClusterSize == SectorSize * SectorsPerCluster
Cluster == 1 .. ClusterCount
NoChain == <<0>>
Smaller(m, n) == IF m < n THEN m ELSE n

-----------------------------------------------------------------------------
(***************************************************************************)
(* Sectors of a file.                                                      *)
(***************************************************************************)
readClusChain(c, table) == IF c = NoChain THEN table ELSE c

\* sector_no and the data behind it: cluster and byte of byte b of sector n.
HasSector(c, n) == n < Len(c) * SectorsPerCluster
sector_no(c, n, b) ==
    <<c[n \div SectorsPerCluster + 1], (n % SectorsPerCluster) * SectorSize + b>>

\* Fault: the first sector counts as a whole one.
placeWhole(offset, k) ==
    <<(offset \div SectorSize) + (k \div SectorSize), (offset + k) % SectorSize>>

\* The loops of read and write: sector and byte for byte k of the buffer.  The
\* first sector is entered at off_in_bytes, every later one at its start.
place(offset, k) ==
    LET head == SectorSize - (offset % SectorSize)
        rest == k - head
    IN  IF k < head THEN <<offset \div SectorSize, (offset % SectorSize) + k>>
        ELSE <<(offset \div SectorSize) + 1 + (rest \div SectorSize), rest % SectorSize>>

\* Where the first n bytes of a buffer go, up to the sector there is not.
target(c, offset, n) ==
    [k \in {i \in 0 .. n - 1 : HasSector(c, place(offset, i)[1])} |->
        sector_no(c, place(offset, k)[1], place(offset, k)[2])]

\* File::read of n bytes: what it puts into the buffer.
read(f, n, offset) ==
    LET found == target(readClusChain(cached[f], chain[f]), offset, Smaller(n, size[f] - offset))
    IN  [k \in {i + 1 : i \in DOMAIN found} |-> data[found[k - 1][1]][found[k - 1][2]]]

\* What the loop of File::write stores.
stored(c, offset, buf) ==
    LET to == target(c, offset, Len(buf))
    IN  [q \in Cluster |-> [p \in 0 .. ClusterSize - 1 |->
            LET hits == {k \in DOMAIN to : to[k] = <<q, p>>}
            IN  IF hits = {} THEN data[q][p] ELSE buf[(CHOOSE k \in hits : TRUE) + 1]]]

-----------------------------------------------------------------------------
(***************************************************************************)
(* truncate.                                                               *)
(***************************************************************************)
taken == UNION {ToSet(chain[f]) : f \in File}
Ascending(S) ==
    CHOOSE s \in [1 .. Cardinality(S) -> S] : \A i, j \in DOMAIN s : i < j => s[i] < s[j]
\* Fault: the scan goes one cluster too far.
FreeClustersPast == Ascending((1 .. ClusterCount + 1) \ taken)
FreeClusters == Ascending(Cluster \ taken)

Clusters(length) == IF length = 0 THEN 0 ELSE (length - 1) \div ClusterSize + 1
Fits(f, length) == Clusters(length) <= Len(chain[f]) + Len(FreeClusters)
resized(f, length) ==
    IF Clusters(length) <= Len(chain[f]) THEN SubSeq(chain[f], 1, Clusters(length))
    ELSE chain[f] \o SubSeq(FreeClusters, 1, Clusters(length) - Len(chain[f]))

\* Fault: the object keeps the chain it knows.
forgottenNever(f) == cached
forgotten(f) == [cached EXCEPT ![f] = NoChain]

\* What a reader expects of a file whose length is set: bytes nobody wrote
\* hold anything, they are what the cluster held before.
SetLength(content, length) ==
    [p \in 1 .. length |-> IF p <= Len(content) THEN content[p] ELSE Unknown]
Put(content, offset, buf) ==
    [p \in 1 .. Len(content) |->
        IF p - offset \in 1 .. Len(buf) THEN buf[p - offset] ELSE content[p]]

-----------------------------------------------------------------------------
(***************************************************************************)
(* The calls.                                                              *)
(***************************************************************************)
DataInit ==
    /\ chain = [f \in File |-> <<>>] /\ size = [f \in File |-> 0]
    /\ cached = [f \in File |-> NoChain]
    /\ data \in {[c \in Cluster |-> [p \in 0 .. ClusterSize - 1 |-> b]] : b \in Content}
    /\ expected = [f \in File |-> <<>>]

\* A write inside the file.
WriteInside(f, offset, buf) ==
    /\ (offset + Len(buf)) % Word < size[f]
    /\ LET c == readClusChain(cached[f], chain[f])
       IN  /\ data' = stored(c, offset, buf)
           /\ cached' = [cached EXCEPT ![f] = c]
    /\ expected' = [expected EXCEPT ![f] = Put(@, offset, buf)]
    /\ UNCHANGED <<chain, size>>

\* A write up to its end or beyond sets the length first; without the
\* clusters for it nothing is written.
WriteBeyond(f, offset, buf) ==
    LET end == (offset + Len(buf)) % Word
    IN  /\ end >= size[f] /\ Fits(f, end)
        /\ chain' = [chain EXCEPT ![f] = resized(f, end)]
        /\ size' = [size EXCEPT ![f] = end]
        /\ LET c == readClusChain(forgotten(f)[f], resized(f, end))
           IN  /\ data' = stored(c, offset, buf)
               /\ cached' = [forgotten(f) EXCEPT ![f] = c]
        /\ expected' = [expected EXCEPT ![f] = Put(SetLength(@, offset + Len(buf)), offset, buf)]

\* setattr with a size.
Truncate(f, length) ==
    /\ Fits(f, length % Word)
    /\ chain' = [chain EXCEPT ![f] = resized(f, length % Word)]
    /\ size' = [size EXCEPT ![f] = length % Word]
    /\ cached' = forgotten(f)
    /\ expected' = [expected EXCEPT ![f] = SetLength(@, length)]
    /\ UNCHANGED data

\* rename of g over f: the objects exchange what they hold, then that of g
\* frees the clusters it was left with.  The name is free for a new file.
Replace(f, g) ==
    /\ f # g
    /\ chain' = [chain EXCEPT ![f] = chain[g], ![g] = <<>>]
    /\ size' = [size EXCEPT ![f] = size[g], ![g] = 0]
    /\ cached' = [cached EXCEPT ![f] = NoChain, ![g] = NoChain]
    /\ expected' = [expected EXCEPT ![f] = expected[g], ![g] = <<>>]
    /\ UNCHANGED data

\* The object is evicted and made again; a read makes it know its chain.
Evict(f) ==
    /\ cached' = [cached EXCEPT ![f] = NoChain]
    /\ UNCHANGED <<chain, size, data, expected>>
Read(f) ==
    /\ size[f] > 0
    /\ cached' = [cached EXCEPT ![f] = readClusChain(@, chain[f])]
    /\ UNCHANGED <<chain, size, data, expected>>

DataNext ==
    \/ \E f \in File, offset \in Offset, n \in Length, b \in Content :
          LET buf == [k \in 1 .. n |-> b]
          IN  WriteInside(f, offset, buf) \/ WriteBeyond(f, offset, buf)
    \/ \E f \in File, length \in NewSize : Truncate(f, length)
    \/ \E f, g \in File : Replace(f, g)
    \/ \E f \in File : Evict(f) \/ Read(f)

DataSpec == DataInit /\ [][DataNext]_dataVars

-----------------------------------------------------------------------------
(***************************************************************************)
(* Properties.                                                             *)
(***************************************************************************)
DataTyped ==
    /\ chain \in [File -> Seq(Cluster)] /\ size \in [File -> 0 .. Word - 1]
    /\ cached \in [File -> Seq(Cluster) \cup {NoChain}]
    /\ data \in [Cluster -> [0 .. ClusterSize - 1 -> Content]]
    /\ expected \in [File -> Seq(Content \cup {Unknown})]

\* A read of any length at any offset returns the bytes written there last,
\* up to the end of the file, and its number: none is lost at the border of a
\* sector or of a cluster, none comes from another file, after any sequence of
\* writes, truncates and renames (fat32_read, fat32_write, fat32_setattr).
ReadsWritten ==
    \A f \in File : \A offset, n \in 0 .. Len(expected[f]) + 1 :
        LET got == read(f, n, offset)
        IN  /\ DOMAIN got = {k \in 1 .. n : offset + k <= Len(expected[f])}
            /\ \A k \in DOMAIN got : expected[f][offset + k] \in {Unknown, got[k]}

\* A chain an object keeps is the one in the table, and holds exactly the
\* clusters the length asks for: "This field should never be used, use
\* readClusChain() instead" (fs.h).
ChainFresh ==
    \A f \in File :
        /\ cached[f] \in {NoChain, chain[f]}
        /\ Len(chain[f]) * ClusterSize \in size[f] .. size[f] + ClusterSize - 1
=============================================================================
