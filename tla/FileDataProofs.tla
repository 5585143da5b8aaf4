--------------------------- MODULE FileDataProofs ---------------------------
(***************************************************************************)
(* The data of files, for every size of a sector and of a cluster, every   *)
(* number of files and every offset, length and size whose sum stays below *)
(* 4 GiB: a read returns the bytes written last.                           *)
(***************************************************************************)
EXTENDS FileData, FiniteSetTheorems, SequenceTheorems, CommonLemmas

\* No end of a write and no length wraps in u32 (offset + size in File::write);
\* FileWrap.cfg shows what a write across 4 GiB does to the file.
NoWrap ==
    /\ \A offset \in Offset, n \in Length : offset + n < Word
    /\ \A length \in NewSize : length < Word

-----------------------------------------------------------------------------
\* Where byte o of a file with chain c lies.
Spot(c, o) == <<c[o \div ClusterSize + 1], o % ClusterSize>>
Capacity(c) == Len(c) * ClusterSize
At(d, s) == d[s[1]][s[2]]

\* A chain takes no cluster twice, and no two chains share one.
Distinct(c) == \A i, j \in 1 .. Len(c) : c[i] = c[j] => i = j
Apart(c, e) == \A i \in 1 .. Len(c), j \in 1 .. Len(e) : c[i] # e[j]
ChainsApart ==
    /\ \A f \in File : Distinct(chain[f])
    /\ \A f, g \in File : f # g => Apart(chain[f], chain[g])

\* Every byte a reader knows is where its chain says.
Placed ==
    \A f \in File :
        /\ Len(expected[f]) = size[f]
        /\ \A o \in 0 .. size[f] - 1 :
               expected[f][o + 1] \in {Unknown, At(data, Spot(chain[f], o))}

\* The inductive invariant: what is read back depends on the chains being
\* fresh and apart, for a write through a chain changes the bytes of one file.
IInv == DataTyped /\ ChainsApart /\ ChainFresh /\ Placed

-----------------------------------------------------------------------------
(***************************************************************************)
(* The operators.                                                          *)
(***************************************************************************)
\* A cluster is a whole number of sectors.
LEMMA ClusterSizeIs ==
    /\ ClusterSize \in Nat \ {0}
    /\ \A l \in Nat : SectorSize * (l * SectorsPerCluster) = l * ClusterSize
<1>1. SectorSize \in Nat \ {0} /\ SectorsPerCluster \in Nat \ {0}
  BY DataAssumption
<1>2. SectorSize * SectorsPerCluster \in Nat \ {0}
  BY <1>1, DivTwice
<1>3. ASSUME NEW l \in Nat
      PROVE  SectorSize * (l * SectorsPerCluster) = l * (SectorSize * SectorsPerCluster)
  BY <1>1
<1>4. QED
  BY <1>2, <1>3 DEF ClusterSize

\* The loops of File::read and File::write put byte k of the buffer at offset
\* + k of the file: none is lost where a sector begins.
LEMMA PlaceIs ==
    ASSUME NEW offset \in Nat, NEW k \in Nat
    PROVE  place(offset, k) = <<(offset + k) \div SectorSize, (offset + k) % SectorSize>>
<1> DEFINE d == SectorSize
           q == offset \div d
           r == offset % d
<1>1. d \in Nat \ {0}
  BY DataAssumption
<1>2. q \in Nat /\ r \in 0 .. d - 1 /\ offset = d * q + r
  BY <1>1, DivModIs
<1> HIDE DEF d, q, r
<1>3. CASE k < d - r
  <2>1. r + k \in 0 .. d - 1 /\ offset + k = d * q + (r + k)
    BY <1>1, <1>2, <1>3
  <2>2. (offset + k) \div d = q /\ (offset + k) % d = r + k
    BY <1>1, <1>2, <2>1, DivModOf
  <2>3. place(offset, k) = <<q, r + k>>
    BY <1>3 DEF place, d, q, r
  <2>4. QED
    BY <2>2, <2>3 DEF d
<1>4. CASE ~(k < d - r)
  <2> DEFINE rest == k - (d - r)
             p == rest \div d
             s == rest % d
  <2>1. rest \in Nat
    BY <1>1, <1>2, <1>4
  <2>2. p \in Nat /\ s \in 0 .. d - 1 /\ rest = d * p + s
    BY <1>1, <2>1, DivModIs
  <2>3. offset + k = d * q + d + rest
    BY <1>1, <1>2
  <2>4. place(offset, k) = <<q + 1 + p, s>>
    BY <1>4 DEF place, d, q, r
  <2> HIDE DEF rest, p, s
  <2>5. d * (q + 1 + p) = d * q + d + d * p
    BY <1>1, <1>2, <2>2
  <2>6. offset + k = d * (q + 1 + p) + s
    BY <1>1, <1>2, <2>1, <2>2, <2>3, <2>5
  <2>7. q + 1 + p \in Int
    BY <1>2, <2>2
  <2>8. (d * (q + 1 + p) + s) \div d = q + 1 + p /\ (d * (q + 1 + p) + s) % d = s
    BY <1>1, <2>2, <2>7, DivModOf
  <2>9. QED
    BY <2>4, <2>6, <2>8 DEF d
<1>5. QED
  BY <1>3, <1>4

\* The sector of an offset, and the byte in it, are cluster and byte of that
\* offset; a chain has the sectors of the bytes it has room for.
LEMMA SectorIs ==
    ASSUME NEW c \in Seq(Cluster), NEW offset \in Nat, NEW k \in Nat
    PROVE  LET at == place(offset, k)
           IN  /\ HasSector(c, at[1]) <=> offset + k < Capacity(c)
               /\ sector_no(c, at[1], at[2]) = Spot(c, offset + k)
<1> DEFINE d == SectorSize
           e == SectorsPerCluster
           o == offset + k
<1>1. d \in Nat \ {0} /\ e \in Nat \ {0} /\ o \in Nat /\ Len(c) \in Nat
  BY DataAssumption
<1>2. place(offset, k) = <<o \div d, o % d>>
  BY PlaceIs
<1> HIDE DEF o
<1>3. /\ (o \div d) \div e = o \div (d * e)
      /\ ((o \div d) % e) * d + (o % d) = o % (d * e)
  BY <1>1, DivTwice
<1>4. sector_no(c, o \div d, o % d) = Spot(c, o)
  BY <1>3 DEF sector_no, Spot, ClusterSize
<1>5. Len(c) * e \in Nat
  BY <1>1
<1>6. o \div d < Len(c) * e <=> o < d * (Len(c) * e)
  <2> DEFINE l == Len(c) * e
  <2> HIDE DEF l
  <2>1. l \in Nat
    BY <1>5 DEF l
  <2>2. o \div d < l <=> o < d * l
    BY <1>1, <2>1, DivLess
  <2>3. QED
    BY <2>2 DEF l
<1>7. d * (Len(c) * e) = Capacity(c)
  BY <1>1, ClusterSizeIs DEF Capacity
<1>8. HasSector(c, o \div d) <=> o < Capacity(c)
  BY <1>6, <1>7 DEF HasSector
<1>9. QED
  BY <1>2, <1>4, <1>8 DEF o

\* A chain has room for a natural number of bytes.
LEMMA CapacityIs ==
    ASSUME NEW c \in Seq(Cluster)
    PROVE  Capacity(c) \in Nat
<1> DEFINE d == ClusterSize
           l == Len(c)
<1>1. d \in Nat \ {0} /\ l \in Nat
  BY ClusterSizeIs
<1> HIDE DEF d, l
<1>2. l * d \in Int /\ l * 0 = 0 /\ l * 0 <= l * d
  BY <1>1, MulMono
<1>3. QED
  BY <1>2 DEF Capacity, d, l

\* The spots of a chain: clusters of it, and no spot twice.
LEMMA SpotIs ==
    ASSUME NEW c \in Seq(Cluster), NEW o \in Nat, o < Capacity(c)
    PROVE  /\ o \div ClusterSize + 1 \in 1 .. Len(c)
           /\ Spot(c, o)[1] \in Cluster /\ Spot(c, o)[2] \in 0 .. ClusterSize - 1
<1> DEFINE d == ClusterSize
           l == Len(c)
<1>1. d \in Nat \ {0} /\ l \in Nat
  BY ClusterSizeIs
<1>2. o < d * l
  BY <1>1 DEF Capacity
<1>3. o \div d \in Nat /\ o % d \in 0 .. d - 1
  BY <1>1, DivModIs
<1>4. o \div d < l
  <2> HIDE DEF d, l
  <2>1. QED
    BY <1>1, <1>2, DivLess
<1>5. o \div d + 1 \in 1 .. l
  BY <1>1, <1>3, <1>4
<1>6. QED
  BY <1>3, <1>5 DEF Spot

\* Two offsets of a file lie at two places of the disk.
LEMMA SpotOnce ==
    ASSUME NEW c \in Seq(Cluster), Distinct(c),
           NEW o \in Nat, o < Capacity(c), NEW p \in Nat, p < Capacity(c),
           Spot(c, o) = Spot(c, p)
    PROVE  o = p
<1> DEFINE d == ClusterSize
<1>1. d \in Nat \ {0}
  BY ClusterSizeIs
<1>2. /\ o \div d + 1 \in 1 .. Len(c) /\ p \div d + 1 \in 1 .. Len(c)
      /\ c[o \div d + 1] = c[p \div d + 1] /\ o % d = p % d
  BY SpotIs DEF Spot
<1>3. o \div d + 1 = p \div d + 1
  BY <1>2 DEF Distinct
<1>4. /\ o \div d \in Nat /\ o = d * (o \div d) + (o % d)
      /\ p \div d \in Nat /\ p = d * (p \div d) + (p % d)
  BY <1>1, DivModIs
<1> HIDE DEF d
<1>5. QED
  BY <1>2, <1>3, <1>4

\* Chains apart share no spot.
LEMMA SpotApart ==
    ASSUME NEW c \in Seq(Cluster), NEW e \in Seq(Cluster), Apart(c, e),
           NEW o \in Nat, o < Capacity(c), NEW p \in Nat, p < Capacity(e)
    PROVE  Spot(c, o) # Spot(e, p)
BY SpotIs DEF Spot, Apart

\* Every byte of the buffer has its place in the chain, as far as the chain
\* goes (the loops of File::read and File::write).
LEMMA TargetIs ==
    ASSUME NEW c \in Seq(Cluster), NEW offset \in Nat, NEW n \in Int
    PROVE  target(c, offset, n) =
             [k \in {i \in 0 .. n - 1 : offset + i < Capacity(c)} |-> Spot(c, offset + k)]
<1>1. ASSUME NEW k \in 0 .. n - 1
      PROVE  /\ HasSector(c, place(offset, k)[1]) <=> offset + k < Capacity(c)
             /\ sector_no(c, place(offset, k)[1], place(offset, k)[2]) = Spot(c, offset + k)
  <2>1. k \in Nat
    OBVIOUS
  <2>2. QED
    BY <2>1, SectorIs
<1>2. {i \in 0 .. n - 1 : HasSector(c, place(offset, i)[1])}
      = {i \in 0 .. n - 1 : offset + i < Capacity(c)}
  BY <1>1
<1>3. QED
  BY <1>1, <1>2 DEF target

\* File::write stores every byte of the buffer in its place and touches
\* nothing else.
LEMMA StoredIs ==
    ASSUME NEW c \in Seq(Cluster), Distinct(c), NEW offset \in Nat, NEW buf \in Seq(Content),
           data \in [Cluster -> [0 .. ClusterSize - 1 -> Content]]
    PROVE  LET after == stored(c, offset, buf)
           IN  /\ after \in [Cluster -> [0 .. ClusterSize - 1 -> Content]]
               /\ \A o \in Nat : o < Capacity(c) =>
                     At(after, Spot(c, o)) =
                       IF o - offset \in 0 .. Len(buf) - 1 THEN buf[o - offset + 1]
                       ELSE At(data, Spot(c, o))
               /\ \A q \in Cluster : (\A i \in 1 .. Len(c) : c[i] # q) => after[q] = data[q]
<1> DEFINE to == target(c, offset, Len(buf))
           hits(q, p) == {k \in DOMAIN to : to[k] = <<q, p>>}
           new(q, p) == IF hits(q, p) = {} THEN data[q][p]
                        ELSE buf[(CHOOSE k \in hits(q, p) : TRUE) + 1]
           after == stored(c, offset, buf)
           room == {i \in 0 .. Len(buf) - 1 : offset + i < Capacity(c)}
<1>1. Len(buf) \in Nat /\ buf \in [1 .. Len(buf) -> Content] /\ Capacity(c) \in Nat
  BY LenProperties, CapacityIs
<1>2. to = [k \in room |-> Spot(c, offset + k)]
  <2>1. Len(buf) \in Int
    BY <1>1
  <2>2. QED
    BY <2>1, TargetIs
<1>3. after = [q \in Cluster |-> [p \in 0 .. ClusterSize - 1 |-> new(q, p)]]
  BY DEF stored
<1> HIDE DEF to, after
<1>4. \A k \in room : offset + k \in Nat /\ offset + k < Capacity(c) /\ buf[k + 1] \in Content
  BY <1>1
<1>5. DOMAIN to = room
  BY <1>2
<1> HIDE DEF room
<1>6. \A q, p : hits(q, p) \in SUBSET room
  BY <1>5
<1>7. ASSUME NEW q \in Cluster, NEW p \in 0 .. ClusterSize - 1
      PROVE  new(q, p) \in Content
  <2>1. CASE hits(q, p) = {}
    BY <2>1
  <2>2. CASE hits(q, p) # {}
    <3>1. (CHOOSE k \in hits(q, p) : TRUE) \in room
      BY <1>6, <2>2
    <3>2. QED
      BY <1>4, <2>2, <3>1
  <2>3. QED
    BY <2>1, <2>2
<1>8. ASSUME NEW o \in Nat, o < Capacity(c)
      PROVE  At(after, Spot(c, o)) =
               IF o - offset \in 0 .. Len(buf) - 1 THEN buf[o - offset + 1]
               ELSE At(data, Spot(c, o))
  <2> DEFINE s == Spot(c, o)
  <2>1. s[1] \in Cluster /\ s[2] \in 0 .. ClusterSize - 1 /\ s = <<s[1], s[2]>>
    BY <1>8, SpotIs DEF Spot
  <2>2. At(after, s) = new(s[1], s[2])
    BY <1>3, <2>1 DEF At
  <2>3. \A k \in room : Spot(c, offset + k) = s => offset + k = o
    BY <1>4, <1>8, SpotOnce
  <2>4. \A k : k \in hits(s[1], s[2]) <=> k \in room /\ Spot(c, offset + k) = s
    BY <1>2, <1>5, <2>1
  <2>5. CASE o - offset \in 0 .. Len(buf) - 1
    <3>1. o - offset \in room /\ offset + (o - offset) = o
      BY <1>8, <2>5 DEF room
    <3>2. hits(s[1], s[2]) = {o - offset}
      <4>1. o - offset \in hits(s[1], s[2])
        BY <2>4, <3>1
      <4>2. \A k \in hits(s[1], s[2]) : k = o - offset
        <5>1. SUFFICES ASSUME NEW k \in room, Spot(c, offset + k) = s
                       PROVE  k = o - offset
          BY <2>4
        <5>2. k \in Int /\ offset + k = o
          BY <2>3, <5>1 DEF room
        <5>3. QED
          BY <5>2
      <4>3. QED
        BY <4>1, <4>2
    <3>3. (CHOOSE k \in {o - offset} : TRUE) = o - offset
      OBVIOUS
    <3> HIDE DEF hits, s
    <3>4. new(s[1], s[2]) = buf[o - offset + 1]
      BY <3>2, <3>3
    <3>5. QED
      BY <2>2, <2>5, <3>4 DEF s
  <2>6. CASE o - offset \notin 0 .. Len(buf) - 1
    <3>1. hits(s[1], s[2]) = {}
      <4>1. SUFFICES ASSUME NEW k \in room, Spot(c, offset + k) = s
                     PROVE  FALSE
        BY <1>6, <2>4
      <4>2. offset + k = o /\ k \in 0 .. Len(buf) - 1
        BY <2>3, <4>1 DEF room
      <4>3. QED
        BY <1>1, <2>6, <4>2
    <3>2. QED
      BY <2>2, <2>6, <3>1 DEF At
  <2>7. QED
    BY <2>5, <2>6
<1>9. ASSUME NEW q \in Cluster, \A i \in 1 .. Len(c) : c[i] # q
      PROVE  after[q] = data[q]
  <2>1. \A k \in room : to[k][1] # q
    BY <1>2, <1>4, <1>9, SpotIs DEF Spot
  <2>2. \A p : hits(q, p) = {}
    <3>1. \A p : <<q, p>>[1] = q
      OBVIOUS
    <3>2. QED
      BY <1>5, <2>1, <3>1
  <2>3. after[q] = [p \in 0 .. ClusterSize - 1 |-> data[q][p]]
    BY <1>3, <2>2
  <2>4. QED
    BY <2>3
<1>10. after \in [Cluster -> [0 .. ClusterSize - 1 -> Content]]
  BY <1>3, <1>7
<1>11. QED
  BY <1>8, <1>9, <1>10 DEF after

\* FAT::allocClus meets the free clusters one by one, in their order.
LEMMA AscendingIs ==
    ASSUME NEW S \in SUBSET Nat, IsFiniteSet(S)
    PROVE  /\ Ascending(S) \in Seq(S) /\ Len(Ascending(S)) = Cardinality(S)
           /\ Distinct(Ascending(S))
<1> DEFINE n == Cardinality(S)
           Rising(s) == \A i, j \in DOMAIN s : i < j => s[i] < s[j]
           a == Ascending(S)
<1>1. \E s \in [1 .. n -> S] : Rising(s)
  <2>1. PICK s : Enumerates(s, S)
    BY Enumeration
  <2>2. s \in [1 .. n -> S] /\ DOMAIN s = 1 .. n
    BY <2>1 DEF Enumerates
  <2>3. QED
    BY <2>1, <2>2 DEF Enumerates
<1>2. a \in [1 .. n -> S] /\ Rising(a)
  BY <1>1 DEF Ascending
<1>3. n \in Nat /\ DOMAIN a = 1 .. n
  BY <1>2, FS_CardinalityType
<1>4. \A i, j \in 1 .. n : i < j => a[i] < a[j]
  BY <1>2, <1>3
<1> HIDE DEF a, n
<1>5. a \in Seq(S) /\ Len(a) = n
  BY <1>2, <1>3
<1>6. \A i \in 1 .. n : a[i] \in Nat
  BY <1>2
<1>7. \A i, j \in 1 .. n : a[i] = a[j] => i = j
  BY <1>3, <1>4, <1>6
<1>8. QED
  BY <1>5, <1>7 DEF a, n, Distinct

\* What a growing file is given: clusters of no file, none twice.
LEMMA FreeIs ==
    ASSUME DataTyped
    PROVE  /\ FreeClusters \in Seq(Cluster) /\ Distinct(FreeClusters)
           /\ \A i \in 1 .. Len(FreeClusters) :
                 \A f \in File : \A j \in 1 .. Len(chain[f]) : FreeClusters[i] # chain[f][j]
<1> DEFINE S == Cluster \ taken
<1>1. S \in SUBSET Nat /\ IsFiniteSet(S)
  <2>1. IsFiniteSet(Cluster)
    BY DataAssumption, FS_Interval DEF Cluster
  <2>2. S \in SUBSET Cluster
    OBVIOUS
  <2>3. IsFiniteSet(S)
    BY <2>1, <2>2, FS_Subset
  <2>4. QED
    BY <2>2, <2>3 DEF Cluster
<1>2. FreeClusters \in Seq(S) /\ Distinct(FreeClusters)
  BY <1>1, AscendingIs DEF FreeClusters
<1>3. \A i \in 1 .. Len(FreeClusters) : FreeClusters[i] \in S
  BY <1>2, ElementOfSeq
<1>4. FreeClusters \in Seq(Cluster)
  BY <1>2, SeqMonotonic
<1>5. \A f \in File : \A j \in 1 .. Len(chain[f]) : chain[f][j] \in taken
  <2>1. SUFFICES ASSUME NEW f \in File, NEW j \in 1 .. Len(chain[f])
                 PROVE  chain[f][j] \in taken
    OBVIOUS
  <2>2. DOMAIN chain[f] = 1 .. Len(chain[f])
    BY DEF DataTyped
  <2>3. chain[f][j] \in ToSet(chain[f])
    BY <2>2 DEF ToSet
  <2>4. QED
    BY <2>3 DEF taken
<1>6. QED
  BY <1>2, <1>3, <1>4, <1>5

\* A chain has room for the length it was made for and for less than a
\* cluster more.
LEMMA ClustersCover ==
    ASSUME NEW length \in Nat
    PROVE  /\ Clusters(length) \in Nat
           /\ Clusters(length) * ClusterSize \in length .. length + ClusterSize - 1
<1> DEFINE d == ClusterSize
           q == (length - 1) \div d
           r == (length - 1) % d
<1>1. d \in Nat \ {0}
  BY ClusterSizeIs
<1>2. CASE length = 0
  BY <1>1, <1>2 DEF Clusters
<1>3. CASE length # 0
  <2>1. length - 1 \in Nat
    BY <1>3
  <2>2. q \in Nat /\ r \in 0 .. d - 1 /\ length - 1 = d * q + r
    BY <1>1, <2>1, DivModIs
  <2>3. Clusters(length) = q + 1
    BY <1>3 DEF Clusters
  <2> HIDE DEF d, q, r
  <2>4. (q + 1) * d = d * q + d
    BY <1>1, <2>2
  <2>5. (q + 1) * d \in length .. length + d - 1
    BY <1>1, <2>2, <2>4
  <2>6. QED
    BY <2>2, <2>3, <2>5 DEF d
<1>4. QED
  BY <1>2, <1>3

\* The chain of a file whose length is set (FAT::resize): it begins as before,
\* has the clusters the length asks for, none of them twice and none of
\* another file.
LEMMA ResizedIs ==
    ASSUME DataTyped, ChainsApart, NEW f \in File, NEW length \in Nat, Fits(f, length)
    PROVE  LET c == resized(f, length)
           IN  /\ c \in Seq(Cluster) /\ Distinct(c) /\ Len(c) = Clusters(length)
               /\ \A i \in 1 .. Len(c) : i <= Len(chain[f]) => c[i] = chain[f][i]
               /\ \A g \in File : g # f => Apart(c, chain[g]) /\ Apart(chain[g], c)
<1> DEFINE old == chain[f]
           m == Len(old)
           n == Clusters(length)
           free == FreeClusters
           c == resized(f, length)
<1>1. n \in Nat /\ old \in Seq(Cluster) /\ m \in Nat
  BY ClustersCover DEF DataTyped
<1>2. /\ free \in Seq(Cluster) /\ Distinct(free) /\ Len(free) \in Nat
      /\ \A i \in 1 .. Len(free) :
            \A g \in File : \A j \in 1 .. Len(chain[g]) : free[i] # chain[g][j]
  BY FreeIs
<1>3. n <= m + Len(free)
  BY DEF Fits
<1>4. Distinct(old) /\ \A g \in File : g # f => Apart(old, chain[g]) /\ Apart(chain[g], old)
  BY DEF ChainsApart
<1>5. c = IF n <= m THEN SubSeq(old, 1, n) ELSE old \o SubSeq(free, 1, n - m)
  BY DEF resized
<1> HIDE DEF old, m, n, free, c
<1>6. m = Len(old)
  BY DEF m
<1>7. CASE n <= m
  <2>1. c \in Seq(Cluster) /\ Len(c) = n /\ \A i \in 1 .. n : c[i] = old[i]
    BY <1>1, <1>5, <1>6, <1>7
  <2>2. \A i \in 1 .. n : i \in 1 .. Len(old)
    BY <1>1, <1>6, <1>7
  <2>3. Distinct(c)
    BY <1>4, <2>1, <2>2 DEF Distinct
  <2>4. ASSUME NEW g \in File, g # f
        PROVE  Apart(c, chain[g]) /\ Apart(chain[g], c)
    BY <1>4, <2>1, <2>2, <2>4 DEF Apart
  <2>5. QED
    BY <2>1, <2>3, <2>4 DEF c, n, old
<1>8. CASE ~(n <= m)
  <2> DEFINE more == SubSeq(free, 1, n - m)
  <2>1. n - m \in 1 .. Len(free)
    BY <1>1, <1>2, <1>3, <1>8
  <2>2. /\ more \in Seq(Cluster) /\ Len(more) = n - m
        /\ \A i \in 1 .. n - m : more[i] = free[i]
    BY <1>2, <2>1
  <2>3. c = old \o more
    BY <1>5, <1>8
  <2> HIDE DEF more
  <2>4. /\ c \in Seq(Cluster) /\ Len(c) = m + (n - m)
        /\ \A i \in 1 .. m : c[i] = old[i]
        /\ \A i \in m + 1 .. n : c[i] = more[i - m]
    BY <1>1, <1>6, <2>1, <2>2, <2>3
  <2>5. Len(c) = n
    BY <1>1, <2>4
  <2>6. \A i \in 1 .. n :
          \/ i \in 1 .. Len(old) /\ c[i] = old[i]
          \/ i \in m + 1 .. n /\ i - m \in 1 .. Len(free) /\ c[i] = free[i - m]
    <3>1. SUFFICES ASSUME NEW i \in 1 .. n, i \notin 1 .. m
                   PROVE  i - m \in 1 .. Len(free) /\ c[i] = free[i - m] /\ i \in m + 1 .. n
      BY <1>1, <1>6, <2>4
    <3>2. i \in m + 1 .. n /\ i - m \in 1 .. n - m
      BY <1>1, <3>1
    <3>3. c[i] = more[i - m] /\ more[i - m] = free[i - m]
      BY <2>2, <2>4, <3>2
    <3>4. i - m \in 1 .. Len(free)
      BY <1>2, <2>1, <3>2
    <3>5. QED
      BY <3>2, <3>3, <3>4
  <2>7. \A i \in 1 .. Len(free), j \in 1 .. Len(old) : free[i] # old[j]
    BY <1>2 DEF old
  <2>8. ASSUME NEW i \in 1 .. n, NEW j \in 1 .. n, c[i] = c[j]
        PROVE  i = j
    <3>1. CASE i \in 1 .. Len(old) /\ c[i] = old[i]
      BY <1>4, <2>6, <2>7, <2>8, <3>1 DEF Distinct
    <3>2. CASE i \in m + 1 .. n /\ i - m \in 1 .. Len(free) /\ c[i] = free[i - m]
      <4>1. j \in m + 1 .. n /\ j - m \in 1 .. Len(free) /\ c[j] = free[j - m]
        BY <2>6, <2>7, <2>8, <3>2
      <4>2. i - m = j - m
        BY <1>2, <2>8, <3>2, <4>1 DEF Distinct
      <4>3. QED
        BY <1>1, <4>2
    <3>3. QED
      BY <2>6, <3>1, <3>2
  <2>9. Distinct(c)
    BY <2>5, <2>8 DEF Distinct
  <2>10. ASSUME NEW g \in File, g # f
         PROVE  Apart(c, chain[g]) /\ Apart(chain[g], c)
    <3>1. Apart(old, chain[g])
      BY <1>4, <2>10
    <3>2. \A i \in 1 .. n, j \in 1 .. Len(chain[g]) : c[i] # chain[g][j]
      BY <1>2, <2>6, <3>1 DEF Apart
    <3>3. QED
      BY <2>5, <3>2 DEF Apart
  <2>11. \A i \in 1 .. n : i <= m => c[i] = old[i]
    BY <1>1, <2>4
  <2>12. QED
    BY <2>4, <2>5, <2>9, <2>10, <2>11, <1>6 DEF c, n, old
<1>9. QED
  BY <1>7, <1>8

\* A write through a chain leaves what a reader knows of the file where the
\* chain says.
LEMMA PutPlaced ==
    ASSUME data \in [Cluster -> [0 .. ClusterSize - 1 -> Content]],
           NEW c \in Seq(Cluster), Distinct(c), NEW offset \in Nat, NEW buf \in Seq(Content),
           NEW x \in Seq(Content \cup {Unknown}), Len(x) <= Capacity(c),
           \A o \in 0 .. Len(x) - 1 : x[o + 1] \in {Unknown, At(data, Spot(c, o))}
    PROVE  LET y == Put(x, offset, buf)
           IN  /\ y \in Seq(Content \cup {Unknown}) /\ Len(y) = Len(x)
               /\ \A o \in 0 .. Len(x) - 1 :
                     y[o + 1] \in {Unknown, At(stored(c, offset, buf), Spot(c, o))}
<1> DEFINE y == Put(x, offset, buf)
           n == Len(x)
           after == stored(c, offset, buf)
<1>1. /\ n \in Nat /\ x \in [1 .. n -> Content \cup {Unknown}]
      /\ Len(buf) \in Nat /\ buf \in [1 .. Len(buf) -> Content] /\ Capacity(c) \in Nat
  BY LenProperties, CapacityIs
<1>2. y = [p \in 1 .. n |-> IF p - offset \in 1 .. Len(buf) THEN buf[p - offset] ELSE x[p]]
  BY DEF Put
<1>3. \A o \in Nat : o < Capacity(c) =>
        At(after, Spot(c, o)) = IF o - offset \in 0 .. Len(buf) - 1 THEN buf[o - offset + 1]
                                ELSE At(data, Spot(c, o))
  BY StoredIs
<1> HIDE DEF y, n, after
<1>4. y \in [1 .. n -> Content \cup {Unknown}]
  BY <1>1, <1>2
<1>5. y \in Seq(Content \cup {Unknown}) /\ Len(y) = n
  BY <1>1, <1>4
<1>6. ASSUME NEW o \in 0 .. n - 1
      PROVE  y[o + 1] \in {Unknown, At(after, Spot(c, o))}
  <2>1. o \in Nat /\ o < Capacity(c) /\ o + 1 \in 1 .. n
    BY <1>1 DEF n
  <2>2. o - offset \in 0 .. Len(buf) - 1 <=> (o + 1) - offset \in 1 .. Len(buf)
    BY <1>1
  <2>3. o - offset + 1 = (o + 1) - offset
    BY <1>1
  <2>4. x[o + 1] \in {Unknown, At(data, Spot(c, o))}
    BY DEF n
  <2>5. QED
    BY <1>2, <1>3, <2>1, <2>2, <2>3, <2>4
<1>7. QED
  BY <1>5, <1>6 DEF y, n, after

\* A write through the chain of one file leaves the bytes of the others.
LEMMA OthersPlaced ==
    ASSUME data \in [Cluster -> [0 .. ClusterSize - 1 -> Content]],
           NEW c \in Seq(Cluster), Distinct(c), NEW offset \in Nat, NEW buf \in Seq(Content),
           NEW e \in Seq(Cluster), Apart(c, e), NEW o \in Nat, o < Capacity(e)
    PROVE  At(stored(c, offset, buf), Spot(e, o)) = At(data, Spot(e, o))
<1>1. o \div ClusterSize + 1 \in 1 .. Len(e) /\ Spot(e, o)[1] \in Cluster
  BY SpotIs
<1>2. \A i \in 1 .. Len(c) : c[i] # Spot(e, o)[1]
  BY <1>1 DEF Spot, Apart
<1>3. \A q \in Cluster :
        (\A i \in 1 .. Len(c) : c[i] # q) => stored(c, offset, buf)[q] = data[q]
  BY StoredIs
<1>4. stored(c, offset, buf)[Spot(e, o)[1]] = data[Spot(e, o)[1]]
  BY <1>1, <1>2, <1>3
<1>5. QED
  BY <1>4 DEF At

\* What a reader expects after the length was set: what was there before is
\* where the new chain says.
LEMMA SetLengthPlaced ==
    ASSUME IInv, NEW f \in File, NEW length \in Nat, Fits(f, length)
    PROVE  LET x == SetLength(expected[f], length)
               c == resized(f, length)
           IN  /\ x \in Seq(Content \cup {Unknown}) /\ Len(x) = length
               /\ \A o \in 0 .. length - 1 : x[o + 1] \in {Unknown, At(data, Spot(c, o))}
<1> DEFINE x == SetLength(expected[f], length)
           c == resized(f, length)
           w == expected[f]
<1>1. w \in Seq(Content \cup {Unknown}) /\ Len(w) = size[f] /\ size[f] \in Nat
  BY DataAssumption DEF IInv, DataTyped, Placed
<1>2. w \in [1 .. size[f] -> Content \cup {Unknown}]
  BY <1>1
<1>3. x = [p \in 1 .. length |-> IF p <= size[f] THEN w[p] ELSE Unknown]
  BY <1>1 DEF SetLength
<1>4. /\ c \in Seq(Cluster) /\ Len(c) = Clusters(length)
      /\ \A i \in 1 .. Len(c) : i <= Len(chain[f]) => c[i] = chain[f][i]
  BY ResizedIs DEF IInv
<1>5. length <= Capacity(c) /\ size[f] <= Capacity(chain[f])
  <2>1. Len(chain[f]) * ClusterSize \in size[f] .. size[f] + ClusterSize - 1
    BY DEF IInv, ChainFresh
  <2>2. Clusters(length) * ClusterSize \in length .. length + ClusterSize - 1
    BY ClustersCover
  <2>3. QED
    BY <1>4, <2>1, <2>2 DEF Capacity
<1>6. \A o \in 0 .. size[f] - 1 : w[o + 1] \in {Unknown, At(data, Spot(chain[f], o))}
  BY DEF IInv, Placed
<1> HIDE DEF x, c, w
<1>7. x \in [1 .. length -> Content \cup {Unknown}]
  BY <1>2, <1>3
<1>8. x \in Seq(Content \cup {Unknown}) /\ Len(x) = length
  BY <1>7
<1>9. chain[f] \in Seq(Cluster) /\ Capacity(c) \in Nat /\ Capacity(chain[f]) \in Nat
  BY <1>4, CapacityIs DEF IInv, DataTyped
<1>10. ASSUME NEW o \in 0 .. length - 1
       PROVE  x[o + 1] \in {Unknown, At(data, Spot(c, o))}
  <2>1. CASE o + 1 <= size[f]
    <3>1. o \in Nat /\ o < Capacity(c) /\ o < Capacity(chain[f]) /\ o \in 0 .. size[f] - 1
      BY <1>1, <1>5, <1>9, <2>1
    <3>2. o \div ClusterSize + 1 \in 1 .. Len(c) /\ o \div ClusterSize + 1 \in 1 .. Len(chain[f])
      BY <1>4, <1>9, <3>1, SpotIs
    <3>3. Spot(c, o) = Spot(chain[f], o)
      BY <1>4, <3>2 DEF Spot
    <3>4. x[o + 1] = w[o + 1]
      BY <1>3, <2>1
    <3>5. QED
      BY <1>6, <3>1, <3>3, <3>4
  <2>2. CASE ~(o + 1 <= size[f])
    BY <1>3, <2>2
  <2>3. QED
    BY <2>1, <2>2
<1>11. QED
  BY <1>8, <1>10 DEF x, c

-----------------------------------------------------------------------------
(***************************************************************************)
(* The inductive invariant.                                                *)
(***************************************************************************)
\* Empty files on a volume of arbitrary bytes.
LEMMA InitIInv == DataInit => IInv
<1> SUFFICES ASSUME DataInit
             PROVE  IInv
  OBVIOUS
<1>1. ClusterSize \in Nat \ {0} /\ 0 * ClusterSize = 0 /\ Word \in Nat \ {0}
  BY ClusterSizeIs, DataAssumption
<1>2. \A f \in File : Len(chain[f]) = 0 /\ Len(expected[f]) = 0 /\ size[f] = 0
  BY DEF DataInit
<1>3. DataTyped
  BY <1>1 DEF DataInit, DataTyped
<1>4. ChainsApart
  BY <1>2 DEF ChainsApart, Distinct, Apart
<1>5. ChainFresh
  BY <1>1, <1>2 DEF DataInit, ChainFresh
<1>6. Placed
  BY <1>2 DEF Placed
<1>7. QED
  BY <1>3, <1>4, <1>5, <1>6 DEF IInv

\* FAT::resize keeps the chains apart, and an object that forgets the chain it
\* knew, or reads the new one, knows no other.
LEMMA ResizeKeeps ==
    ASSUME IInv, NEW f \in File, NEW length \in 0 .. Word - 1, Fits(f, length),
           chain' = [chain EXCEPT ![f] = resized(f, length)],
           size' = [size EXCEPT ![f] = length],
           NEW known \in {NoChain, resized(f, length)},
           cached' = [cached EXCEPT ![f] = known]
    PROVE  /\ chain' \in [File -> Seq(Cluster)] /\ size' \in [File -> 0 .. Word - 1]
           /\ cached' \in [File -> Seq(Cluster) \cup {NoChain}]
           /\ ChainsApart' /\ ChainFresh'
<1> DEFINE c == resized(f, length)
<1>1. DataTyped /\ ChainsApart /\ ChainFresh /\ length \in Nat
  BY DataAssumption DEF IInv
<1>2. /\ c \in Seq(Cluster) /\ Distinct(c) /\ Len(c) = Clusters(length)
      /\ \A g \in File : g # f => Apart(c, chain[g]) /\ Apart(chain[g], c)
  BY <1>1, ResizedIs
<1>3. Len(c) * ClusterSize \in length .. length + ClusterSize - 1
  BY <1>1, <1>2, ClustersCover
<1> HIDE DEF c
<1>4. /\ chain' = [chain EXCEPT ![f] = c] /\ known \in {NoChain, c}
  BY DEF c
<1>5. /\ chain' \in [File -> Seq(Cluster)] /\ size' \in [File -> 0 .. Word - 1]
      /\ cached' \in [File -> Seq(Cluster) \cup {NoChain}]
  BY <1>1, <1>2, <1>4 DEF DataTyped
<1>6. /\ chain'[f] = c /\ size'[f] = length /\ cached'[f] = known
      /\ \A g \in File : g # f =>
            chain'[g] = chain[g] /\ size'[g] = size[g] /\ cached'[g] = cached[g]
  BY <1>1, <1>4 DEF DataTyped
<1>7. ChainsApart'
  <2>1. ASSUME NEW g \in File
        PROVE  Distinct(chain'[g])
    BY <1>1, <1>2, <1>6 DEF ChainsApart
  <2>2. ASSUME NEW g \in File, NEW h \in File, g # h
        PROVE  Apart(chain'[g], chain'[h])
    BY <1>1, <1>2, <1>6, <2>2 DEF ChainsApart
  <2>3. QED
    BY <2>1, <2>2 DEF ChainsApart, Distinct, Apart
<1>8. ASSUME NEW g \in File
      PROVE  /\ cached'[g] \in {NoChain, chain'[g]}
             /\ Len(chain'[g]) * ClusterSize \in size'[g] .. size'[g] + ClusterSize - 1
  <2>1. CASE g = f
    BY <1>3, <1>4, <1>6, <2>1
  <2>2. CASE g # f
    BY <1>1, <1>6, <2>2 DEF ChainFresh
  <2>3. QED
    BY <2>1, <2>2
<1>9. ChainFresh'
  BY <1>8 DEF ChainFresh
<1>10. QED
  BY <1>5, <1>7, <1>9

\* A write through the chain of a file, whose reader then expects the bytes
\* written, leaves every known byte of every file in its place.
LEMMA WriteKeeps ==
    ASSUME IInv, NEW f \in File, NEW offset \in Nat, NEW buf \in Seq(Content),
           NEW c \in Seq(Cluster), Distinct(c), chain' = [chain EXCEPT ![f] = c],
           \A g \in File : g # f => Apart(c, chain[g]),
           NEW x \in Seq(Content \cup {Unknown}), Len(x) <= Capacity(c),
           \A o \in 0 .. Len(x) - 1 : x[o + 1] \in {Unknown, At(data, Spot(c, o))},
           size' = [size EXCEPT ![f] = Len(x)],
           data' = stored(c, offset, buf),
           expected' = [expected EXCEPT ![f] = Put(x, offset, buf)]
    PROVE  /\ data' \in [Cluster -> [0 .. ClusterSize - 1 -> Content]]
           /\ expected' \in [File -> Seq(Content \cup {Unknown})]
           /\ Placed'
<1> DEFINE y == Put(x, offset, buf)
<1>1. DataTyped /\ ChainFresh /\ Placed
  BY DEF IInv
<1>2. data \in [Cluster -> [0 .. ClusterSize - 1 -> Content]]
  BY <1>1 DEF DataTyped
<1>3. data' \in [Cluster -> [0 .. ClusterSize - 1 -> Content]]
  BY <1>2, StoredIs
<1>4. /\ y \in Seq(Content \cup {Unknown}) /\ Len(y) = Len(x)
      /\ \A o \in 0 .. Len(x) - 1 : y[o + 1] \in {Unknown, At(data', Spot(c, o))}
  BY <1>2, PutPlaced
<1> HIDE DEF y
<1>5. expected' = [expected EXCEPT ![f] = y]
  BY DEF y
<1>6. expected' \in [File -> Seq(Content \cup {Unknown})]
  BY <1>1, <1>4, <1>5 DEF DataTyped
<1>7. /\ chain'[f] = c /\ size'[f] = Len(x) /\ expected'[f] = y
      /\ \A g \in File : g # f =>
            chain'[g] = chain[g] /\ size'[g] = size[g] /\ expected'[g] = expected[g]
  BY <1>1, <1>5 DEF DataTyped
<1>8. ASSUME NEW g \in File
      PROVE  /\ Len(expected'[g]) = size'[g]
             /\ \A o \in 0 .. size'[g] - 1 :
                   expected'[g][o + 1] \in {Unknown, At(data', Spot(chain'[g], o))}
  <2>1. CASE g = f
    BY <1>4, <1>7, <2>1
  <2>2. CASE g # f
    <3>1. chain'[g] = chain[g] /\ size'[g] = size[g] /\ expected'[g] = expected[g]
      BY <1>7, <2>2
    <3>2. /\ Len(expected[g]) = size[g] /\ chain[g] \in Seq(Cluster) /\ Apart(c, chain[g])
          /\ size[g] \in Nat
      BY <1>1, <2>2, DataAssumption DEF Placed, DataTyped
    <3>3. size[g] <= Capacity(chain[g]) /\ Capacity(chain[g]) \in Nat
      BY <1>1, <3>2, CapacityIs DEF ChainFresh, Capacity
    <3>4. ASSUME NEW o \in 0 .. size[g] - 1
          PROVE  expected[g][o + 1] \in {Unknown, At(data', Spot(chain[g], o))}
      <4>1. o \in Nat /\ o < Capacity(chain[g])
        BY <3>2, <3>3
      <4>2. At(data', Spot(chain[g], o)) = At(data, Spot(chain[g], o))
        BY <1>2, <3>2, <4>1, OthersPlaced
      <4>3. QED
        BY <1>1, <4>2 DEF Placed
    <3>5. QED
      BY <3>1, <3>2, <3>4
  <2>3. QED
    BY <2>1, <2>2
<1>9. Placed'
  BY <1>8 DEF Placed, At, Spot
<1>10. QED
  BY <1>3, <1>6, <1>9

\* A write inside the file goes through the chain of the table.
LEMMA WriteInsideKeeps ==
    ASSUME IInv, NEW f \in File, NEW offset \in Nat, NEW buf \in Seq(Content),
           offset + Len(buf) < Word, WriteInside(f, offset, buf)
    PROVE  IInv'
<1> DEFINE c == chain[f]
           x == expected[f]
<1>1. DataTyped /\ ChainsApart /\ ChainFresh /\ Placed
  BY DEF IInv
<1>2. readClusChain(cached[f], chain[f]) = c
  BY <1>1 DEF ChainFresh, readClusChain
<1>3. /\ data' = stored(c, offset, buf) /\ cached' = [cached EXCEPT ![f] = c]
      /\ expected' = [expected EXCEPT ![f] = Put(x, offset, buf)]
      /\ chain' = chain /\ size' = size
  BY <1>2 DEF WriteInside
<1>4. /\ c \in Seq(Cluster) /\ Distinct(c) /\ x \in Seq(Content \cup {Unknown})
      /\ size[f] \in Nat /\ Len(x) = size[f]
  BY <1>1, DataAssumption DEF DataTyped, ChainsApart, Placed
<1>5. Len(x) <= Capacity(c)
  BY <1>1, <1>4, ClusterSizeIs DEF ChainFresh, Capacity
<1>6. /\ \A g \in File : g # f => Apart(c, chain[g])
      /\ \A o \in 0 .. Len(x) - 1 : x[o + 1] \in {Unknown, At(data, Spot(c, o))}
  BY <1>1, <1>4 DEF ChainsApart, Placed
<1>7. chain' = [chain EXCEPT ![f] = c] /\ size' = [size EXCEPT ![f] = Len(x)]
  BY <1>1, <1>3, <1>4 DEF DataTyped
<1> HIDE DEF c, x
<1>8. /\ data' \in [Cluster -> [0 .. ClusterSize - 1 -> Content]]
      /\ expected' \in [File -> Seq(Content \cup {Unknown})] /\ Placed'
  BY <1>3, <1>4, <1>5, <1>6, <1>7, WriteKeeps
<1>9. DataTyped'
  BY <1>1, <1>3, <1>4, <1>8 DEF DataTyped
<1>10. ChainsApart'
  BY <1>1, <1>3 DEF ChainsApart, Distinct, Apart
<1>11. cached'[f] = chain[f] /\ \A g \in File : g # f => cached'[g] = cached[g]
  BY <1>1, <1>3 DEF DataTyped, c
<1>12. ChainFresh'
  BY <1>1, <1>3, <1>11 DEF ChainFresh
<1>13. QED
  BY <1>8, <1>9, <1>10, <1>12 DEF IInv

\* A write beyond the end goes through the chain the file has then.
LEMMA WriteBeyondKeeps ==
    ASSUME IInv, NEW f \in File, NEW offset \in Nat, NEW buf \in Seq(Content),
           offset + Len(buf) < Word, WriteBeyond(f, offset, buf)
    PROVE  IInv'
<1> DEFINE end == offset + Len(buf)
           c == resized(f, end)
           x == SetLength(expected[f], end)
<1>1. DataTyped /\ ChainsApart /\ ChainFresh /\ Placed
  BY DEF IInv
<1>2. end \in Nat /\ end % Word = end /\ end \in 0 .. Word - 1
  BY DataAssumption
<1>3. forgotten(f)[f] = NoChain /\ readClusChain(NoChain, c) = c
  BY <1>1 DEF DataTyped, forgotten, readClusChain
<1>4. /\ Fits(f, end) /\ chain' = [chain EXCEPT ![f] = c] /\ size' = [size EXCEPT ![f] = end]
      /\ data' = stored(c, offset, buf)
      /\ cached' = [forgotten(f) EXCEPT ![f] = c]
      /\ expected' = [expected EXCEPT ![f] = Put(x, offset, buf)]
  BY <1>2, <1>3 DEF WriteBeyond
<1>5. cached' = [cached EXCEPT ![f] = c]
  BY <1>1, <1>4 DEF forgotten, DataTyped
<1>6. /\ chain' \in [File -> Seq(Cluster)] /\ size' \in [File -> 0 .. Word - 1]
      /\ cached' \in [File -> Seq(Cluster) \cup {NoChain}]
      /\ ChainsApart' /\ ChainFresh'
  BY <1>2, <1>4, <1>5, ResizeKeeps
<1>7. /\ c \in Seq(Cluster) /\ Distinct(c) /\ Len(c) = Clusters(end)
      /\ \A g \in File : g # f => Apart(c, chain[g])
  BY <1>1, <1>2, <1>4, ResizedIs
<1>8. /\ x \in Seq(Content \cup {Unknown}) /\ Len(x) = end
      /\ \A o \in 0 .. end - 1 : x[o + 1] \in {Unknown, At(data, Spot(c, o))}
  BY <1>2, <1>4, SetLengthPlaced
<1>9. end <= Capacity(c)
  <2>1. Clusters(end) * ClusterSize \in end .. end + ClusterSize - 1
    BY <1>2, ClustersCover
  <2>2. QED
    BY <1>2, <1>7, <2>1, ClusterSizeIs DEF Capacity
<1> HIDE DEF end, c, x
<1>10. /\ data' \in [Cluster -> [0 .. ClusterSize - 1 -> Content]]
       /\ expected' \in [File -> Seq(Content \cup {Unknown})] /\ Placed'
  BY <1>4, <1>7, <1>8, <1>9, WriteKeeps
<1>11. DataTyped'
  BY <1>6, <1>10 DEF DataTyped
<1>12. QED
  BY <1>6, <1>10, <1>11 DEF IInv

\* File::truncate makes the object forget the chain it knew.
LEMMA TruncateKeeps ==
    ASSUME IInv, NEW f \in File, NEW length \in Nat, length < Word, Truncate(f, length)
    PROVE  IInv'
<1> DEFINE c == resized(f, length)
           x == SetLength(expected[f], length)
<1>1. DataTyped /\ ChainsApart /\ ChainFresh /\ Placed
  BY DEF IInv
<1>2. length % Word = length /\ length \in 0 .. Word - 1
  BY DataAssumption
<1>3. /\ Fits(f, length) /\ chain' = [chain EXCEPT ![f] = c]
      /\ size' = [size EXCEPT ![f] = length] /\ cached' = [cached EXCEPT ![f] = NoChain]
      /\ expected' = [expected EXCEPT ![f] = x] /\ data' = data
  BY <1>2 DEF Truncate, forgotten
<1>4. /\ chain' \in [File -> Seq(Cluster)] /\ size' \in [File -> 0 .. Word - 1]
      /\ cached' \in [File -> Seq(Cluster) \cup {NoChain}]
      /\ ChainsApart' /\ ChainFresh'
  BY <1>2, <1>3, ResizeKeeps
<1>5. /\ x \in Seq(Content \cup {Unknown}) /\ Len(x) = length
      /\ \A o \in 0 .. length - 1 : x[o + 1] \in {Unknown, At(data, Spot(c, o))}
  BY <1>3, SetLengthPlaced
<1> HIDE DEF c, x
<1>6. /\ chain'[f] = c /\ size'[f] = length /\ expected'[f] = x
      /\ \A g \in File : g # f =>
            chain'[g] = chain[g] /\ size'[g] = size[g] /\ expected'[g] = expected[g]
  BY <1>1, <1>3 DEF DataTyped
<1>7. DataTyped'
  BY <1>1, <1>3, <1>4, <1>5 DEF DataTyped
<1>8. ASSUME NEW g \in File
      PROVE  /\ Len(expected'[g]) = size'[g]
             /\ \A o \in 0 .. size'[g] - 1 :
                   expected'[g][o + 1] \in {Unknown, At(data', Spot(chain'[g], o))}
  <2>1. CASE g = f
    BY <1>3, <1>5, <1>6, <2>1
  <2>2. CASE g # f
    BY <1>1, <1>3, <1>6, <2>2 DEF Placed
  <2>3. QED
    BY <2>1, <2>2
<1>9. Placed'
  BY <1>8 DEF Placed, At, Spot
<1>10. QED
  BY <1>4, <1>7, <1>9 DEF IInv

\* rename over a file hands chain, length and bytes on together.
LEMMA ReplaceKeeps ==
    ASSUME IInv, NEW f \in File, NEW g \in File, Replace(f, g)
    PROVE  IInv'
<1>1. DataTyped /\ ChainsApart /\ ChainFresh /\ Placed
  BY DEF IInv
<1>2. ClusterSize \in Nat \ {0} /\ 0 * ClusterSize = 0 /\ Word \in Nat \ {0}
  BY ClusterSizeIs, DataAssumption
<1>3. /\ chain'[f] = chain[g] /\ size'[f] = size[g] /\ expected'[f] = expected[g]
      /\ chain'[g] = <<>> /\ size'[g] = 0 /\ expected'[g] = <<>>
      /\ cached'[f] = NoChain /\ cached'[g] = NoChain /\ f # g /\ data' = data
  BY <1>1 DEF Replace, DataTyped
<1>4. \A h \in File : h \notin {f, g} =>
        /\ chain'[h] = chain[h] /\ size'[h] = size[h] /\ expected'[h] = expected[h]
        /\ cached'[h] = cached[h]
  BY <1>1 DEF Replace, DataTyped
<1>5. DataTyped'
  <2>1. <<>> \in Seq(Cluster) /\ <<>> \in Seq(Content \cup {Unknown}) /\ 0 \in 0 .. Word - 1
    BY <1>2
  <2>2. /\ chain' = [h \in File |-> IF h = g THEN <<>> ELSE IF h = f THEN chain[g] ELSE chain[h]]
        /\ size' = [h \in File |-> IF h = g THEN 0 ELSE IF h = f THEN size[g] ELSE size[h]]
    BY <1>1 DEF Replace, DataTyped
  <2>3. /\ cached' = [h \in File |-> IF h \in {f, g} THEN NoChain ELSE cached[h]]
        /\ expected' = [h \in File |-> IF h = g THEN <<>> ELSE IF h = f THEN expected[g]
                                       ELSE expected[h]]
    BY <1>1 DEF Replace, DataTyped
  <2>4. chain' \in [File -> Seq(Cluster)] /\ size' \in [File -> 0 .. Word - 1]
    BY <1>1, <2>1, <2>2 DEF DataTyped
  <2>5. /\ cached' \in [File -> Seq(Cluster) \cup {NoChain}]
        /\ expected' \in [File -> Seq(Content \cup {Unknown})]
    BY <1>1, <2>1, <2>3 DEF DataTyped
  <2>6. QED
    BY <1>1, <1>3, <2>4, <2>5 DEF DataTyped
<1>6. ASSUME NEW h \in File
      PROVE  Distinct(chain'[h])
  BY <1>1, <1>3, <1>4 DEF ChainsApart, Distinct
<1>7. ASSUME NEW h \in File, NEW i \in File, h # i
      PROVE  Apart(chain'[h], chain'[i])
  <2>1. CASE h = g \/ i = g
    BY <1>3, <2>1 DEF Apart
  <2>2. CASE h # g /\ i # g
    BY <1>1, <1>3, <1>4, <1>7, <2>2 DEF ChainsApart
  <2>3. QED
    BY <2>1, <2>2
<1>8. ChainsApart'
  BY <1>6, <1>7 DEF ChainsApart, Distinct, Apart
<1>9. ASSUME NEW h \in File
      PROVE  /\ cached'[h] \in {NoChain, chain'[h]}
             /\ Len(chain'[h]) * ClusterSize \in size'[h] .. size'[h] + ClusterSize - 1
             /\ Len(expected'[h]) = size'[h]
             /\ \A o \in 0 .. size'[h] - 1 :
                   expected'[h][o + 1] \in {Unknown, At(data', Spot(chain'[h], o))}
  <2>1. CASE h = f
    BY <1>1, <1>3, <2>1 DEF ChainFresh, Placed
  <2>2. CASE h = g
    <3>1. Len(chain'[h]) = 0 /\ Len(expected'[h]) = 0 /\ size'[h] = 0 /\ cached'[h] = NoChain
      BY <1>3, <2>2
    <3>2. Len(chain'[h]) * ClusterSize = 0
      BY <1>2, <3>1
    <3>3. QED
      BY <1>2, <3>1, <3>2
  <2>3. CASE h \notin {f, g}
    BY <1>1, <1>3, <1>4, <2>3 DEF ChainFresh, Placed
  <2>4. QED
    BY <2>1, <2>2, <2>3
<1>10. ChainFresh' /\ Placed'
  BY <1>9 DEF ChainFresh, Placed, At, Spot
<1>11. QED
  BY <1>5, <1>8, <1>10 DEF IInv

\* An object forgets its chain or reads the one of the table.
LEMMA KnowledgeKeeps ==
    ASSUME IInv, NEW f \in File, Evict(f) \/ Read(f)
    PROVE  IInv'
<1>1. DataTyped /\ ChainsApart /\ ChainFresh /\ Placed
  BY DEF IInv
<1>2. PICK known \in {NoChain, chain[f]} : cached' = [cached EXCEPT ![f] = known]
  <2>1. CASE Evict(f)
    BY <2>1 DEF Evict
  <2>2. CASE Read(f)
    <3>1. readClusChain(cached[f], chain[f]) \in {NoChain, chain[f]}
      BY <1>1 DEF ChainFresh, readClusChain
    <3>2. QED
      BY <2>2, <3>1 DEF Read
  <2>3. QED
    BY <2>1, <2>2
<1>3. chain' = chain /\ size' = size /\ data' = data /\ expected' = expected
  BY DEF Evict, Read
<1>4. DataTyped'
  BY <1>1, <1>2, <1>3 DEF DataTyped
<1>5. ChainsApart' /\ Placed'
  BY <1>1, <1>3 DEF ChainsApart, Distinct, Apart, Placed, At, Spot
<1>6. ChainFresh'
  BY <1>1, <1>2, <1>3 DEF ChainFresh, DataTyped
<1>7. QED
  BY <1>4, <1>5, <1>6 DEF IInv

\* Every call keeps the invariant.
LEMMA NextKeeps ==
    ASSUME NoWrap, IInv, [DataNext]_dataVars
    PROVE  IInv'
<1>1. ASSUME NEW f \in File, NEW offset \in Offset, NEW n \in Length, NEW b \in Content
      PROVE  LET buf == [k \in 1 .. n |-> b]
             IN  WriteInside(f, offset, buf) \/ WriteBeyond(f, offset, buf) => IInv'
  <2> DEFINE buf == [k \in 1 .. n |-> b]
  <2>1. n \in Nat /\ offset \in Nat /\ offset + n < Word
    BY DataAssumption DEF NoWrap
  <2>2. buf \in Seq(Content) /\ Len(buf) = n
    BY <2>1
  <2> HIDE DEF buf
  <2>3. WriteInside(f, offset, buf) \/ WriteBeyond(f, offset, buf) => IInv'
    BY <2>1, <2>2, WriteInsideKeeps, WriteBeyondKeeps
  <2>4. QED
    BY <2>3 DEF buf
<1>2. ASSUME NEW f \in File, NEW length \in NewSize, Truncate(f, length)
      PROVE  IInv'
  BY <1>2, TruncateKeeps, DataAssumption DEF NoWrap
<1>3. ASSUME NEW f \in File, NEW g \in File, Replace(f, g)
      PROVE  IInv'
  BY <1>3, ReplaceKeeps
<1>4. ASSUME NEW f \in File, Evict(f) \/ Read(f)
      PROVE  IInv'
  BY <1>4, KnowledgeKeeps
<1>5. CASE UNCHANGED dataVars
  BY <1>5 DEF dataVars, IInv, DataTyped, ChainsApart, Distinct, Apart, ChainFresh, Placed, At, Spot
<1>6. QED
  BY <1>1, <1>2, <1>3, <1>4, <1>5 DEF DataNext

-----------------------------------------------------------------------------
(***************************************************************************)
(* The theorems.                                                           *)
(***************************************************************************)
\* The invariant of the calls, as long as no offset reaches 4 GiB.
THEOREM IInvAlways == NoWrap => (DataSpec => []IInv)
<1> SUFFICES ASSUME NoWrap
             PROVE  DataSpec => []IInv
  OBVIOUS
<1>1. DataInit => IInv
  BY InitIInv
<1>2. IInv /\ [DataNext]_dataVars => IInv'
  BY NextKeeps
<1>3. QED
  BY <1>1, <1>2, PTL DEF DataSpec

\* The tables, the chains the objects know and the bytes keep their types.
THEOREM TypeCorrect == NoWrap => (DataSpec => []DataTyped)
<1> SUFFICES ASSUME NoWrap
             PROVE  DataSpec => []DataTyped
  OBVIOUS
<1>1. IInv => DataTyped
  BY DEF IInv
<1>2. DataSpec => []IInv
  BY IInvAlways
<1>3. QED
  BY <1>1, <1>2, PTL

\* A chain an object keeps is the one in the table and has the clusters the
\* length asks for, after any writes, truncates, renames and evictions.
THEOREM ChainAlwaysFresh == NoWrap => (DataSpec => []ChainFresh)
<1> SUFFICES ASSUME NoWrap
             PROVE  DataSpec => []ChainFresh
  OBVIOUS
<1>1. IInv => ChainFresh
  BY DEF IInv
<1>2. DataSpec => []IInv
  BY IInvAlways
<1>3. QED
  BY <1>1, <1>2, PTL

\* What the invariant says of a read: File::read finds the bytes written.
LEMMA ReadIs ==
    ASSUME IInv, NEW f \in File, NEW offset \in Nat, NEW n \in Nat
    PROVE  LET got == read(f, n, offset)
           IN  /\ DOMAIN got = {k \in 1 .. n : offset + k <= Len(expected[f])}
               /\ \A k \in DOMAIN got : expected[f][offset + k] \in {Unknown, got[k]}
<1> DEFINE c == chain[f]
           m == Smaller(n, size[f] - offset)
           found == target(c, offset, m)
           got == read(f, n, offset)
<1>1. DataTyped /\ ChainFresh /\ Placed
  BY DEF IInv
<1>2. c \in Seq(Cluster) /\ size[f] \in Nat /\ Len(expected[f]) = size[f]
  BY <1>1, DataAssumption DEF DataTyped, Placed
<1>3. size[f] <= Capacity(c) /\ Capacity(c) \in Nat
  BY <1>1, <1>2, CapacityIs DEF ChainFresh, Capacity
<1>4. readClusChain(cached[f], chain[f]) = c
  BY <1>1 DEF ChainFresh, readClusChain
<1>5. /\ m \in Int
      /\ \A i \in Nat : i \in 0 .. m - 1 <=> i < n /\ offset + i < size[f]
  BY <1>2 DEF Smaller
<1>6. found = [k \in {i \in 0 .. m - 1 : offset + i < Capacity(c)} |-> Spot(c, offset + k)]
  BY <1>2, <1>5, TargetIs
<1>7. got = [k \in {i + 1 : i \in DOMAIN found} |-> data[found[k - 1][1]][found[k - 1][2]]]
  BY <1>4 DEF read
<1> HIDE DEF c, m, found, got
<1>8. \A i \in 0 .. m - 1 : i \in Nat /\ offset + i < Capacity(c)
  BY <1>2, <1>3, <1>5
<1>9. DOMAIN found = 0 .. m - 1 /\ \A i \in 0 .. m - 1 : found[i] = Spot(c, offset + i)
  BY <1>6, <1>8
<1>10. DOMAIN got = {i + 1 : i \in 0 .. m - 1}
  BY <1>7, <1>9
<1>11. ASSUME NEW k
       PROVE  k \in {i + 1 : i \in 0 .. m - 1} <=> k \in 1 .. n /\ offset + k <= size[f]
  <2>1. ASSUME NEW i \in 0 .. m - 1, k = i + 1
        PROVE  k \in 1 .. n /\ offset + k <= size[f]
    BY <1>2, <1>5, <2>1
  <2>2. ASSUME k \in 1 .. n, offset + k <= size[f]
        PROVE  k - 1 \in 0 .. m - 1 /\ k = (k - 1) + 1
    <3>1. k - 1 \in Nat /\ k - 1 < n /\ offset + (k - 1) < size[f] /\ k = (k - 1) + 1
      BY <1>2, <2>2
    <3>2. QED
      BY <1>5, <3>1
  <2>3. QED
    BY <2>1, <2>2
<1>12. ASSUME NEW k \in DOMAIN got
       PROVE  expected[f][offset + k] \in {Unknown, got[k]}
  <2>1. k \in 1 .. n /\ offset + k <= size[f] /\ k - 1 \in 0 .. m - 1
    BY <1>5, <1>10, <1>11
  <2>2. got[k] = At(data, Spot(c, offset + (k - 1)))
    BY <1>7, <1>9, <1>10, <2>1 DEF At
  <2> DEFINE o == offset + (k - 1)
  <2>3. o \in 0 .. size[f] - 1 /\ o + 1 = offset + k
    BY <1>2, <2>1
  <2> HIDE DEF o
  <2>4. expected[f][o + 1] \in {Unknown, At(data, Spot(chain[f], o))}
    BY <1>1, <2>3 DEF Placed
  <2>5. QED
    BY <2>2, <2>3, <2>4 DEF o, c
<1>13. DOMAIN got = {k \in 1 .. n : offset + k <= size[f]}
  BY <1>10, <1>11
<1>14. QED
  BY <1>2, <1>12, <1>13 DEF got

\* A read at any offset returns the bytes written there last and their
\* number, across the borders of sectors and clusters.
THEOREM ReadsAlwaysWritten == NoWrap => (DataSpec => []ReadsWritten)
<1> SUFFICES ASSUME NoWrap
             PROVE  DataSpec => []ReadsWritten
  OBVIOUS
<1>1. IInv => ReadsWritten
  <2>1. SUFFICES ASSUME IInv, NEW f \in File,
                        NEW offset \in 0 .. Len(expected[f]) + 1,
                        NEW n \in 0 .. Len(expected[f]) + 1
                 PROVE  LET got == read(f, n, offset)
                        IN  /\ DOMAIN got = {k \in 1 .. n : offset + k <= Len(expected[f])}
                            /\ \A k \in DOMAIN got :
                                  expected[f][offset + k] \in {Unknown, got[k]}
    BY DEF ReadsWritten
  <2>2. offset \in Nat /\ n \in Nat
    OBVIOUS
  <2>3. QED
    BY <2>1, <2>2, ReadIs
<1>2. DataSpec => []IInv
  BY IInvAlways
<1>3. QED
  BY <1>1, <1>2, PTL
=============================================================================
