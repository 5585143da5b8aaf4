-------------------------- MODULE DirTableProofs ---------------------------
(***************************************************************************)
(* One directory of any length, with any names: no entry in use is lost    *)
(* behind an end mark, runs stay whole, inode numbers lead to their names, *)
(* a listing delivers every name that stays, and the whole is a table of   *)
(* names.                                                                  *)
(*                                                                         *)
(* The first part leaves the disk behind: in a directory whose clusters    *)
(* are adjacent both addressings of the code name the same entry.  From    *)
(* there on a directory is a sequence of entries, and every method is      *)
(* described by what it does to them.                                      *)
(***************************************************************************)
EXTENDS DirTable, FiniteSetTheorems, SequenceTheorems, CommonLemmas

-----------------------------------------------------------------------------
(***************************************************************************)
(* A sound directory.                                                      *)
(***************************************************************************)
\* The clusters other files do not hold.
Own == Cluster \ Foreign
First == Least(Own)
\* They are adjacent: a directory grows into the clusters behind its first.
Adjacent == First \in Cluster /\ \E c \in Cluster : Own = First .. c

Pos == 0 .. ClusterCount * PerCluster - 1
Record == [chain : Seq(Cluster), cell : [Pos -> Cell]]

\* The chain of d runs over the first of these clusters.
Laid(d) ==
    /\ d \in Record /\ Len(d.chain) > 0
    /\ \A i \in 1 .. Len(d.chain) : d.chain[i] = First + i - 1 /\ d.chain[i] \in Own

\* Entry l of d is the short entry of name k.
ShortAt(d, k, l) == l \in Dots .. Count(d) - 1 /\ isShort(d, l) /\ entry(d, l).name = k

\* The entries s .. l of d are the run of name k.
IsRun(d, k, s, l) ==
    /\ s \in Dots .. l /\ ShortAt(d, k, l)
    /\ \A j \in s .. l - 1 : isLong(d, j) /\ entry(d, j).name = k
    /\ s = Dots \/ ~isLong(d, s - 1)
    /\ l - s + 1 \in {1, Needed[k]}

DotsThere(d) == \A n \in 0 .. Dots - 1 : isShort(d, n) /\ entry(d, n).name = NoName
Ended(d) ==
    \A m, n \in 0 .. Count(d) - 1 : m < n /\ Used(d, n) => entry(d, m).mark # "end"
InRuns(d) ==
    \A n \in Dots .. Count(d) - 1 : Used(d, n) =>
        /\ entry(d, n).name \in Name
        /\ \E s, l \in 0 .. Count(d) - 1 : IsRun(d, entry(d, n).name, s, l) /\ n \in s .. l
OneRun(d) ==
    \A k \in Name : \A m, n \in Dots .. Count(d) - 1 :
        ShortAt(d, k, m) /\ ShortAt(d, k, n) => m = n

Whole(d) == DotsThere(d) /\ Ended(d) /\ InRuns(d) /\ OneRun(d)

\* The directories to start from are sound.
SoundImages == \A d \in Images : Laid(d) /\ Whole(d)

-----------------------------------------------------------------------------
(***************************************************************************)
(* Addresses.                                                              *)
(***************************************************************************)
\* What is assumed of the constants, and its products.
LEMMA Numbers ==
    /\ PerCluster \in Nat \ {0} /\ ClusterCount \in Nat \ {0} /\ ClusterCount * PerCluster \in Nat
    /\ Dots \in {0, 2} /\ Dots \in Nat /\ Dots < PerCluster
    /\ \A k \in Name : Needed[k] \in Nat /\ Needed[k] >= 2
    /\ NewMeta \in Meta /\ NoName \notin Name
BY DirAssumption

\* Where the entries of a directory begin.
Base == First * PerCluster

\* The least of a set of numbers is in it, and below the others.
LEMMA LeastIs ==
    ASSUME NEW S \in SUBSET Nat, S # {}
    PROVE  Least(S) \in S /\ Least(S) \in Nat /\ \A m \in S : Least(S) <= m
BY LeastElement DEF Least

\* A laid directory has as many entries as its clusters hold, and at least one
\* cluster.
LEMMA CountIs ==
    ASSUME NEW d, Laid(d)
    PROVE  /\ Len(d.chain) \in Nat \ {0} /\ DOMAIN d.chain = 1 .. Len(d.chain)
           /\ Count(d) = PerCluster * Len(d.chain)
           /\ Count(d) \in Nat /\ PerCluster <= Count(d) /\ Dots < Count(d)
           /\ DOMAIN d.cell = Pos
<1>1. d.chain \in Seq(Cluster) /\ Len(d.chain) > 0 /\ d.cell \in [Pos -> Cell]
  BY DEF Laid, Record
<1>2. Len(d.chain) \in Nat \ {0} /\ DOMAIN d.chain = 1 .. Len(d.chain)
  BY <1>1
<1> DEFINE l == Len(d.chain)
<1>3. PerCluster * 1 <= PerCluster * l
  BY <1>2, Numbers, MulMono
<1> HIDE DEF l
<1>4. PerCluster \in Nat /\ l \in Nat /\ Count(d) = l * PerCluster
  BY <1>2, Numbers DEF Count, l
<1>5. Count(d) = PerCluster * l /\ Count(d) \in Nat /\ PerCluster * 1 = PerCluster
  BY <1>4
<1>6. QED
  BY <1>1, <1>2, <1>3, <1>5, Numbers DEF l

\* readDirEntry finds entry n in a cluster of the directory's own.
LEMMA PlaceIs ==
    ASSUME Adjacent, NEW d, Laid(d), NEW n \in 0 .. Count(d) - 1
    PROVE  /\ First \in Nat /\ Base \in Nat
           /\ place(d, n) = Base + n /\ Base + n \in Pos
           /\ (Base + n) \div PerCluster = First + n \div PerCluster
           /\ (Base + n) \div PerCluster \notin Foreign
           /\ entry(d, n) = d.cell[Base + n] /\ entry(d, n) \in Cell
<1> DEFINE P == PerCluster
           q == n \div P
           r == n % P
           L == Len(d.chain)
<1>1. P \in Nat \ {0} /\ L \in Nat \ {0} /\ Count(d) = P * L /\ n \in Nat /\ n < P * L
  BY Numbers, CountIs
<1>2. q \in Nat /\ r \in 0 .. P - 1 /\ n = P * q + r
  BY <1>1, DivModIs
<1>3. q < L
  BY <1>1, DivLess
<1>4. First \in 0 .. ClusterCount - 1 /\ ClusterCount \in Nat
  BY Numbers DEF Adjacent, Cluster
<1> HIDE DEF P, q, r, L
<1>5. q + 1 \in 1 .. L
  BY <1>1, <1>2, <1>3
<1>6. d.chain[q + 1] = First + q /\ First + q \in Own
  <2>1. d.chain[q + 1] = First + (q + 1) - 1 /\ d.chain[q + 1] \in Own
    BY <1>5 DEF Laid, L
  <2>2. QED
    BY <2>1, <1>2, <1>4
<1>7. place(d, n) = (First + q) * P + r
  BY <1>6 DEF place, P, q, r
<1>8. (First + q) * P + r = P * (First + q) + r /\ P * (First + q) = First * P + P * q
  BY <1>1, <1>2, <1>4
<1>9. First * P \in Nat
  BY <1>1, <1>4
<1>10. place(d, n) = Base + n /\ Base \in Nat /\ Base + n = P * (First + q) + r
  BY <1>1, <1>2, <1>7, <1>8, <1>9 DEF Base, P
<1>11. (Base + n) \div P = First + q
  <2>1. First + q \in Int
    BY <1>2, <1>4
  <2>2. (P * (First + q) + r) \div P = First + q
    BY <1>1, <1>2, <2>1, DivModOf
  <2>3. QED
    BY <1>10, <2>2
<1>12. First + q < ClusterCount /\ First + q \notin Foreign
  BY <1>6, <1>2, <1>4 DEF Own, Cluster
<1>13. Base + n < P * ClusterCount
  <2>1. Base + n \in Nat
    BY <1>1, <1>10
  <2>2. QED
    BY <2>1, <1>1, <1>4, <1>11, <1>12, DivLess
<1>14. Base + n \in Pos
  <2>1. P * ClusterCount = ClusterCount * PerCluster
    BY <1>1, <1>4 DEF P
  <2>2. QED
    BY <2>1, <1>1, <1>4, <1>10, <1>13 DEF Pos
<1>15. entry(d, n) = d.cell[Base + n] /\ entry(d, n) \in Cell
  BY <1>10, <1>14 DEF entry, Laid, Record
<1>16. QED
  BY <1>4, <1>10, <1>11, <1>12, <1>14, <1>15 DEF P, q

\* fromIno, sync and selfDestruct find the entries of a run where readDirEntry
\* does.
LEMMA AtIs ==
    ASSUME Adjacent, NEW d, Laid(d), NEW n \in 0 .. Count(d) - 1
    PROVE  /\ \A k \in Nat : n + k < Count(d) => at(d, n, k) = Base + (n + k) /\ k \in Reach(d, n)
           /\ Reach(d, n) \in SUBSET Nat
<1>1. PerCluster \in Nat \ {0} /\ Count(d) \in Nat /\ ClusterCount * PerCluster \in Nat
  BY Numbers, CountIs
<1>2. First \in Nat /\ Base \in Nat
  BY PlaceIs
<1>3. d.chain[1] * PerCluster = Base
  <2>1. 1 \in 1 .. Len(d.chain)
    BY CountIs
  <2>2. d.chain[1] = First + 1 - 1
    BY <2>1 DEF Laid
  <2>3. QED
    BY <2>2, <1>2 DEF Base
<1>4. Base + (Count(d) - 1) \in Pos
  <2>1. Count(d) - 1 \in 0 .. Count(d) - 1
    BY <1>1
  <2>2. QED
    BY <2>1, PlaceIs
<1>5. Base + Count(d) <= ClusterCount * PerCluster
  BY <1>1, <1>2, <1>4 DEF Pos
<1>6. Reach(d, n) = 0 .. (IF n < PerCluster THEN Count(d) ELSE ClusterCount * PerCluster - Base) - n - 1
  BY <1>3 DEF Reach
<1>7. ASSUME NEW k \in Nat, n + k < Count(d)
      PROVE  at(d, n, k) = Base + (n + k) /\ k \in Reach(d, n)
  <2>1. n + k \in 0 .. Count(d) - 1
    BY <1>1, <1>7
  <2>2. place(d, n + k) = Base + (n + k)
    BY <2>1, PlaceIs
  <2>3. at(d, n, k) = IF n < PerCluster THEN place(d, n + k) ELSE Base + n + k
    BY <1>3 DEF at
  <2>4. at(d, n, k) = Base + (n + k)
    BY <2>1, <2>2, <2>3, <1>2
  <2>5. k \in Reach(d, n)
    BY <1>1, <1>2, <1>5, <1>6, <1>7
  <2>6. QED
    BY <2>4, <2>5
<1>8. QED
  BY <1>6, <1>7, <1>1, <1>2

-----------------------------------------------------------------------------
(***************************************************************************)
(* Runs.                                                                   *)
(***************************************************************************)
\* An entry in use is a short or a long one, and never the end mark.
LEMMA MarksAre ==
    ASSUME NEW d, NEW n
    PROVE  /\ isShort(d, n) => Used(d, n) /\ ~isLong(d, n)
           /\ isLong(d, n) => Used(d, n)
           /\ Used(d, n) => isShort(d, n) \/ isLong(d, n)
           /\ Used(d, n) => entry(d, n).mark # "end"
BY DEF isShort, isLong, Used, isEmptyDirEntry

\* What an entry counts as depends on the entry alone.
LEMMA SameEntry ==
    ASSUME NEW d, NEW e, NEW n, entry(e, n) = entry(d, n)
    PROVE  /\ Used(e, n) = Used(d, n) /\ isShort(e, n) = isShort(d, n)
           /\ isLong(e, n) = isLong(d, n)
BY DEF isShort, isLong, Used

\* Where a run ends and begins.
LEMMA RunIs ==
    ASSUME NEW d, Laid(d), NEW k, NEW s, NEW l, IsRun(d, k, s, l)
    PROVE  /\ s \in Nat /\ l \in Nat /\ Dots <= s /\ s <= l /\ l < Count(d)
           /\ s \in 0 .. Count(d) - 1 /\ l \in 0 .. Count(d) - 1 /\ l \in Dots .. Count(d) - 1
           /\ isShort(d, l) /\ entry(d, l).name = k /\ ShortAt(d, k, l)
           /\ \A j \in s .. l : Used(d, j) /\ entry(d, j).name = k
<1>1. s \in Dots .. l /\ ShortAt(d, k, l) /\ \A j \in s .. l - 1 : isLong(d, j) /\ entry(d, j).name = k
  BY DEF IsRun
<1>2. l \in Dots .. Count(d) - 1 /\ isShort(d, l) /\ entry(d, l).name = k
  BY <1>1 DEF ShortAt
<1>3. Count(d) \in Nat /\ Dots \in Nat
  BY CountIs, Numbers
<1>4. ASSUME NEW j \in s .. l PROVE Used(d, j) /\ entry(d, j).name = k
  <2>1. j = l \/ j \in s .. l - 1
    BY <1>1, <1>2, <1>3
  <2>2. QED
    BY <1>1, <1>2, <2>1, MarksAre
<1>5. QED
  BY <1>1, <1>2, <1>3, <1>4

\* Two runs that share an entry are one run.
LEMMA RunsApart ==
    ASSUME NEW d, Laid(d), NEW k, NEW s, NEW l, IsRun(d, k, s, l),
           NEW h, NEW t, NEW m, IsRun(d, h, t, m),
           NEW j, j \in s .. l, j \in t .. m
    PROVE  h = k /\ t = s /\ m = l
<1>1. /\ s \in Nat /\ l \in Nat /\ t \in Nat /\ m \in Nat /\ Dots \in Nat
      /\ Dots <= s /\ Dots <= t /\ j \in Nat
      /\ isShort(d, l) /\ isShort(d, m) /\ entry(d, l).name = k /\ entry(d, m).name = h
  BY RunIs, Numbers
<1>2. /\ \A i \in s .. l - 1 : isLong(d, i)
      /\ \A i \in t .. m - 1 : isLong(d, i)
      /\ s = Dots \/ ~isLong(d, s - 1)
      /\ t = Dots \/ ~isLong(d, t - 1)
  BY DEF IsRun
<1>3. ~(l < m)
  <2> SUFFICES ASSUME l < m PROVE FALSE
    OBVIOUS
  <2>1. l \in t .. m - 1
    BY <1>1
  <2>2. QED
    BY <2>1, <1>1, <1>2, MarksAre
<1>4. ~(m < l)
  <2> SUFFICES ASSUME m < l PROVE FALSE
    OBVIOUS
  <2>1. m \in s .. l - 1
    BY <1>1
  <2>2. QED
    BY <2>1, <1>1, <1>2, MarksAre
<1>5. m = l
  BY <1>1, <1>3, <1>4
<1>6. ~(s < t)
  <2> SUFFICES ASSUME s < t PROVE FALSE
    OBVIOUS
  <2>1. t - 1 \in s .. l - 1 /\ t # Dots
    BY <1>1
  <2>2. QED
    BY <2>1, <1>2
<1>7. ~(t < s)
  <2> SUFFICES ASSUME t < s PROVE FALSE
    OBVIOUS
  <2>1. s - 1 \in t .. m - 1 /\ s # Dots
    BY <1>1
  <2>2. QED
    BY <2>1, <1>2
<1>8. QED
  BY <1>1, <1>5, <1>6, <1>7

\* The short entry of a name ends its run.
LEMMA RunOf ==
    ASSUME NEW d, Laid(d), Whole(d), NEW k \in Name, NEW l, ShortAt(d, k, l)
    PROVE  \E s : IsRun(d, k, s, l)
<1>1. l \in Dots .. Count(d) - 1 /\ isShort(d, l) /\ entry(d, l).name = k /\ Used(d, l)
  BY MarksAre DEF ShortAt
<1>2. PICK s, m \in 0 .. Count(d) - 1 : IsRun(d, k, s, m) /\ l \in s .. m
  BY <1>1 DEF Whole, InRuns
<1>3. m = l \/ l \in s .. m - 1
  BY <1>1, <1>2, CountIs, Numbers
<1>4. \A j \in s .. m - 1 : isLong(d, j)
  BY <1>2 DEF IsRun
<1>5. m = l
  BY <1>1, <1>3, <1>4, MarksAre
<1>6. QED
  BY <1>2, <1>5

\* A name has one short entry in a whole directory.
LEMMA ShortOnce ==
    ASSUME NEW d, Whole(d), NEW k \in Name, NEW l, NEW m, ShortAt(d, k, l), ShortAt(d, k, m)
    PROVE  m = l
BY DEF Whole, OneRun, ShortAt

-----------------------------------------------------------------------------
(***************************************************************************)
(* Lookup.                                                                 *)
(***************************************************************************)
\* Everything in use lies in front of the end mark: the walk of
\* lookupFileInner comes by.
LEMMA LimitIs ==
    ASSUME NEW d, Laid(d), Ended(d)
    PROVE  /\ Limit(d) \in Nat /\ Limit(d) <= Count(d)
           /\ \A n \in 0 .. Count(d) - 1 : Used(d, n) => n < Limit(d)
<1> DEFINE S == {n \in 0 .. Count(d) - 1 : entry(d, n).mark = "end"} \cup {Count(d)}
<1>1. Count(d) \in Nat
  BY CountIs
<1>2. Limit(d) \in S /\ Limit(d) \in Nat /\ \A m \in S : Limit(d) <= m
  <2>1. S \in SUBSET Nat /\ S # {}
    BY <1>1
  <2> HIDE DEF S
  <2>2. QED
    BY <2>1, LeastIs DEF Limit, S
<1>3. ASSUME NEW n \in 0 .. Count(d) - 1, Used(d, n), Limit(d) <= n
      PROVE  FALSE
  <2>1. Limit(d) \in 0 .. Count(d) - 1 /\ entry(d, Limit(d)).mark = "end"
    BY <1>1, <1>2, <1>3
  <2>2. Limit(d) < n \/ Limit(d) = n
    BY <1>1, <1>2, <1>3
  <2>3. QED
    BY <1>3, <2>1, <2>2, MarksAre DEF Ended
<1>4. QED
  BY <1>1, <1>2, <1>3

\* Walking back from its last entry a lookup finds where a run begins.
LEMMA FirstOfIs ==
    ASSUME NEW d, Laid(d), DotsThere(d), NEW k, NEW s, NEW l, IsRun(d, k, s, l)
    PROVE  firstOf(d, l) = s
<1>1. s \in Nat /\ l \in Nat /\ Dots <= s /\ s <= l /\ isShort(d, l) /\ Dots \in Nat
  BY RunIs, Numbers
<1>2. /\ \A i \in s .. l - 1 : isLong(d, i)
      /\ s = Dots \/ ~isLong(d, s - 1)
  BY DEF IsRun
<1>3. s = 0 \/ ~isLong(d, s - 1)
  <2>1. CASE s = Dots /\ s # 0
    <3>1. s - 1 \in 0 .. Dots - 1
      BY <1>1, <2>1
    <3>2. QED
      BY <3>1, MarksAre DEF DotsThere
  <2>2. QED
    BY <1>1, <1>2, <2>1
<1> DEFINE P(i) == /\ i = 0 \/ ~isLong(d, i - 1)
                   /\ \A j \in i .. l - 1 : isLong(d, j)
<1>4. s \in 0 .. l /\ P(s)
  BY <1>1, <1>2, <1>3
<1>5. ASSUME NEW i \in 0 .. l, P(i) PROVE i = s
  <2>1. ~(i < s)
    <3> SUFFICES ASSUME i < s PROVE FALSE
      OBVIOUS
    <3>1. s - 1 \in i .. l - 1
      BY <1>1
    <3>2. QED
      BY <3>1, <1>1, <1>3, <1>5
  <2>2. ~(s < i)
    <3> SUFFICES ASSUME s < i PROVE FALSE
      OBVIOUS
    <3>1. i - 1 \in s .. l - 1
      BY <1>1
    <3>2. QED
      BY <3>1, <1>1, <1>2, <1>5
  <2>3. QED
    BY <1>1, <2>1, <2>2
<1>6. firstOf(d, l) = CHOOSE i \in 0 .. l : P(i)
  BY DEF firstOf
<1>7. QED
  BY <1>4, <1>5, <1>6

\* lookupFileInner finds the run of a name and no other.
LEMMA FoundIs ==
    ASSUME NEW d, Laid(d), Whole(d), NEW k \in Name
    PROVE  /\ \A r \in Found(d, k) : IsRun(d, k, r.start, r.last)
           /\ \A s, l : IsRun(d, k, s, l) =>
                 /\ Found(d, k) = {[start |-> s, last |-> l]}
                 /\ lookupFileInner(d, k) = [start |-> s, last |-> l]
<1>0. DotsThere(d) /\ Ended(d)
  BY DEF Whole
<1>1. ASSUME NEW r \in Found(d, k)
      PROVE  IsRun(d, k, r.start, r.last) /\ r = [start |-> r.start, last |-> r.last]
  <2>1. r \in Runs(d) /\ entry(d, r.last).name = k
    BY DEF Found, Spells
  <2>2. PICK l \in 0 .. Limit(d) - 1 : isShort(d, l) /\ r = [start |-> firstOf(d, l), last |-> l]
    BY <2>1 DEF Runs
  <2>3. l \in 0 .. Count(d) - 1 /\ Count(d) \in Nat /\ Dots \in Nat
    BY <1>0, LimitIs, CountIs, Numbers
  <2>4. r.last = l /\ r.start = firstOf(d, l) /\ entry(d, l).name = k
    BY <2>1, <2>2
  <2>5. l \in Dots .. Count(d) - 1
    <3>1. ~(l \in 0 .. Dots - 1)
      BY <2>4, <1>0, Numbers DEF DotsThere
    <3>2. QED
      BY <2>3, <3>1
  <2>6. ShortAt(d, k, l)
    BY <2>2, <2>4, <2>5 DEF ShortAt
  <2>7. PICK s : IsRun(d, k, s, l)
    BY <2>6, RunOf
  <2>8. firstOf(d, l) = s
    BY <1>0, <2>7, FirstOfIs
  <2>9. QED
    BY <2>2, <2>4, <2>7, <2>8
<1>2. ASSUME NEW s, NEW l, IsRun(d, k, s, l)
      PROVE  [start |-> s, last |-> l] \in Found(d, k)
  <2> DEFINE r == [start |-> s, last |-> l]
  <2>1. /\ s \in Nat /\ l \in Nat /\ l \in 0 .. Count(d) - 1 /\ isShort(d, l) /\ entry(d, l).name = k
        /\ \A j \in s .. l : entry(d, j).name = k
    BY <1>2, RunIs
  <2>2. firstOf(d, l) = s
    BY <1>0, <1>2, FirstOfIs
  <2>3. l \in 0 .. Limit(d) - 1
    <3>1. l < Limit(d) /\ Limit(d) \in Nat
      BY <1>0, <2>1, LimitIs, MarksAre
    <3>2. QED
      BY <2>1, <3>1
  <2>4. r \in Runs(d)
    BY <2>1, <2>2, <2>3 DEF Runs
  <2>5. Spells(d, r, k)
    BY <1>2, <2>1 DEF Spells, IsRun
  <2>6. QED
    BY <2>4, <2>5 DEF Found
<1>3. ASSUME NEW s, NEW l, IsRun(d, k, s, l)
      PROVE  Found(d, k) = {[start |-> s, last |-> l]}
  <2>1. ASSUME NEW r \in Found(d, k) PROVE r = [start |-> s, last |-> l]
    <3>1. IsRun(d, k, r.start, r.last) /\ r = [start |-> r.start, last |-> r.last]
      BY <1>1
    <3>2. r.last = l
      BY <1>3, <3>1, RunIs, ShortOnce
    <3>3. l \in s .. l /\ l \in r.start .. l
      BY <1>3, <3>1, <3>2, RunIs
    <3>4. r.start = s
      BY <1>3, <3>1, <3>2, <3>3, RunsApart
    <3>5. QED
      BY <3>1, <3>2, <3>4
  <2>2. QED
    BY <1>2, <1>3, <2>1
<1>4. ASSUME NEW s, NEW l, IsRun(d, k, s, l)
      PROVE  lookupFileInner(d, k) = [start |-> s, last |-> l]
  <2> DEFINE r == [start |-> s, last |-> l]
  <2>1. Found(d, k) = {r} /\ r.start <= r.start
    BY <1>3, <1>4, RunIs
  <2> HIDE DEF r
  <2>2. lookupFileInner(d, k) = CHOOSE x \in {r} : \A q \in {r} : x.start <= q.start
    BY <2>1 DEF lookupFileInner
  <2>3. QED
    BY <2>1, <2>2 DEF r
<1>5. QED
  BY <1>1, <1>3, <1>4

\* The names a directory holds are those of its short entries.
LEMMA TableIs ==
    ASSUME NEW d, Laid(d), Whole(d)
    PROVE  /\ Live(d) = {k \in Name : \E l : ShortAt(d, k, l)}
           /\ Table(d) = [k \in Live(d) |-> Table(d)[k]]
           /\ \A k \in Name : \A l : ShortAt(d, k, l) => k \in Live(d) /\ Table(d)[k] = entry(d, l).meta
<1> DEFINE runs == {r \in Runs(d) : entry(d, r.last).name \in Name}
           named == {r \in runs : Spells(d, r, entry(d, r.last).name)}
           S == {entry(d, r.last).name : r \in named}
           T(n) == entry(d, (CHOOSE r \in named : entry(d, r.last).name = n).last).meta
<1>1. Table(d) = [n \in S |-> T(n)]
  BY DEF Table
<1>2. named = UNION {Found(d, k) : k \in Name}
  <2>1. \A r \in named : r \in Found(d, entry(d, r.last).name) /\ entry(d, r.last).name \in Name
    BY DEF Found
  <2>2. \A k \in Name : \A r \in Found(d, k) : r \in named
    BY DEF Found, Spells
  <2>3. QED
    BY <2>1, <2>2
<1>3. \A r \in named : \E k \in Name : r \in Found(d, k) /\ IsRun(d, k, r.start, r.last)
  BY <1>2, FoundIs
<1>4. ASSUME NEW k \in Name, NEW l, ShortAt(d, k, l)
      PROVE  /\ \E r \in named : r.last = l
             /\ \A r \in named : entry(d, r.last).name = k => r.last = l
  <2>1. PICK s : IsRun(d, k, s, l)
    BY <1>4, RunOf
  <2>2. [start |-> s, last |-> l] \in Found(d, k)
    BY <2>1, FoundIs
  <2>3. ASSUME NEW r \in named, entry(d, r.last).name = k PROVE r.last = l
    <3>1. PICK h \in Name : IsRun(d, h, r.start, r.last)
      BY <1>3
    <3>2. ShortAt(d, h, r.last) /\ h = k
      BY <2>3, <3>1, RunIs
    <3>3. QED
      BY <1>4, <3>2, ShortOnce
  <2>4. QED
    BY <1>2, <2>2, <2>3
<1>5. \A r \in named : entry(d, r.last).name \in Name /\ ShortAt(d, entry(d, r.last).name, r.last)
  BY <1>3, RunIs
<1> HIDE DEF named, runs
<1>6. Live(d) = S
  BY <1>1 DEF Live
<1>7. S = {k \in Name : \E l : ShortAt(d, k, l)}
  <2>1. ASSUME NEW k \in Name, NEW l, ShortAt(d, k, l) PROVE k \in S
    BY <1>4, <2>1 DEF ShortAt
  <2>2. ASSUME NEW k \in S PROVE k \in Name /\ \E l : ShortAt(d, k, l)
    BY <1>5
  <2>3. QED
    BY <2>1, <2>2
<1>8. ASSUME NEW k \in Name, NEW l, ShortAt(d, k, l)
      PROVE  k \in S /\ T(k) = entry(d, l).meta
  <2>1. k \in S
    BY <1>7, <1>8
  <2>2. PICK r \in named : entry(d, r.last).name = k
    BY <2>1
  <2> DEFINE q == CHOOSE r1 \in named : entry(d, r1.last).name = k
  <2>3. q \in named /\ entry(d, q.last).name = k
    BY <2>2
  <2>4. q.last = l
    BY <1>4, <1>8, <2>3
  <2>5. QED
    BY <2>1, <2>4
<1> HIDE DEF S, T
<1>9. QED
  BY <1>1, <1>6, <1>7, <1>8

-----------------------------------------------------------------------------
(***************************************************************************)
(* Entries written.                                                        *)
(***************************************************************************)
\* Nothing is written into clusters of other files.
KeepsOthers(d, e) ==
    \A p \in DOMAIN d.cell : p \div PerCluster \in Foreign => e.cell[p] = d.cell[p]

\* Name k stands where it stood.
Stays(d, e, k) == \A l : ShortAt(e, k, l) <=> ShortAt(d, k, l)
\* It has its metadata besides.
Keeps(d, e, k) == Stays(d, e, k) /\ \A l : ShortAt(d, k, l) => entry(e, l).meta = entry(d, l).meta

\* A write that leaves the chain alone.
LEMMA CellsSet ==
    ASSUME Adjacent, NEW d, Laid(d), NEW e \in Record, e.chain = d.chain,
           \A p \in Pos : p \notin Base .. Base + Count(d) - 1 => e.cell[p] = d.cell[p]
    PROVE  /\ Laid(e) /\ Count(e) = Count(d) /\ KeepsOthers(d, e)
           /\ \A n \in 0 .. Count(d) - 1 : entry(e, n) = e.cell[Base + n]
<1>1. Laid(e) /\ Count(e) = Count(d)
  BY DEF Laid, Count
<1>2. \A n \in 0 .. Count(d) - 1 : entry(e, n) = e.cell[Base + n]
  BY <1>1, PlaceIs
<1>3. ASSUME NEW p \in Pos, p \div PerCluster \in Foreign
      PROVE  e.cell[p] = d.cell[p]
  <2>1. CASE p \in Base .. Base + Count(d) - 1
    <3>1. Base \in Nat /\ Count(d) \in Nat
      <4>1. 0 \in 0 .. Count(d) - 1 /\ Count(d) \in Nat
        BY CountIs, Numbers
      <4>2. QED
        BY <4>1, PlaceIs
    <3>2. p - Base \in 0 .. Count(d) - 1 /\ Base + (p - Base) = p
      BY <2>1, <3>1
    <3>3. QED
      BY <1>3, <3>2, PlaceIs
  <2>2. QED
    BY <2>1
<1>4. KeepsOthers(d, e)
  BY <1>3, CountIs DEF KeepsOthers
<1>5. QED
  BY <1>1, <1>2, <1>4

\* Metadata does not matter to runs.
LEMMA SameMarks ==
    ASSUME NEW d, NEW e, Laid(d), Laid(e), Whole(d), Count(e) = Count(d),
           \A n \in 0 .. Count(d) - 1 : /\ entry(e, n).mark = entry(d, n).mark
                                        /\ entry(e, n).long = entry(d, n).long
                                        /\ entry(e, n).name = entry(d, n).name
    PROVE  /\ Whole(e)
           /\ \A k : Stays(d, e, k)
           /\ \A k, s, l : IsRun(d, k, s, l) => IsRun(e, k, s, l)
<1>1. \A n \in 0 .. Count(d) - 1 :
        Used(e, n) = Used(d, n) /\ isShort(e, n) = isShort(d, n) /\ isLong(e, n) = isLong(d, n)
  BY DEF isShort, isLong, Used, isEmptyDirEntry
<1>2. Count(d) \in Nat /\ Dots \in Nat /\ Dots < Count(d)
  BY CountIs, Numbers
<1>3. \A k : Stays(d, e, k)
  <2>1. \A l \in Dots .. Count(d) - 1 : l \in 0 .. Count(d) - 1
    BY <1>2
  <2>2. QED
    BY <1>1, <2>1 DEF Stays, ShortAt
<1>4. ASSUME NEW k, NEW s, NEW l, IsRun(d, k, s, l)
      PROVE  IsRun(e, k, s, l)
  <2>1. s \in Nat /\ l \in Nat /\ Dots <= s /\ s <= l /\ l < Count(d)
    BY <1>4, RunIs
  <2>2. \A j \in s .. l - 1 : j \in 0 .. Count(d) - 1
    BY <1>2, <2>1
  <2>3. s # Dots => s - 1 \in 0 .. Count(d) - 1
    BY <1>2, <2>1
  <2>4. ShortAt(e, k, l)
    BY <1>3, <1>4 DEF Stays, IsRun
  <2>5. QED
    BY <1>1, <1>4, <2>2, <2>3, <2>4 DEF IsRun
<1>5. DotsThere(e)
  <2>1. \A n \in 0 .. Dots - 1 : n \in 0 .. Count(d) - 1
    BY <1>2
  <2>2. QED
    BY <1>1, <2>1 DEF Whole, DotsThere
<1>6. Ended(e)
  BY <1>1 DEF Whole, Ended
<1>7. InRuns(e)
  <2>1. \A n \in Dots .. Count(d) - 1 : n \in 0 .. Count(d) - 1
    BY <1>2
  <2>2. ASSUME NEW n \in Dots .. Count(d) - 1, Used(e, n)
        PROVE  /\ entry(e, n).name \in Name
               /\ \E s, l \in 0 .. Count(d) - 1 : IsRun(e, entry(e, n).name, s, l) /\ n \in s .. l
    <3>1. Used(d, n) /\ entry(e, n).name = entry(d, n).name
      BY <1>1, <2>1, <2>2
    <3>2. /\ entry(d, n).name \in Name
          /\ \E s, l \in 0 .. Count(d) - 1 : IsRun(d, entry(d, n).name, s, l) /\ n \in s .. l
      BY <3>1 DEF Whole, InRuns
    <3>3. QED
      BY <1>4, <3>1, <3>2
  <2>3. QED
    BY <2>2 DEF InRuns
<1>8. OneRun(e)
  BY <1>3 DEF Whole, OneRun, Stays
<1>9. QED
  BY <1>3, <1>4, <1>5, <1>6, <1>7, <1>8 DEF Whole

\* Whole runs erased leave whole runs.
LEMMA RunsErased ==
    ASSUME NEW d, NEW e, Laid(d), Laid(e), Whole(d), Count(e) = Count(d),
           NEW G \in SUBSET (Dots .. Count(d) - 1),
           \A k, s, l : IsRun(d, k, s, l) => s .. l \subseteq G \/ s .. l \cap G = {},
           \A n \in 0 .. Count(d) - 1 : n \notin G => entry(e, n) = entry(d, n),
           \A n \in G : ~Used(e, n),
           \A m \in G : entry(e, m).mark = "end" =>
               \A n \in 0 .. Count(d) - 1 : m < n => ~Used(e, n)
    PROVE  /\ Whole(e)
           /\ \A k, l : ShortAt(e, k, l) <=> ShortAt(d, k, l) /\ l \notin G
           /\ \A k, s, l : IsRun(d, k, s, l) /\ l \notin G => IsRun(e, k, s, l)
<1>1. \A n \in 0 .. Count(d) - 1 : n \notin G =>
        Used(e, n) = Used(d, n) /\ isShort(e, n) = isShort(d, n) /\ isLong(e, n) = isLong(d, n)
  BY SameEntry
<1>2. Count(d) \in Nat /\ Dots \in Nat /\ Dots < Count(d)
  BY CountIs, Numbers
<1>3. \A k, l : ShortAt(e, k, l) <=> ShortAt(d, k, l) /\ l \notin G
  <2>1. \A l \in Dots .. Count(d) - 1 : l \in 0 .. Count(d) - 1
    BY <1>2
  <2>2. \A l \in G : ~isShort(e, l)
    BY MarksAre
  <2>3. QED
    BY <1>1, <2>1, <2>2 DEF ShortAt
<1>4. ASSUME NEW k, NEW s, NEW l, IsRun(d, k, s, l), l \notin G
      PROVE  IsRun(e, k, s, l)
  <2>1. s \in Nat /\ l \in Nat /\ Dots <= s /\ s <= l /\ l < Count(d)
    BY <1>4, RunIs
  <2>2. l \in s .. l
    BY <2>1
  <2>3. s .. l \cap G = {}
    BY <1>4, <2>2
  <2>4. \A j \in s .. l - 1 : j \in 0 .. Count(d) - 1 /\ j \notin G
    BY <1>2, <2>1, <2>3
  <2>5. s # Dots => s - 1 \in 0 .. Count(d) - 1
    BY <1>2, <2>1
  <2>6. s # Dots => ~isLong(e, s - 1)
    <3>1. CASE s - 1 \in G
      BY <3>1, MarksAre
    <3>2. CASE s - 1 \notin G
      BY <1>1, <1>4, <2>5, <3>2 DEF IsRun
    <3>3. QED
      BY <3>1, <3>2
  <2>7. \A j \in s .. l - 1 : isLong(e, j) /\ entry(e, j).name = k
    BY <1>1, <1>4, <2>4 DEF IsRun
  <2>8. QED
    BY <1>3, <1>4, <2>6, <2>7 DEF IsRun
<1>5. DotsThere(e)
  <2>1. \A n \in 0 .. Dots - 1 : n \in 0 .. Count(d) - 1 /\ n \notin G
    BY <1>2
  <2>2. QED
    BY <1>1, <2>1 DEF Whole, DotsThere
<1>6. Ended(e)
  <2>1. SUFFICES ASSUME NEW m \in 0 .. Count(d) - 1, NEW n \in 0 .. Count(d) - 1,
                        m < n, Used(e, n)
                 PROVE  entry(e, m).mark # "end"
    BY DEF Ended
  <2>2. CASE m \in G
    BY <2>1, <2>2
  <2>3. CASE m \notin G
    <3>1. n \notin G
      BY <2>1
    <3>2. Used(d, n) /\ entry(e, m) = entry(d, m)
      BY <1>1, <2>1, <2>3, <3>1
    <3>3. QED
      BY <2>1, <3>2 DEF Whole, Ended
  <2>4. QED
    BY <2>2, <2>3
<1>7. InRuns(e)
  <2>1. SUFFICES ASSUME NEW n \in Dots .. Count(d) - 1, Used(e, n)
                 PROVE  /\ entry(e, n).name \in Name
                        /\ \E s, l \in 0 .. Count(d) - 1 : IsRun(e, entry(e, n).name, s, l) /\ n \in s .. l
    BY DEF InRuns
  <2>2. n \in 0 .. Count(d) - 1 /\ n \notin G
    BY <1>2, <2>1
  <2>3. Used(d, n) /\ entry(e, n).name = entry(d, n).name
    BY <1>1, <2>1, <2>2
  <2>4. entry(d, n).name \in Name
    BY <2>1, <2>3 DEF Whole, InRuns
  <2>5. PICK s, l \in 0 .. Count(d) - 1 : IsRun(d, entry(d, n).name, s, l) /\ n \in s .. l
    BY <2>1, <2>3 DEF Whole, InRuns
  <2>6. s .. l \cap G = {}
    BY <2>2, <2>5
  <2>7. l \notin G
    BY <2>5, <2>6, RunIs
  <2>8. QED
    BY <1>4, <2>3, <2>4, <2>5, <2>7
<1>8. OneRun(e)
  BY <1>3 DEF Whole, OneRun
<1>9. QED
  BY <1>3, <1>4, <1>5, <1>6, <1>7, <1>8 DEF Whole

\* Entries may appear and go behind the last that is in use.
LEMMA EndMoved ==
    ASSUME NEW d, NEW e, Laid(d), Laid(e), Whole(d),
           \A n \in 0 .. Count(d) - 1 : n < Count(e) => entry(e, n) = entry(d, n),
           \A n \in 0 .. Count(e) - 1 : Count(d) <= n => entry(e, n).mark = "end",
           \A n \in 0 .. Count(d) - 1 : Count(e) <= n => ~Used(d, n)
    PROVE  /\ Whole(e)
           /\ \A n \in 0 .. Count(e) - 1 : Used(e, n) => n < Count(d) /\ Used(d, n)
           /\ \A k : Keeps(d, e, k)
           /\ \A k, s, l : IsRun(d, k, s, l) => IsRun(e, k, s, l)
<1>1. /\ Count(d) \in Nat /\ Dots \in Nat /\ Dots < Count(d)
      /\ Count(e) \in Nat /\ Dots < Count(e)
  BY CountIs, Numbers
<1>2. \A n \in 0 .. Count(d) - 1 : n < Count(e) =>
        Used(e, n) = Used(d, n) /\ isShort(e, n) = isShort(d, n) /\ isLong(e, n) = isLong(d, n)
  BY SameEntry
<1>3. \A n \in 0 .. Count(e) - 1 : Used(e, n) => n < Count(d) /\ n \in 0 .. Count(d) - 1 /\ Used(d, n)
  <2>1. \A n \in 0 .. Count(e) - 1 : Count(d) <= n \/ (n < Count(d) /\ n \in 0 .. Count(d) - 1)
    BY <1>1
  <2>2. \A n \in 0 .. Count(e) - 1 : n < Count(e)
    BY <1>1
  <2>3. QED
    BY <1>2, <2>1, <2>2, MarksAre
<1>4. \A n \in 0 .. Count(d) - 1 : Used(d, n) => n < Count(e) /\ n \in 0 .. Count(e) - 1 /\ Used(e, n)
  <2>1. \A n \in 0 .. Count(d) - 1 : Count(e) <= n \/ (n < Count(e) /\ n \in 0 .. Count(e) - 1)
    BY <1>1
  <2>2. QED
    BY <1>2, <2>1
<1>5. \A k, l : ShortAt(e, k, l) <=> ShortAt(d, k, l)
  <2>1. ASSUME NEW k, NEW l, ShortAt(d, k, l) PROVE ShortAt(e, k, l)
    <3>1. l \in Dots .. Count(d) - 1 /\ l \in 0 .. Count(d) - 1 /\ isShort(d, l) /\ entry(d, l).name = k
      BY <1>1, <2>1 DEF ShortAt
    <3>2. l < Count(e)
      BY <1>4, <3>1, MarksAre
    <3>3. l \in Dots .. Count(e) - 1
      BY <1>1, <3>1, <3>2
    <3>4. QED
      BY <1>2, <3>1, <3>2, <3>3 DEF ShortAt
  <2>2. ASSUME NEW k, NEW l, ShortAt(e, k, l) PROVE ShortAt(d, k, l)
    <3>1. l \in Dots .. Count(e) - 1 /\ l \in 0 .. Count(e) - 1 /\ isShort(e, l) /\ entry(e, l).name = k
      BY <1>1, <2>2 DEF ShortAt
    <3>2. l < Count(d) /\ l < Count(e)
      BY <1>1, <1>3, <3>1, MarksAre
    <3>3. l \in Dots .. Count(d) - 1 /\ l \in 0 .. Count(d) - 1
      BY <1>1, <3>1, <3>2
    <3>4. QED
      BY <1>2, <3>1, <3>2, <3>3 DEF ShortAt
  <2>3. QED
    BY <2>1, <2>2
<1>6. \A k : Keeps(d, e, k)
  <2>1. ASSUME NEW k, NEW l, ShortAt(d, k, l) PROVE entry(e, l).meta = entry(d, l).meta
    <3>1. l \in 0 .. Count(d) - 1 /\ isShort(d, l)
      BY <1>1, <2>1 DEF ShortAt
    <3>2. l < Count(e)
      BY <1>4, <3>1, MarksAre
    <3>3. QED
      BY <3>1, <3>2
  <2>2. QED
    BY <1>5, <2>1 DEF Keeps, Stays
<1>7. ASSUME NEW k, NEW s, NEW l, IsRun(d, k, s, l)
      PROVE  IsRun(e, k, s, l)
  <2>1. /\ s \in Nat /\ l \in Nat /\ Dots <= s /\ s <= l /\ l < Count(d)
        /\ l \in 0 .. Count(d) - 1 /\ isShort(d, l)
    BY <1>7, RunIs
  <2>2. l < Count(e)
    BY <1>4, <2>1, MarksAre
  <2>3. \A j \in s .. l - 1 : j \in 0 .. Count(d) - 1 /\ j < Count(e)
    BY <1>1, <2>1, <2>2
  <2>4. s # Dots => s - 1 \in 0 .. Count(d) - 1 /\ s - 1 < Count(e)
    BY <1>1, <2>1, <2>2
  <2>5. \A j \in s .. l - 1 : isLong(e, j) /\ entry(e, j).name = k
    BY <1>2, <1>7, <2>3 DEF IsRun
  <2>6. s = Dots \/ ~isLong(e, s - 1)
    BY <1>2, <1>7, <2>4 DEF IsRun
  <2>7. QED
    BY <1>5, <1>7, <2>5, <2>6 DEF IsRun
<1>8. DotsThere(e)
  <2>1. \A n \in 0 .. Dots - 1 : n \in 0 .. Count(d) - 1 /\ n < Count(e)
    BY <1>1
  <2>2. QED
    BY <1>2, <2>1 DEF Whole, DotsThere
<1>9. Ended(e)
  <2>1. SUFFICES ASSUME NEW m \in 0 .. Count(e) - 1, NEW n \in 0 .. Count(e) - 1,
                        m < n, Used(e, n)
                 PROVE  entry(e, m).mark # "end"
    BY DEF Ended
  <2>2. n < Count(d) /\ n \in 0 .. Count(d) - 1 /\ Used(d, n)
    BY <1>3, <2>1
  <2>3. m \in 0 .. Count(d) - 1 /\ m < Count(e)
    BY <1>1, <2>1, <2>2
  <2>4. QED
    BY <2>1, <2>2, <2>3 DEF Whole, Ended
<1>10. InRuns(e)
  <2>1. SUFFICES ASSUME NEW n \in Dots .. Count(e) - 1, Used(e, n)
                 PROVE  /\ entry(e, n).name \in Name
                        /\ \E s, l \in 0 .. Count(e) - 1 : IsRun(e, entry(e, n).name, s, l) /\ n \in s .. l
    BY DEF InRuns
  <2>2. n \in 0 .. Count(e) - 1 /\ n < Count(e)
    BY <1>1, <2>1
  <2>3. n \in 0 .. Count(d) - 1 /\ Used(d, n) /\ n \in Dots .. Count(d) - 1
    BY <1>1, <1>3, <2>1, <2>2
  <2>4. entry(e, n).name = entry(d, n).name
    BY <2>2, <2>3
  <2>5. entry(d, n).name \in Name
    BY <2>3 DEF Whole, InRuns
  <2>6. PICK s, l \in 0 .. Count(d) - 1 : IsRun(d, entry(d, n).name, s, l) /\ n \in s .. l
    BY <2>3 DEF Whole, InRuns
  <2>7. IsRun(e, entry(d, n).name, s, l)
    BY <1>7, <2>6
  <2>8. s \in 0 .. Count(e) - 1 /\ l \in 0 .. Count(e) - 1
    BY <2>7, RunIs
  <2>9. QED
    BY <2>4, <2>5, <2>6, <2>7, <2>8
<1>11. OneRun(e)
  <2>1. \A k, l : ShortAt(d, k, l) => l \in Dots .. Count(d) - 1
    BY DEF ShortAt
  <2>2. QED
    BY <1>5, <2>1 DEF Whole, OneRun
<1>12. QED
  BY <1>3, <1>6, <1>7, <1>8, <1>9, <1>10, <1>11 DEF Whole

\* A run written over empty entries is a run more.
LEMMA RunWritten ==
    ASSUME NEW d, NEW e, Laid(d), Laid(e), Whole(d), Count(e) = Count(d),
           NEW k \in Name, \A x : ~ShortAt(d, k, x),
           NEW i \in Dots .. Count(d) - 1, NEW l \in 0 .. Count(d) - 1, l = i + Needed[k] - 1,
           \A n \in i .. l : ~Used(d, n),
           \A n \in 0 .. Count(d) - 1 : n < i => entry(d, n).mark # "end",
           \A n \in 0 .. Count(d) - 1 : n \notin i .. l => entry(e, n) = entry(d, n),
           \A n \in i .. l - 1 : entry(e, n) = Long(k),
           NEW m, entry(e, l) = Short(k, m)
    PROVE  /\ Whole(e) /\ IsRun(e, k, i, l)
           /\ \A h, x : ShortAt(e, h, x) <=> ShortAt(d, h, x) \/ (h = k /\ x = l)
           /\ \A h, s, t : IsRun(d, h, s, t) => IsRun(e, h, s, t)
<1>1. /\ Count(d) \in Nat /\ Dots \in Nat /\ Dots < Count(d) /\ Needed[k] \in Nat /\ Needed[k] >= 2
      /\ i \in Nat /\ l \in Nat /\ Dots <= i /\ i < l /\ l < Count(d)
  BY CountIs, Numbers
<1>2. \A n \in 0 .. Count(d) - 1 : n \notin i .. l =>
        Used(e, n) = Used(d, n) /\ isShort(e, n) = isShort(d, n) /\ isLong(e, n) = isLong(d, n)
  BY SameEntry
<1>3. \A n \in i .. l - 1 : isLong(e, n) /\ ~isShort(e, n) /\ entry(e, n).name = k
  BY DEF isLong, isShort, Used, isEmptyDirEntry, Long
<1>4. isShort(e, l) /\ ~isLong(e, l) /\ entry(e, l).name = k
  BY DEF isLong, isShort, Used, isEmptyDirEntry, Short
<1>5. \A n \in i .. l : n = l \/ n \in i .. l - 1
  BY <1>1
<1>6. \A n \in i .. l : Used(e, n) /\ entry(e, n).name = k
  BY <1>3, <1>4, <1>5, MarksAre
<1>7. l \in Dots .. Count(d) - 1 /\ i \in Dots .. l
  BY <1>1
<1>8. \A h, x : ShortAt(e, h, x) <=> ShortAt(d, h, x) \/ (h = k /\ x = l)
  <2>1. ASSUME NEW h, NEW x \in Dots .. Count(d) - 1
        PROVE  ShortAt(e, h, x) <=> ShortAt(d, h, x) \/ (h = k /\ x = l)
    <3>1. x \in 0 .. Count(d) - 1
      BY <1>1
    <3>2. CASE x \in i .. l
      <4>1. ~ShortAt(d, h, x)
        BY <3>2, MarksAre DEF ShortAt
      <4>2. QED
        BY <1>3, <1>4, <1>5, <2>1, <3>2, <4>1 DEF ShortAt
    <3>3. CASE x \notin i .. l
      <4>1. x # l
        BY <1>1, <3>3
      <4>2. QED
        BY <1>2, <3>1, <3>3, <4>1 DEF ShortAt
    <3>4. QED
      BY <3>2, <3>3
  <2>2. QED
    BY <1>7, <2>1 DEF ShortAt
<1>9. ASSUME NEW h, NEW s, NEW t, IsRun(d, h, s, t)
      PROVE  IsRun(e, h, s, t)
  <2>1. /\ s \in Nat /\ t \in Nat /\ Dots <= s /\ s <= t /\ t < Count(d)
        /\ \A j \in s .. t : Used(d, j)
    BY <1>9, RunIs
  <2>2. \A j \in s .. t - 1 : j \in s .. t
    BY <2>1
  <2>3. \A j \in s .. t - 1 : j \in 0 .. Count(d) - 1 /\ j \notin i .. l
    <3>1. \A j \in s .. t - 1 : j \in 0 .. Count(d) - 1
      BY <1>1, <2>1
    <3>2. QED
      BY <2>1, <2>2, <3>1
  <2>4. s # Dots => s - 1 \in 0 .. Count(d) - 1
    BY <1>1, <2>1
  <2>5. s # Dots => ~isLong(e, s - 1)
    <3>1. CASE s - 1 \in i .. l - 1
      <4>1. s \in i .. l /\ s \in s .. t
        BY <1>1, <2>1, <3>1
      <4>2. QED
        BY <2>1, <4>1
    <3>2. CASE s - 1 = l
      BY <1>4, <3>2
    <3>3. CASE s - 1 \notin i .. l
      BY <1>2, <1>9, <2>4, <3>3 DEF IsRun
    <3>4. QED
      BY <1>5, <3>1, <3>2, <3>3
  <2>6. \A j \in s .. t - 1 : isLong(e, j) /\ entry(e, j).name = h
    BY <1>2, <1>9, <2>3 DEF IsRun
  <2>7. QED
    BY <1>8, <1>9, <2>5, <2>6 DEF IsRun
<1>10. IsRun(e, k, i, l)
  <2>1. i = Dots \/ ~isLong(e, i - 1)
    <3>1. SUFFICES ASSUME i # Dots, isLong(e, i - 1) PROVE FALSE
      OBVIOUS
    <3> DEFINE b == i - 1
    <3>2. b \in Dots .. Count(d) - 1 /\ b \in 0 .. Count(d) - 1 /\ b \notin i .. l /\ b + 1 = i
      BY <1>1, <3>1
    <3> HIDE DEF b
    <3>3. isLong(d, b) /\ Used(d, b)
      BY <1>2, <3>1, <3>2, MarksAre DEF b
    <3>4. PICK s, t \in 0 .. Count(d) - 1 : IsRun(d, entry(d, b).name, s, t) /\ b \in s .. t
      BY <3>2, <3>3 DEF Whole, InRuns
    <3>5. isShort(d, t) /\ \A j \in s .. t : Used(d, j)
      BY <3>4, RunIs
    <3>6. b # t
      BY <3>3, <3>5, MarksAre
    <3>7. i \in s .. t /\ i \in i .. l
      BY <1>1, <3>2, <3>4, <3>6
    <3>8. QED
      BY <3>5, <3>7
  <2>2. l - i + 1 = Needed[k]
    BY <1>1
  <2>3. QED
    BY <1>3, <1>7, <1>8, <2>1, <2>2 DEF IsRun
<1>11. DotsThere(e)
  <2>1. \A n \in 0 .. Dots - 1 : n \in 0 .. Count(d) - 1 /\ n \notin i .. l
    BY <1>1
  <2>2. QED
    BY <1>2, <2>1 DEF Whole, DotsThere
<1>12. Ended(e)
  <2>1. SUFFICES ASSUME NEW a \in 0 .. Count(d) - 1, NEW n \in 0 .. Count(d) - 1,
                        a < n, Used(e, n)
                 PROVE  entry(e, a).mark # "end"
    BY DEF Ended
  <2>2. CASE a \in i .. l
    BY <1>6, <2>2, MarksAre
  <2>3. CASE a \notin i .. l
    <3>1. entry(e, a) = entry(d, a)
      BY <2>3
    <3>2. CASE n \in i .. l
      <4>1. a < i
        BY <1>1, <2>1, <2>3, <3>2
      <4>2. QED
        BY <3>1, <4>1
    <3>3. CASE n \notin i .. l
      <4>1. Used(d, n)
        BY <1>2, <2>1, <3>3
      <4>2. QED
        BY <2>1, <3>1, <4>1 DEF Whole, Ended
    <3>4. QED
      BY <3>2, <3>3
  <2>4. QED
    BY <2>2, <2>3
<1>13. InRuns(e)
  <2>1. SUFFICES ASSUME NEW n \in Dots .. Count(d) - 1, Used(e, n)
                 PROVE  /\ entry(e, n).name \in Name
                        /\ \E s, t \in 0 .. Count(d) - 1 : IsRun(e, entry(e, n).name, s, t) /\ n \in s .. t
    BY DEF InRuns
  <2>2. n \in 0 .. Count(d) - 1
    BY <1>1
  <2>3. CASE n \in i .. l
    <3>1. entry(e, n).name = k /\ i \in 0 .. Count(d) - 1
      BY <1>1, <1>6, <2>3
    <3>2. QED
      BY <1>10, <2>3, <3>1
  <2>4. CASE n \notin i .. l
    <3>1. Used(d, n) /\ entry(e, n) = entry(d, n)
      BY <1>2, <2>1, <2>2, <2>4
    <3>2. entry(d, n).name \in Name
      BY <3>1 DEF Whole, InRuns
    <3>3. PICK s, t \in 0 .. Count(d) - 1 : IsRun(d, entry(d, n).name, s, t) /\ n \in s .. t
      BY <3>1 DEF Whole, InRuns
    <3>4. QED
      BY <1>9, <3>1, <3>2, <3>3
  <2>5. QED
    BY <2>3, <2>4
<1>14. OneRun(e)
  BY <1>8 DEF Whole, OneRun
<1>15. QED
  BY <1>8, <1>9, <1>10, <1>11, <1>12, <1>13, <1>14 DEF Whole

-----------------------------------------------------------------------------
(***************************************************************************)
(* The metadata of an object.                                              *)
(***************************************************************************)
\* sync and selfDestruct walk over long entries to the first that is not.
LEMMA SpanIs ==
    ASSUME Adjacent, NEW d, Laid(d), NEW s \in 0 .. Count(d) - 1, NEW l \in 0 .. Count(d) - 1, s <= l,
           \A j \in s .. l - 1 : entry(d, j).long, ~entry(d, l).long
    PROVE  /\ span(d, s) = l - s /\ l - s \in Nat
           /\ \A k \in 0 .. l - s : at(d, s, k) = Base + (s + k) /\ s + k \in s .. l
                                    /\ d.cell[at(d, s, k)] = entry(d, s + k)
<1>1. Count(d) \in Nat /\ s \in Nat /\ l \in Nat /\ l < Count(d) /\ l - s \in Nat
  BY CountIs
<1>2. ASSUME NEW k \in 0 .. l - s
      PROVE  /\ at(d, s, k) = Base + (s + k) /\ s + k \in s .. l
             /\ d.cell[at(d, s, k)] = entry(d, s + k) /\ k \in Reach(d, s)
  <2>1. k \in Nat /\ s + k < Count(d) /\ s + k \in 0 .. Count(d) - 1 /\ s + k \in s .. l
    BY <1>1
  <2>2. at(d, s, k) = Base + (s + k) /\ k \in Reach(d, s)
    BY <2>1, AtIs
  <2>3. entry(d, s + k) = d.cell[Base + (s + k)]
    BY <2>1, PlaceIs
  <2>4. QED
    BY <2>1, <2>2, <2>3
<1> DEFINE stops == {k \in Reach(d, s) : ~d.cell[at(d, s, k)].long}
<1>3. l - s \in stops
  <2>1. l - s \in 0 .. l - s /\ s + (l - s) = l
    BY <1>1
  <2>2. d.cell[at(d, s, l - s)] = entry(d, l) /\ l - s \in Reach(d, s)
    BY <1>2, <2>1
  <2>3. QED
    BY <2>2
<1>4. stops \in SUBSET Nat /\ stops # {}
  <2>1. Reach(d, s) \in SUBSET Nat
    BY AtIs
  <2>2. QED
    BY <1>3, <2>1
<1>5. Least(stops) \in stops /\ Least(stops) \in Nat /\ Least(stops) <= l - s
  <2> HIDE DEF stops
  <2>1. QED
    BY <1>3, <1>4, LeastIs
<1>6. ~(Least(stops) < l - s)
  <2> SUFFICES ASSUME Least(stops) < l - s PROVE FALSE
    OBVIOUS
  <2> DEFINE k == Least(stops)
  <2>1. k \in stops /\ k \in 0 .. l - s /\ s + k \in s .. l - 1
    BY <1>1, <1>5
  <2>2. ~d.cell[at(d, s, k)].long
    BY <2>1
  <2> HIDE DEF k
  <2>3. QED
    BY <1>2, <2>1, <2>2
<1>7. span(d, s) = Least(stops)
  BY <1>4 DEF span
<1> HIDE DEF stops
<1>8. QED
  BY <1>1, <1>2, <1>5, <1>6, <1>7

\* File::sync changes the metadata of the short entry and nothing else.
LEMMA SyncIs ==
    ASSUME Adjacent, NEW d, Laid(d), NEW s \in 0 .. Count(d) - 1, NEW l \in 0 .. Count(d) - 1, s <= l,
           \A j \in s .. l - 1 : entry(d, j).long, ~entry(d, l).long, NEW m \in Meta
    PROVE  LET e == sync(d, s, m)
           IN  /\ Laid(e) /\ Count(e) = Count(d) /\ KeepsOthers(d, e)
               /\ entry(e, l) = [entry(d, l) EXCEPT !.meta = m]
               /\ \A n \in 0 .. Count(d) - 1 : n # l => entry(e, n) = entry(d, n)
<1> DEFINE e == sync(d, s, m)
           p == Base + l
<1>1. d \in Record /\ d.cell \in [Pos -> Cell]
  BY DEF Laid, Record
<1>2. at(d, s, span(d, s)) = p
  <2>1. span(d, s) = l - s /\ l - s \in 0 .. l - s /\ s + (l - s) = l
    BY SpanIs
  <2>2. QED
    BY <2>1, SpanIs
<1>3. p \in Pos /\ Base \in Nat /\ entry(d, l) = d.cell[p] /\ d.cell[p] \in Cell
  BY PlaceIs
<1>4. e = [d EXCEPT !.cell[p].meta = m]
  BY <1>2 DEF sync
<1> HIDE DEF e, p
<1>5. e.chain = d.chain /\ e.cell = [d.cell EXCEPT ![p] = [d.cell[p] EXCEPT !.meta = m]]
  BY <1>1, <1>4 DEF Record
<1>6. [d.cell[p] EXCEPT !.meta = m] \in Cell
  BY <1>3 DEF Cell
<1>7. e.cell \in [Pos -> Cell]
  BY <1>1, <1>5, <1>6
<1>8. e \in Record
  BY <1>1, <1>4, <1>5, <1>7 DEF Record
<1>9. \A q \in Pos : q # p => e.cell[q] = d.cell[q]
  BY <1>1, <1>5
<1>10. e.cell[p] = [d.cell[p] EXCEPT !.meta = m]
  BY <1>1, <1>3, <1>5
<1>11. p \in Base .. Base + Count(d) - 1
  <2>1. Count(d) \in Nat
    BY CountIs
  <2>2. QED
    BY <1>3, <2>1 DEF p
<1>12. /\ Laid(e) /\ Count(e) = Count(d) /\ KeepsOthers(d, e)
       /\ \A n \in 0 .. Count(d) - 1 : entry(e, n) = e.cell[Base + n]
  BY <1>5, <1>8, <1>9, <1>11, CellsSet
<1>13. ASSUME NEW n \in 0 .. Count(d) - 1, n # l PROVE entry(e, n) = entry(d, n)
  <2>1. Base + n \in Pos /\ entry(d, n) = d.cell[Base + n]
    BY PlaceIs
  <2>2. Base + n # p
    BY <1>3, <1>13 DEF p
  <2>3. QED
    BY <1>9, <1>12, <2>1, <2>2
<1>14. entry(e, l) = [entry(d, l) EXCEPT !.meta = m]
  BY <1>3, <1>10, <1>12 DEF p
<1>15. QED
  BY <1>12, <1>13, <1>14 DEF e

\* File::selfDestruct erases the entries from the first of a run to its last, and
\* nothing else.
LEMMA DestroyIs ==
    ASSUME Adjacent, NEW d, Laid(d), NEW s \in 0 .. Count(d) - 1, NEW l \in 0 .. Count(d) - 1, s <= l,
           \A j \in s .. l - 1 : entry(d, j).long, ~entry(d, l).long
    PROVE  LET e == selfDestruct(d, s)
           IN  /\ Laid(e) /\ Count(e) = Count(d) /\ KeepsOthers(d, e)
               /\ \A n \in s .. l : entry(e, n) = [entry(d, n) EXCEPT !.mark = "deleted"]
               /\ \A n \in 0 .. Count(d) - 1 : n \notin s .. l => entry(e, n) = entry(d, n)
<1> DEFINE e == selfDestruct(d, s)
           gone == {at(d, s, k) : k \in 0 .. span(d, s)}
           c == [p \in Pos |-> IF p \in gone THEN [d.cell[p] EXCEPT !.mark = "deleted"] ELSE d.cell[p]]
<1>1. d \in Record /\ d.cell \in [Pos -> Cell] /\ DOMAIN d.cell = Pos
  BY DEF Laid, Record
<1>2. Count(d) \in Nat /\ Base \in Nat /\ s \in Nat /\ l \in Nat /\ l < Count(d)
  BY CountIs, PlaceIs
<1>3. \A n \in 0 .. Count(d) - 1 : Base + n \in gone <=> n \in s .. l
  <2>1. /\ span(d, s) = l - s /\ l - s \in Nat
        /\ \A k \in 0 .. l - s : at(d, s, k) = Base + (s + k) /\ s + k \in s .. l
    BY SpanIs
  <2>2. ASSUME NEW n \in 0 .. Count(d) - 1, n \in s .. l PROVE Base + n \in gone
    <3>1. n - s \in 0 .. l - s /\ s + (n - s) = n
      BY <1>2, <2>2
    <3>2. at(d, s, n - s) = Base + n
      BY <2>1, <3>1
    <3>3. QED
      BY <2>1, <3>1, <3>2
  <2>3. ASSUME NEW n \in 0 .. Count(d) - 1, Base + n \in gone PROVE n \in s .. l
    <3>1. PICK k \in 0 .. l - s : at(d, s, k) = Base + n
      BY <2>1, <2>3
    <3>2. Base + n = Base + (s + k) /\ s + k \in s .. l /\ s + k \in Nat
      BY <1>2, <2>1, <3>1
    <3>3. n = s + k
      BY <1>2, <3>2
    <3>4. QED
      BY <3>2, <3>3
  <2>4. QED
    BY <2>2, <2>3
<1>4. \A p \in gone : p \in Base .. Base + Count(d) - 1
  <2>1. /\ span(d, s) = l - s /\ l - s \in Nat
        /\ \A k \in 0 .. l - s : at(d, s, k) = Base + (s + k) /\ s + k \in s .. l
    BY SpanIs
  <2>2. \A x \in s .. l : Base + x \in Base .. Base + Count(d) - 1
    BY <1>2
  <2>3. QED
    BY <2>1, <2>2
<1>5. e = [d EXCEPT !.cell = c]
  BY <1>1 DEF selfDestruct
<1> HIDE DEF e, gone
<1>6. c \in [Pos -> Cell]
  <2>1. \A p \in Pos : d.cell[p] \in Cell
    BY <1>1
  <2>2. \A x \in Cell : [x EXCEPT !.mark = "deleted"] \in Cell
    BY DEF Cell
  <2>3. QED
    BY <2>1, <2>2
<1>7. \A p \in Pos : c[p] = IF p \in gone THEN [d.cell[p] EXCEPT !.mark = "deleted"] ELSE d.cell[p]
  OBVIOUS
<1> HIDE DEF c
<1>8. e \in Record /\ e.chain = d.chain /\ e.cell = c
  BY <1>1, <1>5, <1>6 DEF Record
<1>9. /\ Laid(e) /\ Count(e) = Count(d) /\ KeepsOthers(d, e)
      /\ \A n \in 0 .. Count(d) - 1 : entry(e, n) = c[Base + n]
  BY <1>4, <1>7, <1>8, CellsSet
<1>10. \A n \in 0 .. Count(d) - 1 : Base + n \in Pos /\ entry(d, n) = d.cell[Base + n]
  BY PlaceIs
<1>11. \A n \in s .. l : n \in 0 .. Count(d) - 1
  BY <1>2
<1>12. \A n \in s .. l : entry(e, n) = [entry(d, n) EXCEPT !.mark = "deleted"]
  BY <1>3, <1>7, <1>9, <1>10, <1>11
<1>13. \A n \in 0 .. Count(d) - 1 : n \notin s .. l => entry(e, n) = entry(d, n)
  BY <1>3, <1>7, <1>9, <1>10
<1>14. QED
  BY <1>9, <1>12, <1>13 DEF e

\* A run is such a stretch.
LEMMA RunSpan ==
    ASSUME NEW d, Laid(d), NEW k, NEW s, NEW l, IsRun(d, k, s, l)
    PROVE  /\ s \in 0 .. Count(d) - 1 /\ l \in 0 .. Count(d) - 1 /\ s <= l
           /\ \A j \in s .. l - 1 : entry(d, j).long
           /\ ~entry(d, l).long
<1>1. \A j \in s .. l - 1 : isLong(d, j)
  BY DEF IsRun
<1>2. s \in 0 .. Count(d) - 1 /\ l \in 0 .. Count(d) - 1 /\ s <= l /\ isShort(d, l)
  BY RunIs
<1>3. QED
  BY <1>1, <1>2 DEF isLong, isShort

\* What two steps of a call both leave alone the call leaves alone.
LEMMA KeepsTrans ==
    ASSUME NEW d, NEW e, NEW f
    PROVE  /\ \A k : Stays(d, e, k) /\ Stays(e, f, k) => Stays(d, f, k)
           /\ \A k : Keeps(d, e, k) /\ Keeps(e, f, k) => Keeps(d, f, k)
           /\ Laid(d) /\ Laid(e) /\ KeepsOthers(d, e) /\ KeepsOthers(e, f) => KeepsOthers(d, f)
<1>1. Laid(d) /\ Laid(e) => DOMAIN d.cell = Pos /\ DOMAIN e.cell = Pos
  BY CountIs
<1>2. QED
  BY <1>1 DEF Keeps, Stays, KeepsOthers

\* sync of the object of a name.
LEMMA RunSynced ==
    ASSUME Adjacent, NEW d, Laid(d), Whole(d), NEW k \in Name, NEW s, NEW l, IsRun(d, k, s, l),
           NEW m \in Meta
    PROVE  LET e == sync(d, s, m)
           IN  /\ Laid(e) /\ Whole(e) /\ KeepsOthers(d, e)
               /\ \A h : Stays(d, e, h)
               /\ \A h \in Name : h # k => Keeps(d, e, h)
               /\ entry(e, l).meta = m
               /\ \A h, t, x : IsRun(d, h, t, x) => IsRun(e, h, t, x)
<1> DEFINE e == sync(d, s, m)
<1>1. /\ Laid(e) /\ Count(e) = Count(d) /\ KeepsOthers(d, e)
      /\ entry(e, l) = [entry(d, l) EXCEPT !.meta = m]
      /\ \A n \in 0 .. Count(d) - 1 : n # l => entry(e, n) = entry(d, n)
  BY RunSpan, SyncIs
<1> HIDE DEF e
<1>2. entry(d, l) \in Cell
  BY RunSpan, PlaceIs
<1>3. /\ entry(e, l).meta = m /\ entry(e, l).mark = entry(d, l).mark
      /\ entry(e, l).long = entry(d, l).long /\ entry(e, l).name = entry(d, l).name
  BY <1>1, <1>2 DEF Cell
<1>4. \A n \in 0 .. Count(d) - 1 : /\ entry(e, n).mark = entry(d, n).mark
                                   /\ entry(e, n).long = entry(d, n).long
                                   /\ entry(e, n).name = entry(d, n).name
  BY <1>1, <1>3
<1>5. /\ Whole(e) /\ \A h : Stays(d, e, h)
      /\ \A h, t, x : IsRun(d, h, t, x) => IsRun(e, h, t, x)
  BY <1>1, <1>4, SameMarks
<1>6. ASSUME NEW h \in Name, h # k, NEW x, ShortAt(d, h, x)
      PROVE  entry(e, x).meta = entry(d, x).meta
  <2>1. x # l /\ x \in 0 .. Count(d) - 1
    BY <1>6, CountIs, Numbers DEF IsRun, ShortAt
  <2>2. QED
    BY <1>1, <2>1
<1>7. QED
  BY <1>1, <1>3, <1>5, <1>6 DEF e, Keeps

\* selfDestruct of the object of a name.
LEMMA RunDestroyed ==
    ASSUME Adjacent, NEW d, Laid(d), Whole(d), NEW k \in Name, NEW s, NEW l, IsRun(d, k, s, l)
    PROVE  LET e == selfDestruct(d, s)
           IN  /\ Laid(e) /\ Whole(e) /\ KeepsOthers(d, e)
               /\ \A x : ~ShortAt(e, k, x)
               /\ \A h \in Name : h # k => Keeps(d, e, h)
<1> DEFINE e == selfDestruct(d, s)
<1>1. /\ Laid(e) /\ Count(e) = Count(d) /\ KeepsOthers(d, e)
      /\ \A n \in s .. l : entry(e, n) = [entry(d, n) EXCEPT !.mark = "deleted"]
      /\ \A n \in 0 .. Count(d) - 1 : n \notin s .. l => entry(e, n) = entry(d, n)
  BY RunSpan, DestroyIs
<1> HIDE DEF e
<1>2. s \in Nat /\ l \in Nat /\ Dots <= s /\ s <= l /\ l < Count(d) /\ Count(d) \in Nat /\ Dots \in Nat
  BY RunIs, CountIs, Numbers
<1>3. s .. l \in SUBSET (Dots .. Count(d) - 1)
  BY <1>2
<1>4. \A n \in s .. l : n \in 0 .. Count(d) - 1
  BY <1>2
<1>5. \A n \in s .. l : entry(d, n) \in Cell
  BY <1>4, PlaceIs
<1>6. \A n \in s .. l : entry(e, n).mark = "deleted"
  BY <1>1, <1>5 DEF Cell
<1>7. \A n \in s .. l : ~Used(e, n)
  BY <1>6 DEF Used, isEmptyDirEntry
<1>8. \A n \in s .. l : entry(e, n).mark # "end"
  BY <1>6
<1>9. \A h, t, x : IsRun(d, h, t, x) => t .. x \subseteq s .. l \/ t .. x \cap s .. l = {}
  BY RunsApart
<1>10. /\ Whole(e)
       /\ \A h, x : ShortAt(e, h, x) <=> ShortAt(d, h, x) /\ x \notin s .. l
  <2> DEFINE G == s .. l
  <2>1. G \in SUBSET (Dots .. Count(d) - 1)
    BY <1>3
  <2>2. \A h, t, x : IsRun(d, h, t, x) => t .. x \subseteq G \/ t .. x \cap G = {}
    BY <1>9
  <2>3. \A n \in 0 .. Count(d) - 1 : n \notin G => entry(e, n) = entry(d, n)
    BY <1>1
  <2>4. \A n \in G : ~Used(e, n)
    BY <1>7
  <2>5. \A m \in G : entry(e, m).mark = "end" =>
            \A n \in 0 .. Count(d) - 1 : m < n => ~Used(e, n)
    BY <1>8
  <2> HIDE DEF G
  <2>6. /\ Whole(e)
        /\ \A h, x : ShortAt(e, h, x) <=> ShortAt(d, h, x) /\ x \notin G
    BY <1>1, <2>1, <2>2, <2>3, <2>4, <2>5, RunsErased
  <2>7. QED
    BY <2>6 DEF G
<1>11. \A x : ~ShortAt(e, k, x)
  <2>1. \A x : ShortAt(d, k, x) => x = l
    BY RunIs, ShortOnce
  <2>2. l \in s .. l
    BY <1>2
  <2>3. QED
    BY <1>10, <2>1, <2>2
<1>12. ASSUME NEW h \in Name, h # k
       PROVE  Keeps(d, e, h)
  <2>1. ASSUME NEW x, ShortAt(d, h, x)
        PROVE  x \in 0 .. Count(d) - 1 /\ x \notin s .. l
    <3>1. x \in 0 .. Count(d) - 1 /\ entry(d, x).name = h
      BY <1>2, <2>1 DEF ShortAt
    <3>2. \A j \in s .. l : entry(d, j).name = k
      BY RunIs
    <3>3. QED
      BY <1>12, <3>1, <3>2
  <2>2. QED
    BY <1>1, <1>10, <2>1 DEF Keeps, Stays
<1>13. QED
  BY <1>1, <1>10, <1>11, <1>12 DEF e

\* The destructor of an object whose entries are erased: it writes to an empty
\* entry (crtDir, unlink).
LEMMA DeadTouched ==
    ASSUME Adjacent, NEW d, Laid(d), Whole(d), NEW s \in 0 .. Count(d) - 1,
           ~Used(d, s), ~entry(d, s).long
    PROVE  /\ LET e == selfDestruct(d, s)
              IN  Laid(e) /\ Whole(e) /\ KeepsOthers(d, e) /\ \A k : Keeps(d, e, k)
           /\ \A m \in Meta : LET e == sync(d, s, m)
              IN  Laid(e) /\ Whole(e) /\ KeepsOthers(d, e) /\ \A k : Keeps(d, e, k)
<1>1. Count(d) \in Nat /\ Dots \in Nat /\ s <= s /\ s .. s = {s} /\ s .. s - 1 = {}
  BY CountIs, Numbers
<1>2. s \in Dots .. Count(d) - 1
  <2>1. ~(s \in 0 .. Dots - 1)
    BY MarksAre DEF Whole, DotsThere
  <2>2. QED
    BY <1>1, <2>1
<1>3. entry(d, s) \in Cell
  BY PlaceIs
<1>4. \A k, x : ShortAt(d, k, x) => x # s /\ x \in 0 .. Count(d) - 1
  BY <1>1, MarksAre DEF ShortAt
<1>5. ASSUME NEW m \in Meta, NEW e, e = sync(d, s, m)
      PROVE  Laid(e) /\ Whole(e) /\ KeepsOthers(d, e) /\ \A k : Keeps(d, e, k)
  <2>1. /\ Laid(e) /\ Count(e) = Count(d) /\ KeepsOthers(d, e)
        /\ entry(e, s) = [entry(d, s) EXCEPT !.meta = m]
        /\ \A n \in 0 .. Count(d) - 1 : n # s => entry(e, n) = entry(d, n)
    BY <1>1, <1>5, SyncIs
  <2>2. /\ entry(e, s).mark = entry(d, s).mark
        /\ entry(e, s).long = entry(d, s).long /\ entry(e, s).name = entry(d, s).name
    BY <1>3, <2>1 DEF Cell
  <2>3. \A n \in 0 .. Count(d) - 1 : /\ entry(e, n).mark = entry(d, n).mark
                                     /\ entry(e, n).long = entry(d, n).long
                                     /\ entry(e, n).name = entry(d, n).name
    BY <2>1, <2>2
  <2>4. Whole(e) /\ \A k : Stays(d, e, k)
    BY <2>1, <2>3, SameMarks
  <2>5. QED
    BY <1>4, <2>1, <2>4 DEF Keeps
<1>6. ASSUME NEW e, e = selfDestruct(d, s)
      PROVE  Laid(e) /\ Whole(e) /\ KeepsOthers(d, e) /\ \A k : Keeps(d, e, k)
  <2>1. /\ Laid(e) /\ Count(e) = Count(d) /\ KeepsOthers(d, e)
        /\ entry(e, s) = [entry(d, s) EXCEPT !.mark = "deleted"]
        /\ \A n \in 0 .. Count(d) - 1 : n # s => entry(e, n) = entry(d, n)
    BY <1>1, <1>6, DestroyIs
  <2>2. entry(e, s).mark = "deleted" /\ ~Used(e, s)
    BY <1>3, <2>1 DEF Cell, Used, isEmptyDirEntry
  <2>3. \A k, t, x : IsRun(d, k, t, x) => t .. x \subseteq {s} \/ t .. x \cap {s} = {}
    BY RunIs
  <2>4. /\ Whole(e)
        /\ \A k, x : ShortAt(e, k, x) <=> ShortAt(d, k, x) /\ x \notin {s}
    <3> DEFINE G == {s}
    <3>1. G \in SUBSET (Dots .. Count(d) - 1)
      BY <1>2
    <3>2. \A h, t, x : IsRun(d, h, t, x) => t .. x \subseteq G \/ t .. x \cap G = {}
      BY <2>3
    <3>3. \A n \in 0 .. Count(d) - 1 : n \notin G => entry(e, n) = entry(d, n)
      BY <2>1
    <3>4. \A n \in G : ~Used(e, n)
      BY <2>2
    <3>5. \A m \in G : entry(e, m).mark = "end" =>
              \A n \in 0 .. Count(d) - 1 : m < n => ~Used(e, n)
      BY <2>2
    <3> HIDE DEF G
    <3>6. /\ Whole(e)
          /\ \A h, x : ShortAt(e, h, x) <=> ShortAt(d, h, x) /\ x \notin G
      BY <2>1, <3>1, <3>2, <3>3, <3>4, <3>5, RunsErased
    <3>7. QED
      BY <3>6 DEF G
  <2>5. QED
    BY <1>4, <2>1, <2>4 DEF Keeps, Stays
<1>7. QED
  BY <1>5, <1>6

\* fromIno makes the object of the name whose run starts there.
LEMMA FromInoIs ==
    ASSUME Adjacent, NEW d, Laid(d), NEW k \in Name, NEW s, NEW l, IsRun(d, k, s, l)
    PROVE  fromIno(d, s) = {[name |-> k, length |-> l - s + 1, meta |-> entry(d, l).meta]}
<1>1. /\ span(d, s) = l - s /\ l - s \in Nat
      /\ \A x \in 0 .. l - s : s + x \in s .. l /\ d.cell[at(d, s, x)] = entry(d, s + x)
  BY RunSpan, SpanIs
<1>2. \A j \in s .. l : Used(d, j)
  BY RunIs
<1>3. \A x \in 0 .. span(d, s) : ~isEmptyDirEntry(d.cell[at(d, s, x)])
  BY <1>1, <1>2 DEF Used
<1>4. d.cell[at(d, s, span(d, s))] = entry(d, l)
  <2>1. l - s \in 0 .. l - s /\ s + (l - s) = l
    BY <1>1, RunIs
  <2>2. QED
    BY <1>1, <2>1
<1>5. entry(d, l).name = k
  BY RunIs
<1>6. QED
  BY <1>1, <1>3, <1>4, <1>5 DEF fromIno

-----------------------------------------------------------------------------
(***************************************************************************)
(* Clusters.                                                               *)
(***************************************************************************)
\* The clusters a .. c in their order.
LEMMA RisingRow ==
    ASSUME NEW a \in Nat, NEW c \in Int, NEW n \in Nat, n = c - a + 1,
           NEW f \in [1 .. n -> a .. c],
           \A i, j \in 1 .. n : i < j => f[i] < f[j]
    PROVE  \A i \in 1 .. n : f[i] = a + i - 1
<1> DEFINE U == {i \in Nat : i + 1 \in 1 .. n => f[i + 1] >= a + i}
           D == {i \in Nat : n - i \in 1 .. n => f[n - i] <= c - i}
<1>0. \A i \in 1 .. n : f[i] \in Int /\ a <= f[i] /\ f[i] <= c
  OBVIOUS
<1>1. U = Nat
  <2>1. 0 \in U
    BY <1>0
  <2>2. ASSUME NEW i \in U PROVE i + 1 \in U
    <3>1. SUFFICES ASSUME i + 1 + 1 \in 1 .. n PROVE f[i + 1 + 1] >= a + (i + 1)
      OBVIOUS
    <3>2. i + 1 \in 1 .. n /\ i + 1 < i + 1 + 1
      BY <3>1
    <3>3. f[i + 1] >= a + i /\ f[i + 1] < f[i + 1 + 1]
      BY <2>2, <3>1, <3>2
    <3>4. QED
      BY <1>0, <3>1, <3>2, <3>3
  <2>3. U \in SUBSET Nat
    OBVIOUS
  <2> HIDE DEF U
  <2>4. QED
    BY <2>1, <2>2, <2>3, NatInduct
<1>2. D = Nat
  <2>1. 0 \in D
    BY <1>0
  <2>2. ASSUME NEW i \in D PROVE i + 1 \in D
    <3>1. SUFFICES ASSUME n - (i + 1) \in 1 .. n PROVE f[n - (i + 1)] <= c - (i + 1)
      OBVIOUS
    <3>2. n - i \in 1 .. n /\ n - (i + 1) < n - i
      BY <3>1
    <3>3. f[n - i] <= c - i /\ f[n - (i + 1)] < f[n - i]
      BY <2>2, <3>1, <3>2
    <3>4. QED
      BY <1>0, <3>1, <3>2, <3>3
  <2>3. D \in SUBSET Nat
    OBVIOUS
  <2> HIDE DEF D
  <2>4. QED
    BY <2>1, <2>2, <2>3, NatInduct
<1>3. SUFFICES ASSUME NEW i \in 1 .. n PROVE f[i] = a + i - 1
  OBVIOUS
<1>4. i - 1 \in U /\ n - i \in D
  <2>1. i - 1 \in Nat /\ n - i \in Nat
    OBVIOUS
  <2> HIDE DEF U, D
  <2>2. QED
    BY <1>1, <1>2, <2>1
<1>5. f[i] >= a + (i - 1)
  <2>1. (i - 1) + 1 = i
    OBVIOUS
  <2>2. QED
    BY <1>4, <2>1
<1>6. f[i] <= c - (n - i)
  <2>1. n - (n - i) = i
    OBVIOUS
  <2>2. QED
    BY <1>4, <2>1
<1>7. QED
  BY <1>0, <1>5, <1>6

\* A directory that grows is given the clusters behind its own.
LEMMA FreeIs ==
    ASSUME Adjacent, NEW d, Laid(d)
    PROVE  /\ Len(FreeClusters(d)) \in Nat /\ FreeClusters(d) \in Seq(Cluster)
           /\ \A i \in 1 .. Len(FreeClusters(d)) :
                 /\ FreeClusters(d)[i] = First + Len(d.chain) + i - 1
                 /\ FreeClusters(d)[i] \in Own
<1> DEFINE L == Len(d.chain)
           S == Cluster \ (Foreign \cup ToSet(d.chain))
           a == First + L
           n == Cardinality(S)
           F == Ascending(S)
<1>1. PICK c \in Cluster : Own = First .. c
  BY DEF Adjacent
<1>2. /\ First \in Nat /\ c \in Nat /\ L \in Nat \ {0} /\ DOMAIN d.chain = 1 .. L
      /\ \A i \in 1 .. L : d.chain[i] = First + i - 1 /\ d.chain[i] \in Own
  BY CountIs DEF Adjacent, Cluster, Laid
<1>3. a <= c + 1
  <2>1. L \in 1 .. L
    BY <1>2
  <2>2. First + L - 1 \in First .. c
    BY <1>1, <1>2, <2>1
  <2>3. QED
    BY <1>2, <2>2
<1>4. S = a .. c
  <2>1. S = (First .. c) \ ToSet(d.chain)
    BY <1>1 DEF Own
  <2>2. ToSet(d.chain) = {First + i - 1 : i \in 1 .. L}
    BY <1>2 DEF ToSet
  <2>3. \A x \in First .. c : x \in ToSet(d.chain) <=> x < a
    <3>1. ASSUME NEW x \in First .. c, x < a PROVE x \in ToSet(d.chain)
      <4>1. x - First + 1 \in 1 .. L /\ First + (x - First + 1) - 1 = x
        BY <1>2, <3>1
      <4>2. QED
        BY <2>2, <4>1
    <3>2. ASSUME NEW x \in First .. c, x \in ToSet(d.chain) PROVE x < a
      BY <1>2, <2>2, <3>2
    <3>3. QED
      BY <3>1, <3>2
  <2>4. QED
    BY <1>2, <1>3, <2>1, <2>3
<1>5. n = c - a + 1 /\ n \in Nat /\ S \in SUBSET Nat /\ IsFiniteSet(S)
  <2>1. a \in Nat /\ c \in Int /\ S \in SUBSET Nat /\ c - a + 1 \in Nat
    BY <1>2, <1>3, <1>4
  <2> HIDE DEF a
  <2>2. IsFiniteSet(a .. c) /\ Cardinality(a .. c) = IF a > c THEN 0 ELSE c - a + 1
    BY <2>1, FS_Interval
  <2>3. Cardinality(a .. c) = c - a + 1
    BY <2>1, <2>2
  <2>4. QED
    BY <1>4, <2>1, <2>2, <2>3
<1>6. \E s \in [1 .. n -> S] : \A i, j \in DOMAIN s : i < j => s[i] < s[j]
  <2>1. PICK s : Enumerates(s, S)
    BY <1>5, Enumeration
  <2>2. s \in [1 .. n -> S] /\ DOMAIN s = 1 .. n
    BY <2>1 DEF Enumerates
  <2>3. QED
    BY <2>1, <2>2 DEF Enumerates
<1>7. F \in [1 .. n -> S] /\ \A i, j \in DOMAIN F : i < j => F[i] < F[j]
  BY <1>6 DEF Ascending
<1> HIDE DEF F, n
<1>8. F \in [1 .. n -> a .. c] /\ DOMAIN F = 1 .. n
  BY <1>4, <1>7
<1>9. \A i \in 1 .. n : F[i] = a + i - 1
  <2>1. a \in Nat
    BY <1>2
  <2>2. \A i, j \in 1 .. n : i < j => F[i] < F[j]
    BY <1>7, <1>8
  <2> HIDE DEF a, L, S
  <2>3. n \in Nat /\ n = c - a + 1 /\ c \in Int
    BY <1>2, <1>5
  <2>4. F \in [1 .. n -> a .. c]
    BY <1>8
  <2>5. QED
    BY <2>1, <2>2, <2>3, <2>4, RisingRow
<1>10. \A i \in 1 .. n : F[i] \in Own /\ F[i] \in Cluster
  <2>1. \A i \in 1 .. n : F[i] \in S
    BY <1>7
  <2>2. QED
    BY <2>1 DEF Own
<1>11. F \in Seq(Cluster) /\ Len(F) = n
  BY <1>5, <1>8, <1>10
<1>12. FreeClusters(d) = F
  BY DEF FreeClusters, F
<1>13. QED
  BY <1>5, <1>9, <1>10, <1>11, <1>12

\* Directory::truncate cuts off and clears whole clusters.
LEMMA TruncateIs ==
    ASSUME Adjacent, NEW d, Laid(d), NEW n \in Nat \ {0},
           (n - 1) \div PerCluster + 1 <= Len(d.chain) + Len(FreeClusters(d))
    PROVE  LET e == truncate(d, n)
           IN  /\ Laid(e) /\ KeepsOthers(d, e) /\ n <= Count(e)
               /\ \A x \in 0 .. Count(d) - 1 : x < Count(e) => entry(e, x) = entry(d, x)
               /\ \A x \in 0 .. Count(e) - 1 : Count(d) <= x => entry(e, x).mark = "end"
<1> DEFINE P == PerCluster
           L == Len(d.chain)
           q == (n - 1) \div P
           size == q + 1
           e == truncate(d, n)
           F == FreeClusters(d)
           more == SubSeq(F, 1, size - L)
           c == [p \in Pos |-> IF p \div P \in ToSet(more) THEN Zeroed ELSE d.cell[p]]
<1>1. /\ P \in Nat \ {0} /\ L \in Nat \ {0} /\ Count(d) = P * L /\ Count(d) \in Nat
      /\ DOMAIN d.chain = 1 .. L /\ DOMAIN d.cell = Pos
  BY CountIs, Numbers
<1>2. /\ First \in Nat
      /\ \A i \in 1 .. L : d.chain[i] = First + i - 1 /\ d.chain[i] \in Own
  BY DEF Laid, Adjacent, Cluster
<1>3. d \in Record /\ d.chain \in Seq(Cluster) /\ d.cell \in [Pos -> Cell]
  BY DEF Laid, Record
<1>4. size \in Nat \ {0} /\ n <= P * size
  <2>1. n - 1 \in Nat
    OBVIOUS
  <2>2. q \in Nat /\ (n - 1) % P \in 0 .. P - 1 /\ n - 1 = P * q + ((n - 1) % P)
    BY <1>1, <2>1, DivModIs
  <2> HIDE DEF q
  <2>3. P * (q + 1) = P * q + P
    BY <1>1, <2>2
  <2>4. QED
    BY <1>1, <2>2, <2>3
<1>5. e = IF size <= L THEN [d EXCEPT !.chain = SubSeq(d.chain, 1, size)]
          ELSE [chain |-> d.chain \o more, cell |-> c]
  BY <1>1 DEF truncate
<1>6. size <= L + Len(F) /\ Len(F) \in Nat /\ F \in Seq(Cluster)
  BY FreeIs
<1>7. \A i \in 1 .. Len(F) : F[i] = First + L + i - 1 /\ F[i] \in Own
  BY FreeIs
<1> HIDE DEF P, L, q, e, F
<1>8. \A x \in 0 .. Count(d) - 1 : x \in Nat /\ x \div P < L /\ x \div P \in Nat
  <2>1. SUFFICES ASSUME NEW x \in 0 .. Count(d) - 1 PROVE x \in Nat /\ x \div P < L /\ x \div P \in Nat
    OBVIOUS
  <2>2. x \in Nat /\ x < P * L
    BY <1>1
  <2>3. QED
    BY <1>1, <2>2, DivLess, DivModIs
<1>9. CASE size <= L
  <2>1. e.chain = SubSeq(d.chain, 1, size) /\ e.cell = d.cell
    BY <1>3, <1>5, <1>9 DEF Record
  <2>2. /\ e.chain \in Seq(Cluster) /\ Len(e.chain) = size
        /\ \A i \in 1 .. size : e.chain[i] = d.chain[i] /\ i \in 1 .. L
    <3>1. 1 \in 1 .. L + 1 /\ size \in 0 .. L
      BY <1>1, <1>4, <1>9
    <3>2. QED
      BY <1>1, <1>3, <1>4, <1>9, <2>1, <3>1 DEF L
  <2>3. e \in Record
    BY <1>3, <1>5, <1>9, <2>1, <2>2 DEF Record
  <2>4. Laid(e)
    <3>1. Len(e.chain) > 0
      BY <1>4, <2>2
    <3>2. \A i \in 1 .. Len(e.chain) : e.chain[i] = First + i - 1 /\ e.chain[i] \in Own
      BY <1>2, <2>2
    <3>3. QED
      BY <2>3, <3>1, <3>2 DEF Laid
  <2>5. Count(e) = P * size
    BY <2>2, <2>4, CountIs DEF P
  <2>6. ASSUME NEW x \in 0 .. Count(d) - 1, x < Count(e)
        PROVE  entry(e, x) = entry(d, x)
    <3>1. x \in 0 .. Count(e) - 1
      BY <1>1, <2>4, <2>6, CountIs
    <3>2. QED
      BY <2>1, <2>4, <3>1, PlaceIs
  <2>7. P * size <= P * L
    BY <1>1, <1>4, <1>9, MulMono
  <2>8. \A x \in 0 .. Count(e) - 1 : ~(Count(d) <= x)
    <3> DEFINE y == P * size
               z == P * L
    <3>1. y \in Int /\ z \in Int /\ y <= z
      BY <1>1, <1>4, <2>7
    <3> HIDE DEF y, z
    <3>2. \A x \in 0 .. y - 1 : ~(z <= x)
      BY <3>1
    <3>3. QED
      BY <1>1, <2>5, <3>2 DEF y, z
  <2>9. KeepsOthers(d, e)
    BY <2>1 DEF KeepsOthers
  <2>10. QED
    BY <1>4, <2>4, <2>5, <2>6, <2>8, <2>9 DEF e
<1>10. CASE L < size
  <2>1. e.chain = d.chain \o more /\ e.cell = c /\ e = [chain |-> e.chain, cell |-> e.cell]
    <3>1. ~(size <= L)
      BY <1>1, <1>4, <1>10
    <3> HIDE DEF more, c
    <3>2. e = [chain |-> d.chain \o more, cell |-> c]
      BY <1>5, <3>1
    <3>3. QED
      BY <3>2
  <2>2. size - L \in Nat /\ size - L <= Len(F) /\ 1 <= size - L
    BY <1>1, <1>4, <1>6, <1>10
  <2>3. /\ more \in Seq(Cluster) /\ Len(more) = size - L /\ DOMAIN more = 1 .. size - L
        /\ \A i \in 1 .. size - L : more[i] = F[i] /\ i \in 1 .. Len(F)
    BY <1>6, <2>2
  <2>4. \A i \in 1 .. size - L : more[i] = First + L + i - 1 /\ more[i] \in Own
    BY <1>7, <2>3
  <2>5. ToSet(more) = {more[i] : i \in 1 .. size - L}
    BY <2>3 DEF ToSet
  <2> HIDE DEF more
  <2>6. /\ e.chain \in Seq(Cluster) /\ Len(e.chain) = size
        /\ \A i \in 1 .. size : e.chain[i] = IF i <= L THEN d.chain[i] ELSE more[i - L]
    <3>1. e.chain \in Seq(Cluster) /\ Len(e.chain) = L + (size - L)
      BY <1>3, <2>1, <2>3 DEF L
    <3>2. L + (size - L) = size
      BY <1>1, <1>4
    <3>3. \A i \in 1 .. size : e.chain[i] = IF i <= L THEN d.chain[i] ELSE more[i - L]
      <4>1. \A i \in 1 .. Len(d.chain) + Len(more) :
              (d.chain \o more)[i] = IF i <= Len(d.chain) THEN d.chain[i] ELSE more[i - Len(d.chain)]
        BY <1>3, <2>3, ConcatProperties
      <4>2. Len(d.chain) + Len(more) = size
        BY <2>3, <3>2 DEF L
      <4>3. QED
        BY <2>1, <4>1, <4>2 DEF L
    <3>4. QED
      BY <3>1, <3>2, <3>3
  <2>7. \A i \in 1 .. size : e.chain[i] = First + i - 1 /\ e.chain[i] \in Own
    <3>1. SUFFICES ASSUME NEW i \in 1 .. size
                   PROVE  e.chain[i] = First + i - 1 /\ e.chain[i] \in Own
      OBVIOUS
    <3>2. CASE i <= L
      <4>1. i \in 1 .. L /\ e.chain[i] = d.chain[i]
        BY <1>1, <2>6, <3>2
      <4>2. QED
        BY <1>2, <4>1
    <3>3. CASE ~(i <= L)
      <4>1. i - L \in 1 .. size - L /\ e.chain[i] = more[i - L]
        BY <1>1, <1>4, <2>6, <3>3
      <4>2. First + L + (i - L) - 1 = First + i - 1
        BY <1>1, <1>2
      <4>3. QED
        BY <2>4, <4>1, <4>2
    <3>4. QED
      BY <3>2, <3>3
  <2>8. \A p \in Pos : c[p] = IF p \div P \in ToSet(more) THEN Zeroed ELSE d.cell[p]
    OBVIOUS
  <2>9. c \in [Pos -> Cell]
    <3>1. Zeroed \in Cell
      BY Numbers DEF Zeroed, Cell
    <3>2. QED
      BY <1>3, <3>1
  <2> HIDE DEF c
  <2>10. e \in Record
    BY <2>1, <2>6, <2>9 DEF Record
  <2>11. Laid(e)
    BY <1>4, <2>6, <2>7, <2>10 DEF Laid
  <2>12. Count(e) = P * size /\ Count(e) \in Nat
    BY <2>6, <2>11, CountIs DEF P
  <2>13. KeepsOthers(d, e)
    <3>1. \A x \in ToSet(more) : x \notin Foreign
      BY <2>4, <2>5 DEF Own
    <3>2. QED
      BY <1>1, <2>1, <2>8, <3>1 DEF KeepsOthers, P
  <2>14. ASSUME NEW x \in 0 .. Count(d) - 1, x < Count(e)
         PROVE  entry(e, x) = entry(d, x)
    <3>1. x \in 0 .. Count(e) - 1
      BY <2>12, <2>14
    <3>2. Base + x \in Pos /\ (Base + x) \div P = First + x \div P /\ entry(d, x) = d.cell[Base + x]
      BY PlaceIs DEF P
    <3>3. entry(e, x) = c[Base + x]
      BY <2>1, <2>11, <3>1, PlaceIs
    <3>4. First + x \div P \notin ToSet(more)
      <4> DEFINE y == x \div P
      <4>1. y \in Nat /\ y < L
        BY <1>8
      <4> HIDE DEF y
      <4>2. \A i \in 1 .. size - L : First + y # First + L + i - 1
        BY <1>1, <1>2, <4>1
      <4>3. QED
        BY <2>4, <2>5, <4>2 DEF y
    <3>5. QED
      BY <2>8, <3>2, <3>3, <3>4
  <2>15. ASSUME NEW x \in 0 .. Count(e) - 1, Count(d) <= x
         PROVE  entry(e, x).mark = "end"
    <3>1. Base + x \in Pos /\ (Base + x) \div P = First + x \div P /\ entry(e, x) = c[Base + x]
      BY <2>1, <2>11, PlaceIs DEF P
    <3> DEFINE y == x \div P
    <3>2. x \in Nat /\ x < P * size /\ ~(x < P * L)
      <4> DEFINE u == P * size
                 v == P * L
      <4>1. u \in Nat /\ v \in Nat /\ Count(e) = u /\ Count(d) = v
        BY <1>1, <2>12
      <4> HIDE DEF u, v
      <4>2. x \in Nat /\ x < u /\ ~(x < v)
        BY <2>15, <4>1
      <4>3. QED
        BY <4>2 DEF u, v
    <3>3. y \in Nat /\ y < size /\ ~(y < L)
      BY <1>1, <1>4, <3>2, DivLess, DivModIs
    <3> HIDE DEF y
    <3>4. y - L + 1 \in 1 .. size - L /\ First + L + (y - L + 1) - 1 = First + y
      BY <1>1, <1>2, <1>4, <3>3
    <3>5. more[y - L + 1] = First + y
      BY <2>4, <3>4
    <3>6. First + y \in ToSet(more)
      BY <2>5, <3>4, <3>5
    <3>7. c[Base + x] = Zeroed
      BY <2>8, <3>1, <3>6 DEF y
    <3>8. QED
      BY <3>1, <3>7 DEF Zeroed
  <2>16. QED
    BY <1>4, <2>11, <2>12, <2>13, <2>14, <2>15 DEF e
<1>11. QED
  BY <1>1, <1>4, <1>9, <1>10

-----------------------------------------------------------------------------
(***************************************************************************)
(* A name made and a name deleted.                                         *)
(***************************************************************************)
\* crtFileInner finds a stretch of empty entries with nothing but entries in
\* front of it that are or were in use.
LEMMA StartIs ==
    ASSUME NEW d, Laid(d), Whole(d), NEW k \in Name
    PROVE  LET i == freeEntryStart(d, k)
           IN  /\ i \in Nat /\ Dots <= i /\ i <= Count(d)
               /\ \A n \in 0 .. Count(d) - 1 : n \in i .. i + Needed[k] - 1 => ~Used(d, n)
               /\ \A n \in 0 .. Count(d) - 1 : n < i => entry(d, n).mark # "end"
<1> DEFINE i == freeEntryStart(d, k)
           w == Needed[k]
           S == {x \in 0 .. Count(d) : \A j \in x .. x + w - 1 : j \notin UsedEntries(d)}
<1>1. Count(d) \in Nat /\ Dots \in Nat /\ Dots < Count(d) /\ w \in Nat /\ w >= 2
  BY CountIs, Numbers
<1>2. \A n : n \in UsedEntries(d) <=> n \in 0 .. Count(d) - 1 /\ Used(d, n)
  BY DEF UsedEntries
<1> HIDE DEF w
<1>3. Count(d) \in S
  <2>1. \A j \in Count(d) .. Count(d) + w - 1 : j \notin 0 .. Count(d) - 1
    BY <1>1
  <2>2. QED
    BY <1>1, <1>2, <2>1
<1>4. i = Least(S)
  BY DEF freeEntryStart, w
<1>5. S \in SUBSET Nat
  BY <1>1
<1>6. i \in S /\ \A x \in S : i <= x
  <2> HIDE DEF S, i
  <2>1. QED
    BY <1>3, <1>4, <1>5, LeastIs
<1> HIDE DEF i
<1>7. i \in 0 .. Count(d) /\ \A j \in i .. i + w - 1 : j \notin UsedEntries(d)
  BY <1>6
<1>8. Dots <= i
  <2>1. SUFFICES ASSUME i < Dots PROVE FALSE
    BY <1>1, <1>7
  <2>2. i \in 0 .. Dots - 1 /\ i \in 0 .. Count(d) - 1 /\ i \in i .. i + w - 1
    BY <1>1, <1>7, <2>1
  <2>3. Used(d, i)
    BY <2>2, MarksAre DEF Whole, DotsThere
  <2>4. QED
    BY <1>2, <1>7, <2>2, <2>3
<1>9. ASSUME NEW n \in 0 .. Count(d) - 1, n < i, entry(d, n).mark = "end"
      PROVE  FALSE
  <2>1. ASSUME NEW j \in n .. n + w - 1, j \in UsedEntries(d) PROVE FALSE
    <3>1. j \in 0 .. Count(d) - 1 /\ Used(d, j) /\ (n = j \/ n < j)
      BY <1>1, <1>2, <2>1
    <3>2. QED
      BY <1>9, <3>1, MarksAre DEF Whole, Ended
  <2>2. n \in S
    BY <1>1, <2>1
  <2>3. QED
    BY <1>6, <1>7, <1>9, <2>2
<1>10. \A n \in 0 .. Count(d) - 1 : n \in i .. i + w - 1 => ~Used(d, n)
  BY <1>2, <1>7
<1>11. QED
  BY <1>7, <1>8, <1>9, <1>10, <1>1 DEF i, w

\* Directory::crtFileInner makes the run of a new name and leaves the others
\* alone, whether it has to grow the directory or not.
LEMMA Created ==
    ASSUME Adjacent, NEW d, Laid(d), Whole(d), NEW k \in Name, \A x : ~ShortAt(d, k, x), Fits(d, k)
    PROVE  LET e == crtFileInner(d, k)
               i == freeEntryStart(d, k)
               l == i + Needed[k] - 1
           IN  /\ Laid(e) /\ Whole(e) /\ KeepsOthers(d, e)
               /\ IsRun(e, k, i, l) /\ entry(e, l).meta = NewMeta
               /\ \A h \in Name : h # k => Keeps(d, e, h)
               /\ \A h, s, t : IsRun(d, h, s, t) => IsRun(e, h, s, t)
<1> DEFINE i == freeEntryStart(d, k)
           w == Needed[k]
           l == i + w - 1
           room == IF l < Count(d) THEN d ELSE truncate(d, l + 1)
           run == {place(room, x) : x \in i .. l - 1}
           c == [p \in Pos |-> IF p \in run THEN Long(k)
                               ELSE IF p = place(room, l) THEN Short(k, NewMeta) ELSE room.cell[p]]
           e == crtFileInner(d, k)
<1>1. /\ Count(d) \in Nat /\ Dots \in Nat /\ w \in Nat /\ w >= 2
      /\ i \in Nat /\ Dots <= i /\ i <= Count(d)
      /\ \A n \in 0 .. Count(d) - 1 : n \in i .. l => ~Used(d, n)
      /\ \A n \in 0 .. Count(d) - 1 : n < i => entry(d, n).mark # "end"
  BY CountIs, Numbers, StartIs
<1>2. l \in Nat /\ i < l /\ l + 1 \in Nat \ {0} /\ l + 1 - 1 = Wanted(d, k) - 1
  BY <1>1 DEF Wanted
<1>3. (l + 1 - 1) \div PerCluster + 1 <= Len(d.chain) + Len(FreeClusters(d))
  BY <1>2 DEF Fits
<1>4. e = [room EXCEPT !.cell = [p \in DOMAIN room.cell |->
              IF p \in run THEN Long(k) ELSE IF p = place(room, l) THEN Short(k, NewMeta) ELSE room.cell[p]]]
  BY DEF crtFileInner
<1> HIDE DEF i, w, e
<1>5. /\ Laid(room) /\ Whole(room) /\ KeepsOthers(d, room) /\ l < Count(room)
      /\ \A h : Keeps(d, room, h)
      /\ \A h, s, t : IsRun(d, h, s, t) => IsRun(room, h, s, t)
      /\ \A n \in 0 .. Count(room) - 1 : n \in i .. l => ~Used(room, n)
      /\ \A n \in 0 .. Count(room) - 1 : n < i => entry(room, n).mark # "end"
  <2>1. CASE l < Count(d)
    BY <1>1, <2>1 DEF Keeps, Stays, KeepsOthers
  <2>2. CASE ~(l < Count(d))
    <3> DEFINE r == truncate(d, l + 1)
    <3>1. /\ Laid(r) /\ KeepsOthers(d, r) /\ l + 1 <= Count(r)
          /\ \A x \in 0 .. Count(d) - 1 : x < Count(r) => entry(r, x) = entry(d, x)
          /\ \A x \in 0 .. Count(r) - 1 : Count(d) <= x => entry(r, x).mark = "end"
      BY <1>2, <1>3, TruncateIs
    <3> HIDE DEF r
    <3>2. Count(r) \in Nat /\ l < Count(r)
      BY <1>2, <3>1, CountIs
    <3>3. \A x \in 0 .. Count(d) - 1 : x < Count(r)
      BY <1>1, <1>2, <2>2, <3>2
    <3>4. /\ Whole(r) /\ \A h : Keeps(d, r, h)
          /\ \A h, s, t : IsRun(d, h, s, t) => IsRun(r, h, s, t)
          /\ \A n \in 0 .. Count(r) - 1 : Used(r, n) => n < Count(d) /\ Used(d, n)
      <4>1. \A n \in 0 .. Count(d) - 1 : Count(r) <= n => ~Used(d, n)
        BY <3>2, <3>3
      <4>2. QED
        BY <3>1, <4>1, EndMoved
    <3>5. \A n \in 0 .. Count(r) - 1 : n \in i .. l => ~Used(r, n)
      <4>1. \A n \in 0 .. Count(r) - 1 : n < Count(d) => n \in 0 .. Count(d) - 1
        BY <1>1
      <4>2. QED
        BY <1>1, <3>4, <4>1
    <3>6. \A n \in 0 .. Count(r) - 1 : n < i => entry(r, n).mark # "end"
      <4>1. \A n \in 0 .. Count(r) - 1 : n < i => n \in 0 .. Count(d) - 1
        BY <1>1
      <4>2. QED
        BY <1>1, <3>1, <3>3, <4>1
    <3>7. room = r
      BY <2>2 DEF r
    <3>8. QED
      BY <3>1, <3>2, <3>4, <3>5, <3>6, <3>7
  <2>3. QED
    BY <2>1, <2>2
<1> HIDE DEF room
<1>6. Count(room) \in Nat /\ DOMAIN room.cell = Pos
  BY <1>5, CountIs
<1>7. room \in Record /\ room.cell \in [Pos -> Cell]
  BY <1>5 DEF Laid, Record
<1>8. e = [room EXCEPT !.cell = c]
  BY <1>4, <1>6
<1>9. \A x \in i .. l : x \in 0 .. Count(room) - 1 /\ place(room, x) = Base + x
                        /\ Base + x \in Pos /\ Base \in Nat /\ x \in Nat
  <2>1. \A x \in i .. l : x \in 0 .. Count(room) - 1 /\ x \in Nat
    BY <1>1, <1>2, <1>5, <1>6
  <2>2. QED
    BY <1>5, <2>1, PlaceIs
<1>10. l \in i .. l /\ Base \in Nat
  <2>1. l \in i .. l
    BY <1>1, <1>2
  <2>2. QED
    BY <1>9, <2>1
<1> HIDE DEF l
<1>11. \A x \in i .. l - 1 : x \in i .. l /\ x # l
  BY <1>1, <1>2
<1>12. run = {Base + x : x \in i .. l - 1}
  BY <1>9, <1>11
<1>13. \A x \in 0 .. Count(room) - 1 : Base + x \in run <=> x \in i .. l - 1
  <2>1. \A x \in 0 .. Count(room) - 1, y \in i .. l - 1 : Base + x = Base + y => x = y
    BY <1>1, <1>2, <1>6, <1>10
  <2>2. QED
    BY <1>12, <2>1
<1>14. \A p \in run : p \in Base .. Base + Count(room) - 1
  <2>1. \A x \in i .. l - 1 : Base + x \in Base .. Base + Count(room) - 1
    BY <1>1, <1>2, <1>5, <1>6, <1>10
  <2>2. QED
    BY <1>12, <2>1
<1>15. place(room, l) = Base + l /\ Base + l \in Base .. Base + Count(room) - 1 /\ Base + l \in Pos
  BY <1>2, <1>5, <1>6, <1>9, <1>10
<1> HIDE DEF run
<1>16. \A p \in Pos : c[p] = IF p \in run THEN Long(k)
                             ELSE IF p = Base + l THEN Short(k, NewMeta) ELSE room.cell[p]
  BY <1>15
<1>17. c \in [Pos -> Cell]
  <2>1. Long(k) \in Cell /\ Short(k, NewMeta) \in Cell
    BY Numbers DEF Long, Short, Cell
  <2>2. QED
    BY <1>7, <2>1
<1> HIDE DEF c
<1>18. e \in Record /\ e.chain = room.chain /\ e.cell = c
  BY <1>7, <1>8, <1>17 DEF Record
<1>19. /\ Laid(e) /\ Count(e) = Count(room) /\ KeepsOthers(room, e)
       /\ \A n \in 0 .. Count(room) - 1 : entry(e, n) = c[Base + n]
  <2>1. \A p \in Pos : p \notin Base .. Base + Count(room) - 1 => e.cell[p] = room.cell[p]
    BY <1>14, <1>15, <1>16, <1>18
  <2>2. QED
    BY <1>5, <1>18, <2>1, CellsSet
<1>20. \A n \in i .. l - 1 : entry(e, n) = Long(k)
  BY <1>9, <1>11, <1>13, <1>16, <1>19
<1>21. entry(e, l) = Short(k, NewMeta)
  <2>1. Base + l \notin run
    BY <1>9, <1>10, <1>11, <1>13
  <2>2. QED
    BY <1>9, <1>10, <1>16, <1>19, <2>1
<1>22. ASSUME NEW n \in 0 .. Count(room) - 1, n \notin i .. l
       PROVE  entry(e, n) = entry(room, n)
  <2>1. Base + n \in Pos /\ entry(room, n) = room.cell[Base + n]
    BY <1>5, PlaceIs
  <2>2. Base + n # Base + l
    BY <1>6, <1>10, <1>22
  <2>3. Base + n \notin run
    BY <1>11, <1>13, <1>22
  <2>4. QED
    BY <1>16, <1>19, <2>1, <2>2, <2>3
<1>23. /\ Whole(e) /\ IsRun(e, k, i, l)
       /\ \A h, x : ShortAt(e, h, x) <=> ShortAt(room, h, x) \/ (h = k /\ x = l)
       /\ \A h, s, t : IsRun(room, h, s, t) => IsRun(e, h, s, t)
  <2>1. \A x : ~ShortAt(room, k, x)
    BY <1>5 DEF Keeps, Stays
  <2>2. i \in Dots .. Count(room) - 1 /\ l \in 0 .. Count(room) - 1
    BY <1>1, <1>2, <1>5, <1>6
  <2>3. l = i + Needed[k] - 1
    BY DEF l, w
  <2>4. \A n \in i .. l : ~Used(room, n)
    BY <1>5, <1>9
  <2>5. QED
    BY <1>5, <1>19, <1>20, <1>21, <1>22, <2>1, <2>2, <2>3, <2>4, RunWritten
<1>24. ASSUME NEW h \in Name, h # k
       PROVE  Keeps(d, e, h)
  <2>1. ASSUME NEW x, ShortAt(room, h, x)
        PROVE  x \in 0 .. Count(room) - 1 /\ x \notin i .. l
    BY <1>1, <1>5, <1>6, <2>1, MarksAre DEF ShortAt
  <2>2. Keeps(room, e, h)
    BY <1>22, <1>23, <1>24, <2>1 DEF Keeps, Stays
  <2>3. QED
    BY <1>5, <2>2, KeepsTrans
<1>25. KeepsOthers(d, e)
  BY <1>5, <1>19, KeepsTrans
<1>26. entry(e, l).meta = NewMeta
  BY <1>21 DEF Short
<1>27. QED
  BY <1>5, <1>19, <1>23, <1>24, <1>25, <1>26 DEF e, l, i, w

\* Directory::isLstNonEmptyEntry: the scan stops at an end mark, behind which
\* there is nothing.
LEMMA LastIs ==
    ASSUME NEW d, Laid(d), Ended(d), NEW n \in Int, -1 <= n
    PROVE  isLstNonEmptyEntry(d, n) <=> \A x \in 0 .. Count(d) - 1 : n < x => ~Used(d, x)
<1>1. Count(d) \in Nat
  BY CountIs
<1>2. \A x \in n + 1 .. Count(d) - 1 : x \in 0 .. Count(d) - 1 /\ n < x
  BY <1>1
<1>3. \A x \in 0 .. Count(d) - 1 : n < x => x \in n + 1 .. Count(d) - 1
  BY <1>1
<1>4. ASSUME NEW x \in 0 .. Count(d) - 1, n < x, Used(d, x), isLstNonEmptyEntry(d, n)
      PROVE  FALSE
  <2>1. PICK j \in n + 1 .. x - 1 : entry(d, j).mark = "end"
    BY <1>3, <1>4 DEF isLstNonEmptyEntry
  <2>2. j \in 0 .. Count(d) - 1 /\ j < x
    BY <1>1, <2>1
  <2>3. QED
    BY <1>4, <2>1, <2>2 DEF Ended
<1>5. QED
  BY <1>2, <1>4 DEF isLstNonEmptyEntry

\* Directory::delFile erases the run of a name, and cuts off what is behind
\* when nothing is in use there.
LEMMA Deleted ==
    ASSUME Adjacent, NEW d, Laid(d), Whole(d), NEW k \in Name, NEW s, NEW l, IsRun(d, k, s, l)
    PROVE  LET e == delFile(d, k)
           IN  /\ Laid(e) /\ Whole(e) /\ KeepsOthers(d, e)
               /\ \A x : ~ShortAt(e, k, x)
               /\ \A h \in Name : h # k => Keeps(d, e, h)
               /\ s \in 0 .. Count(e) - 1 /\ ~Used(e, s) /\ ~entry(e, s).long
<1> DEFINE run == {place(d, x) : x \in s .. l}
           erased == [d EXCEPT !.cell = [p \in DOMAIN d.cell |-> IF p \in run THEN Erased ELSE d.cell[p]]]
           marked == [erased EXCEPT !.cell[place(d, l)] = Zeroed]
           e == delFile(d, k)
<1>1. /\ s \in Nat /\ l \in Nat /\ Dots <= s /\ s <= l /\ l < Count(d) /\ Count(d) \in Nat /\ Dots \in Nat
      /\ s \in 0 .. Count(d) - 1 /\ l \in 0 .. Count(d) - 1 /\ l \in s .. l /\ s \in s .. l
  BY RunIs, CountIs, Numbers
<1>2. e = IF isLstNonEmptyEntry(erased, l) THEN truncate(marked, s + 1) ELSE erased
  <2>1. lookupFileInner(d, k) = [start |-> s, last |-> l]
    BY FoundIs
  <2>2. QED
    BY <2>1 DEF delFile
<1> HIDE DEF e
<1>3. d \in Record /\ d.cell \in [Pos -> Cell] /\ DOMAIN d.cell = Pos
  BY DEF Laid, Record
<1>4. \A x \in s .. l : x \in 0 .. Count(d) - 1 /\ place(d, x) = Base + x /\ Base + x \in Pos /\ Base \in Nat
  <2>1. \A x \in s .. l : x \in 0 .. Count(d) - 1
    BY <1>1
  <2>2. QED
    BY <2>1, PlaceIs
<1>5. run = {Base + x : x \in s .. l} /\ Base \in Nat
  BY <1>1, <1>4
<1>6. \A x \in 0 .. Count(d) - 1 : Base + x \in run <=> x \in s .. l
  <2>1. \A x \in 0 .. Count(d) - 1, y \in s .. l : Base + x = Base + y => x = y
    BY <1>1, <1>5
  <2>2. QED
    BY <1>5, <2>1
<1>7. \A p \in run : p \in Base .. Base + Count(d) - 1
  <2>1. \A x \in s .. l : Base + x \in Base .. Base + Count(d) - 1
    BY <1>1, <1>5
  <2>2. QED
    BY <1>5, <2>1
<1> HIDE DEF run
<1>8. Erased \in Cell /\ Zeroed \in Cell
  BY Numbers DEF Erased, Zeroed, Cell
<1>9. \A x \in 0 .. Count(d) - 1 : Base + x \in Pos /\ entry(d, x) = d.cell[Base + x]
  BY PlaceIs
<1>10. /\ Laid(erased) /\ Count(erased) = Count(d) /\ KeepsOthers(d, erased)
       /\ \A x \in s .. l : entry(erased, x) = Erased
       /\ \A x \in 0 .. Count(d) - 1 : x \notin s .. l => entry(erased, x) = entry(d, x)
       /\ erased \in Record /\ erased.chain = d.chain
       /\ \A x \in 0 .. Count(d) - 1 : entry(erased, x) = erased.cell[Base + x]
  <2> DEFINE c == [p \in Pos |-> IF p \in run THEN Erased ELSE d.cell[p]]
  <2>1. erased = [d EXCEPT !.cell = c]
    BY <1>3
  <2>2. c \in [Pos -> Cell]
    BY <1>3, <1>8
  <2>3. \A p \in Pos : c[p] = IF p \in run THEN Erased ELSE d.cell[p]
    OBVIOUS
  <2> HIDE DEF c, erased
  <2>4. erased \in Record /\ erased.chain = d.chain /\ erased.cell = c
    BY <1>3, <2>1, <2>2 DEF Record
  <2>5. /\ Laid(erased) /\ Count(erased) = Count(d) /\ KeepsOthers(d, erased)
        /\ \A x \in 0 .. Count(d) - 1 : entry(erased, x) = c[Base + x]
    BY <1>7, <2>3, <2>4, CellsSet
  <2>6. \A x \in s .. l : entry(erased, x) = Erased
    BY <1>4, <1>6, <2>3, <2>5
  <2>7. \A x \in 0 .. Count(d) - 1 : x \notin s .. l => entry(erased, x) = entry(d, x)
    BY <1>6, <1>9, <2>3, <2>5
  <2>8. QED
    BY <2>4, <2>5, <2>6, <2>7
<1>11. marked = [erased EXCEPT !.cell = [erased.cell EXCEPT ![Base + l] = Zeroed]]
  BY <1>1, <1>4, <1>10
<1> HIDE DEF erased, marked
<1>12. /\ Laid(marked) /\ Count(marked) = Count(d) /\ KeepsOthers(d, marked)
       /\ \A x \in s .. l - 1 : entry(marked, x) = Erased
       /\ entry(marked, l) = Zeroed
       /\ \A x \in 0 .. Count(d) - 1 : x \notin s .. l => entry(marked, x) = entry(d, x)
       /\ marked.chain = d.chain
  <2> DEFINE c == [erased.cell EXCEPT ![Base + l] = Zeroed]
  <2>1. erased \in Record /\ erased.cell \in [Pos -> Cell] /\ DOMAIN erased.cell = Pos
    BY <1>10 DEF Record
  <2>2. Base + l \in Pos
    BY <1>1, <1>4
  <2>3. c \in [Pos -> Cell] /\ c[Base + l] = Zeroed /\ \A p \in Pos : p # Base + l => c[p] = erased.cell[p]
    BY <1>8, <2>1, <2>2
  <2>4. marked = [erased EXCEPT !.cell = c]
    BY <1>11
  <2> HIDE DEF c
  <2>5. marked \in Record /\ marked.chain = d.chain /\ marked.cell = c
    BY <1>10, <2>1, <2>3, <2>4 DEF Record
  <2>6. Base + l \in Base .. Base + Count(d) - 1
    BY <1>1, <1>5
  <2>7. /\ Laid(marked) /\ Count(marked) = Count(d) /\ KeepsOthers(erased, marked)
        /\ \A x \in 0 .. Count(d) - 1 : entry(marked, x) = c[Base + x]
    <3>1. marked.chain = erased.chain
      BY <1>10, <2>5
    <3>2. \A p \in Pos : p \notin Base .. Base + Count(erased) - 1 => marked.cell[p] = erased.cell[p]
      BY <1>10, <2>3, <2>5, <2>6
    <3>3. /\ Laid(marked) /\ Count(marked) = Count(erased) /\ KeepsOthers(erased, marked)
          /\ \A x \in 0 .. Count(erased) - 1 : entry(marked, x) = marked.cell[Base + x]
      BY <1>10, <2>5, <3>1, <3>2, CellsSet
    <3>4. QED
      BY <1>10, <2>5, <3>3
  <2>8. KeepsOthers(d, marked)
    BY <1>10, <2>7, KeepsTrans
  <2>9. \A x \in 0 .. Count(d) - 1 : x # l => entry(marked, x) = entry(erased, x)
    <3>1. \A x \in 0 .. Count(d) - 1 : x # l => Base + x # Base + l
      BY <1>1, <1>5
    <3>2. QED
      BY <1>9, <1>10, <2>3, <2>7, <3>1
  <2>10. \A x \in s .. l - 1 : x \in s .. l /\ x \in 0 .. Count(d) - 1 /\ x # l
    BY <1>1
  <2>11. entry(marked, l) = Zeroed
    BY <1>1, <2>3, <2>7
  <2>12. QED
    BY <1>1, <1>10, <2>5, <2>7, <2>8, <2>9, <2>10, <2>11
<1> DEFINE G == s .. l
<1>13. G \in SUBSET (Dots .. Count(d) - 1)
  BY <1>1
<1>14. \A h, t, x : IsRun(d, h, t, x) => t .. x \subseteq G \/ t .. x \cap G = {}
  BY RunsApart
<1>15. \A h, x : ShortAt(d, h, x) => x \in 0 .. Count(d) - 1 /\ entry(d, x).name = h
  BY <1>1 DEF ShortAt
<1>16. \A x \in G : entry(d, x).name = k
  BY RunIs
<1>17. \A x : ShortAt(d, k, x) => x \in G
  <2>1. \A x : ShortAt(d, k, x) => x = l
    BY RunIs, ShortOnce
  <2>2. QED
    BY <1>1, <2>1
<1>18. \A x \in G : x = l \/ x \in s .. l - 1
  BY <1>1
<1>19. l \in G /\ s \in G
  BY <1>1
<1>20. \A x \in 0 .. Count(d) - 1 : l < x => x \notin G
  BY <1>1
<1>21. \A x \in 0 .. Count(d) - 1 : x \in G \/ x < s \/ l < x
  BY <1>1
<1> HIDE DEF G
<1>22. \A f : /\ \A x \in 0 .. Count(d) - 1 : x \notin G => entry(f, x) = entry(d, x)
              /\ \A h, x : ShortAt(f, h, x) <=> ShortAt(d, h, x) /\ x \notin G
              => /\ \A x : ~ShortAt(f, k, x)
                 /\ \A h \in Name : h # k => Keeps(d, f, h)
  BY <1>15, <1>16, <1>17 DEF Keeps, Stays
<1>23. /\ \A x \in 0 .. Count(d) - 1 : x \notin G => entry(erased, x) = entry(d, x)
       /\ \A x \in G : entry(erased, x) = Erased
  BY <1>10 DEF G
<1>24. /\ Whole(erased)
       /\ \A h, x : ShortAt(erased, h, x) <=> ShortAt(d, h, x) /\ x \notin G
  <2>1. \A x \in G : ~Used(erased, x) /\ entry(erased, x).mark # "end"
    BY <1>23 DEF Used, isEmptyDirEntry, Erased, Zeroed
  <2>2. QED
    BY <1>10, <1>13, <1>14, <1>23, <2>1, RunsErased
<1>25. CASE ~isLstNonEmptyEntry(erased, l)
  <2>1. e = erased
    BY <1>2, <1>25
  <2>2. ~Used(erased, s) /\ ~entry(erased, s).long
    BY <1>19, <1>23 DEF Used, isEmptyDirEntry, Erased, Zeroed
  <2>3. QED
    BY <1>1, <1>10, <1>22, <1>23, <1>24, <2>1, <2>2 DEF e
<1>26. CASE isLstNonEmptyEntry(erased, l)
  <2>1. e = truncate(marked, s + 1)
    BY <1>2, <1>26
  <2>2. \A x \in 0 .. Count(d) - 1 : l < x => ~Used(erased, x)
    BY <1>1, <1>10, <1>24, <1>26, LastIs DEF Whole
  <2>3. \A x \in 0 .. Count(d) - 1 : x \notin G => entry(marked, x) = entry(d, x)
    BY <1>12 DEF G
  <2>4. \A x \in G : entry(marked, x) \in {Erased, Zeroed} /\ (x # l => entry(marked, x) = Erased)
    BY <1>12, <1>18
  <2>5. \A x \in G : ~Used(marked, x)
    BY <2>4 DEF Used, isEmptyDirEntry, Erased, Zeroed
  <2>6. \A x \in 0 .. Count(d) - 1 : l < x => ~Used(marked, x)
    <3>1. \A x \in 0 .. Count(d) - 1 : l < x => entry(marked, x) = entry(erased, x)
      BY <1>20, <1>23, <2>3
    <3>2. QED
      BY <2>2, <3>1, SameEntry
  <2>7. \A x \in G : entry(marked, x).mark = "end" =>
            \A y \in 0 .. Count(d) - 1 : x < y => ~Used(marked, y)
    <3>1. \A x \in G : entry(marked, x).mark = "end" => x = l
      BY <2>4 DEF Erased, Zeroed
    <3>2. QED
      BY <2>6, <3>1
  <2>8. /\ Whole(marked)
        /\ \A h, x : ShortAt(marked, h, x) <=> ShortAt(d, h, x) /\ x \notin G
    BY <1>12, <1>13, <1>14, <2>3, <2>5, <2>7, RunsErased
  <2>9. /\ \A x : ~ShortAt(marked, k, x)
        /\ \A h \in Name : h # k => Keeps(d, marked, h)
    BY <1>22, <2>3, <2>8
  <2>10. s \div PerCluster + 1 <= Len(marked.chain) + Len(FreeClusters(marked))
    <3>1. s \div PerCluster < Len(d.chain) /\ s \div PerCluster \in Nat
      <4>1. Count(d) = PerCluster * Len(d.chain) /\ Len(d.chain) \in Nat
        BY CountIs
      <4>2. s < PerCluster * Len(d.chain)
        BY <1>1, <4>1
      <4>3. QED
        BY <1>1, <4>1, <4>2, Numbers, DivLess, DivModIs
    <3>2. Len(FreeClusters(marked)) \in Nat /\ Len(d.chain) \in Nat
      BY <1>12, FreeIs, CountIs
    <3>3. QED
      BY <1>12, <3>1, <3>2
  <2>11. s + 1 \in Nat \ {0}
    BY <1>1
  <2>12. /\ Laid(e) /\ KeepsOthers(marked, e) /\ s + 1 <= Count(e)
         /\ \A x \in 0 .. Count(d) - 1 : x < Count(e) => entry(e, x) = entry(marked, x)
         /\ \A x \in 0 .. Count(e) - 1 : Count(d) <= x => entry(e, x).mark = "end"
    <3> DEFINE n == s + 1
    <3>1. n \in Nat \ {0} /\ (n - 1) \div PerCluster + 1 <= Len(marked.chain) + Len(FreeClusters(marked))
      <4>1. n - 1 = s /\ n \in Nat \ {0}
        BY <1>1
      <4> HIDE DEF n
      <4>2. QED
        BY <2>10, <4>1
    <3>2. e = truncate(marked, n) /\ Laid(marked)
      BY <1>12, <2>1
    <3> HIDE DEF n
    <3>3. /\ Laid(e) /\ KeepsOthers(marked, e) /\ n <= Count(e)
          /\ \A x \in 0 .. Count(marked) - 1 : x < Count(e) => entry(e, x) = entry(marked, x)
          /\ \A x \in 0 .. Count(e) - 1 : Count(marked) <= x => entry(e, x).mark = "end"
      BY <3>1, <3>2, TruncateIs
    <3>4. QED
      BY <1>12, <3>3 DEF n
  <2>13. Count(e) \in Nat /\ s < Count(e) /\ s \in 0 .. Count(e) - 1
    BY <1>1, <2>12, CountIs
  <2>14. \A x \in 0 .. Count(d) - 1 : Count(e) <= x => ~Used(marked, x)
    <3>1. \A x \in 0 .. Count(d) - 1 : Count(e) <= x => x \in G \/ l < x
      BY <1>1, <1>21, <2>13
    <3>2. QED
      BY <2>5, <2>6, <3>1
  <2>15. Whole(e) /\ \A h : Keeps(marked, e, h)
    BY <1>12, <2>8, <2>12, <2>14, EndMoved
  <2>16. \A x : ~ShortAt(e, k, x)
    BY <2>9, <2>15 DEF Keeps, Stays
  <2>17. \A h \in Name : h # k => Keeps(d, e, h)
    BY <2>9, <2>15, KeepsTrans
  <2>18. KeepsOthers(d, e)
    BY <1>12, <2>12, KeepsTrans
  <2>19. ~Used(e, s) /\ ~entry(e, s).long
    <3>1. entry(e, s) = entry(marked, s)
      BY <1>1, <2>12, <2>13
    <3>2. QED
      BY <1>19, <2>4, <3>1 DEF Used, isEmptyDirEntry, Erased, Zeroed
  <2>20. QED
    BY <2>12, <2>13, <2>15, <2>16, <2>17, <2>18, <2>19 DEF e
<1>27. QED
  BY <1>25, <1>26

-----------------------------------------------------------------------------
(***************************************************************************)
(* The calls, and what they do to the names.                               *)
(***************************************************************************)
Sound(d) == Laid(d) /\ Whole(d)

\* A call leads from d to e: names other than those of S keep their place and
\* their metadata.
Leads(d, e, S) == Sound(e) /\ KeepsOthers(d, e) /\ \A h \in Name \ S : Keeps(d, e, h)

\* Name k stands in e for a file with metadata m.
Stands(e, k, m) == \E l : ShortAt(e, k, l) /\ entry(e, l).meta = m

\* A name that is there has a run, and lookupFileInner finds it.
LEMMA LiveRun ==
    ASSUME NEW d, Sound(d), NEW k \in Live(d)
    PROVE  /\ k \in Name
           /\ \E s, l : IsRun(d, k, s, l) /\ lookupFileInner(d, k) = [start |-> s, last |-> l]
<1>1. Laid(d) /\ Whole(d)
  BY DEF Sound
<1>2. k \in Name /\ \E l : ShortAt(d, k, l)
  BY <1>1, TableIs
<1>3. PICK s, l : IsRun(d, k, s, l)
  BY <1>1, <1>2, RunOf
<1>4. QED
  BY <1>1, <1>2, <1>3, FoundIs

\* A name that is not there has no short entry.
LEMMA NotLive ==
    ASSUME NEW d, Sound(d), NEW k \in Name, k \notin Live(d)
    PROVE  \A l : ~ShortAt(d, k, l)
BY TableIs DEF Sound

\* The metadata of a name is metadata.
LEMMA MetaIs ==
    ASSUME Adjacent, NEW d, Sound(d), NEW k, NEW l, ShortAt(d, k, l)
    PROVE  entry(d, l).meta \in Meta
<1>1. Laid(d) /\ l \in 0 .. Count(d) - 1
  BY CountIs, Numbers DEF Sound, ShortAt
<1>2. QED
  BY <1>1, PlaceIs DEF Cell

\* What the table of names becomes.
LEMMA TableSame ==
    ASSUME NEW d, NEW e, Sound(d), Leads(d, e, {})
    PROVE  Table(e) = Table(d)
<1>1. /\ Laid(d) /\ Whole(d) /\ Laid(e) /\ Whole(e)
      /\ \A h \in Name : Keeps(d, e, h)
  BY DEF Sound, Leads
<1>2. Live(e) = Live(d)
  BY <1>1, TableIs DEF Keeps, Stays
<1>3. \A k \in Live(d) : Table(e)[k] = Table(d)[k]
  BY <1>1, TableIs DEF Keeps, Stays
<1>4. QED
  BY <1>1, <1>2, <1>3, TableIs

\* Name n gets metadata m.
Assigned(d, e, n, m) ==
    Table(e) = [k \in Live(d) \cup {n} |-> IF k = n THEN m ELSE Table(d)[k]]

\* A call that makes one name stand with a metadata is an assignment to the table.
LEMMA TableSet ==
    ASSUME NEW d, NEW e, Sound(d), NEW n \in Name, NEW m, Leads(d, e, {n}), Stands(e, n, m)
    PROVE  Assigned(d, e, n, m)
<1>1. /\ Laid(d) /\ Whole(d) /\ Laid(e) /\ Whole(e)
      /\ \A h \in Name : h # n => Keeps(d, e, h)
  BY DEF Sound, Leads
<1>2. Live(e) = Live(d) \cup {n}
  BY <1>1, TableIs DEF Keeps, Stays, Stands
<1>3. \A k \in Live(e) : Table(e)[k] = IF k = n THEN m ELSE Table(d)[k]
  BY <1>1, TableIs DEF Keeps, Stays, Stands
<1>4. QED
  BY <1>1, <1>2, <1>3, TableIs DEF Assigned

\* A call that leaves no short entry of a name removes it from the table.
LEMMA TableDrop ==
    ASSUME NEW d, NEW e, Sound(d), NEW n \in Name, Leads(d, e, {n}), \A l : ~ShortAt(e, n, l)
    PROVE  Table(e) = [k \in Live(d) \ {n} |-> Table(d)[k]]
<1>1. /\ Laid(d) /\ Whole(d) /\ Laid(e) /\ Whole(e)
      /\ \A h \in Name : h # n => Keeps(d, e, h)
  BY DEF Sound, Leads
<1>2. Live(e) = Live(d) \ {n}
  BY <1>1, TableIs DEF Keeps, Stays
<1>3. \A k \in Live(e) : Table(e)[k] = Table(d)[k]
  BY <1>1, <1>2, TableIs DEF Keeps, Stays
<1>4. QED
  BY <1>1, <1>2, <1>3, TableIs

\* A call that does both to two names moves one to the other.
LEMMA TableMove ==
    ASSUME NEW d, NEW e, Sound(d), NEW n \in Name, NEW to \in Name, n # to, NEW m,
           Leads(d, e, {n, to}), \A l : ~ShortAt(e, n, l), Stands(e, to, m)
    PROVE  Table(e) = [k \in (Live(d) \cup {to}) \ {n} |-> IF k = to THEN m ELSE Table(d)[k]]
<1>1. /\ Laid(d) /\ Whole(d) /\ Laid(e) /\ Whole(e)
      /\ \A h \in Name : h # n /\ h # to => Keeps(d, e, h)
  BY DEF Sound, Leads
<1>2. Live(e) = (Live(d) \cup {to}) \ {n}
  BY <1>1, TableIs DEF Keeps, Stays, Stands
<1>3. \A k \in Live(e) : Table(e)[k] = IF k = to THEN m ELSE Table(d)[k]
  BY <1>1, <1>2, TableIs DEF Keeps, Stays, Stands
<1>4. QED
  BY <1>1, <1>2, <1>3, TableIs

\* create, mkdir, and the arriving end of a move.
LEMMA CreateStep ==
    ASSUME Adjacent, Sound(dir), NEW n \in Name \ Live(dir), NEW m \in Meta, Create(n, m)
    PROVE  Leads(dir, dir', {n}) /\ Stands(dir', n, m)
<1> DEFINE made == crtFileInner(dir, n)
           i == freeEntryStart(dir, n)
           l == i + Needed[n] - 1
<1>1. Fits(dir, n) /\ dir' = IF m = NewMeta THEN made ELSE sync(made, i, m)
  BY DEF Create, Step
<1>2. Laid(dir) /\ Whole(dir) /\ \A x : ~ShortAt(dir, n, x)
  BY NotLive DEF Sound
<1>3. /\ Laid(made) /\ Whole(made) /\ KeepsOthers(dir, made)
      /\ IsRun(made, n, i, l) /\ entry(made, l).meta = NewMeta
      /\ \A h \in Name : h # n => Keeps(dir, made, h)
  BY <1>1, <1>2, Created
<1> HIDE DEF made, i, l
<1>4. ShortAt(made, n, l)
  BY <1>3 DEF IsRun
<1>5. CASE m = NewMeta
  BY <1>1, <1>3, <1>4, <1>5 DEF Leads, Sound, Stands
<1>6. CASE m # NewMeta
  <2> DEFINE e == sync(made, i, m)
  <2>1. /\ Laid(e) /\ Whole(e) /\ KeepsOthers(made, e)
        /\ \A h : Stays(made, e, h)
        /\ \A h \in Name : h # n => Keeps(made, e, h)
        /\ entry(e, l).meta = m
    BY <1>3, RunSynced
  <2>2. dir' = e
    BY <1>1, <1>6
  <2> HIDE DEF e
  <2>3. KeepsOthers(dir, e) /\ \A h \in Name : h # n => Keeps(dir, e, h)
    BY <1>2, <1>3, <2>1, KeepsTrans
  <2>4. ShortAt(e, n, l)
    BY <1>4, <2>1 DEF Stays
  <2>5. QED
    BY <2>1, <2>2, <2>3, <2>4 DEF Leads, Sound, Stands
<1>7. QED
  BY <1>5, <1>6

\* mkdir that takes its name back: nothing has changed.
LEMMA MkdirUndoneStep ==
    ASSUME Adjacent, Sound(dir), NEW n \in Name \ Live(dir), MkdirUndone(n)
    PROVE  Leads(dir, dir', {})
<1> DEFINE made == crtFileInner(dir, n)
           i == freeEntryStart(dir, n)
           l == i + Needed[n] - 1
           gone == delFile(made, n)
           e == sync(gone, i, NewMeta)
<1>1. Fits(dir, n) /\ dir' = e
  BY DEF MkdirUndone, Step
<1>2. Laid(dir) /\ Whole(dir) /\ \A x : ~ShortAt(dir, n, x)
  BY NotLive DEF Sound
<1>3. /\ Laid(made) /\ Whole(made) /\ KeepsOthers(dir, made)
      /\ IsRun(made, n, i, l)
      /\ \A h \in Name : h # n => Keeps(dir, made, h)
  BY <1>1, <1>2, Created
<1> HIDE DEF made, i, l
<1>4. /\ Laid(gone) /\ Whole(gone) /\ KeepsOthers(made, gone)
      /\ \A x : ~ShortAt(gone, n, x)
      /\ \A h \in Name : h # n => Keeps(made, gone, h)
      /\ i \in 0 .. Count(gone) - 1 /\ ~Used(gone, i) /\ ~entry(gone, i).long
  BY <1>3, Deleted
<1> HIDE DEF gone
<1>5. Laid(e) /\ Whole(e) /\ KeepsOthers(gone, e) /\ \A k : Keeps(gone, e, k)
  BY <1>4, Numbers, DeadTouched
<1> HIDE DEF e
<1>6. KeepsOthers(dir, made) /\ KeepsOthers(dir, gone) /\ KeepsOthers(dir, e)
  BY <1>2, <1>3, <1>4, <1>5, KeepsTrans
<1>7. \A h \in Name : h # n => Keeps(dir, e, h)
  BY <1>3, <1>4, <1>5, KeepsTrans
<1>8. Keeps(dir, e, n)
  BY <1>2, <1>4, <1>5 DEF Keeps, Stays
<1>9. QED
  BY <1>1, <1>5, <1>6, <1>7, <1>8 DEF Leads, Sound

\* unlink and rmdir, and the leaving end of a move.
LEMMA UnlinkStep ==
    ASSUME Adjacent, Sound(dir), NEW n \in Live(dir), Unlink(n) \/ MoveOut(n)
    PROVE  n \in Name /\ Leads(dir, dir', {n}) /\ \A x : ~ShortAt(dir', n, x)
<1>1. PICK s, l : IsRun(dir, n, s, l) /\ lookupFileInner(dir, n) = [start |-> s, last |-> l]
  BY LiveRun
<1>2. n \in Name /\ Laid(dir) /\ Whole(dir)
  BY LiveRun DEF Sound
<1>3. CASE Unlink(n)
  <2> DEFINE gone == delFile(dir, n)
             e == selfDestruct(gone, s)
  <2>1. dir' = e
    BY <1>1, <1>3 DEF Unlink, Step
  <2>2. /\ Laid(gone) /\ Whole(gone) /\ KeepsOthers(dir, gone)
        /\ \A x : ~ShortAt(gone, n, x)
        /\ \A h \in Name : h # n => Keeps(dir, gone, h)
        /\ s \in 0 .. Count(gone) - 1 /\ ~Used(gone, s) /\ ~entry(gone, s).long
    BY <1>1, <1>2, Deleted
  <2> HIDE DEF gone
  <2>3. Laid(e) /\ Whole(e) /\ KeepsOthers(gone, e) /\ \A k : Keeps(gone, e, k)
    BY <2>2, DeadTouched
  <2> HIDE DEF e
  <2>4. KeepsOthers(dir, e) /\ \A h \in Name : h # n => Keeps(dir, e, h)
    BY <1>2, <2>2, <2>3, KeepsTrans
  <2>5. \A x : ~ShortAt(e, n, x)
    BY <2>2, <2>3 DEF Keeps, Stays
  <2>6. QED
    BY <1>2, <2>1, <2>3, <2>4, <2>5 DEF Leads, Sound
<1>4. CASE MoveOut(n)
  <2> DEFINE e == selfDestruct(dir, s)
  <2>1. dir' = e
    BY <1>1, <1>4 DEF MoveOut, Step
  <2>2. /\ Laid(e) /\ Whole(e) /\ KeepsOthers(dir, e)
        /\ \A x : ~ShortAt(e, n, x)
        /\ \A h \in Name : h # n => Keeps(dir, e, h)
    BY <1>1, <1>2, RunDestroyed
  <2> HIDE DEF e
  <2>3. QED
    BY <1>2, <2>1, <2>2 DEF Leads, Sound
<1>5. QED
  BY <1>3, <1>4

\* The object of a name writes back.
LEMMA WriteBackStep ==
    ASSUME Adjacent, Sound(dir), NEW n \in Live(dir), NEW m \in Meta, WriteBack(n, m)
    PROVE  n \in Name /\ Leads(dir, dir', {n}) /\ Stands(dir', n, m) /\ Stays(dir, dir', n)
<1>1. PICK s, l : IsRun(dir, n, s, l) /\ lookupFileInner(dir, n) = [start |-> s, last |-> l]
  BY LiveRun
<1>2. n \in Name /\ Laid(dir) /\ Whole(dir)
  BY LiveRun DEF Sound
<1> DEFINE e == sync(dir, s, m)
<1>3. dir' = e
  BY <1>1 DEF WriteBack, Step
<1>4. /\ Laid(e) /\ Whole(e) /\ KeepsOthers(dir, e)
      /\ \A h : Stays(dir, e, h)
      /\ \A h \in Name : h # n => Keeps(dir, e, h)
      /\ entry(e, l).meta = m
  BY <1>1, <1>2, RunSynced
<1> HIDE DEF e
<1>5. ShortAt(e, n, l)
  BY <1>1, <1>4 DEF IsRun, Stays
<1>6. QED
  BY <1>2, <1>3, <1>4, <1>5 DEF Leads, Sound, Stands

\* rename within the directory.
LEMMA RenameStep ==
    ASSUME Adjacent, Sound(dir), NEW n \in Live(dir), NEW to \in Name, Rename(n, to)
    PROVE  /\ n \in Name /\ n # to /\ Leads(dir, dir', {n, to}) /\ \A x : ~ShortAt(dir', n, x)
           /\ Stands(dir', to, Table(dir)[n])
           /\ to \in Live(dir) => Stays(dir, dir', to)
<1>1. PICK s, l : IsRun(dir, n, s, l) /\ lookupFileInner(dir, n) = [start |-> s, last |-> l]
  BY LiveRun
<1>2. n \in Name /\ n # to /\ Laid(dir) /\ Whole(dir)
  BY LiveRun DEF Sound, Rename
<1>3. ShortAt(dir, n, l) /\ Table(dir)[n] = entry(dir, l).meta /\ entry(dir, l).meta \in Meta
  <2>1. ShortAt(dir, n, l)
    BY <1>1 DEF IsRun
  <2>2. QED
    BY <1>2, <2>1, TableIs, MetaIs
<1> DEFINE both == IF to \in Live(dir) THEN dir ELSE crtFileInner(dir, to)
           mine == sync(both, lookupFileInner(both, to).start, entry(dir, l).meta)
           last == sync(mine, s, entry(both, lookupFileInner(both, to).last).meta)
           e == selfDestruct(last, s)
<1>4. dir' = e
  BY <1>1 DEF Rename, Step
<1>5. \E t, x : /\ Laid(both) /\ Whole(both) /\ KeepsOthers(dir, both)
                /\ IsRun(both, to, t, x) /\ IsRun(both, n, s, l)
                /\ \A h \in Name \ {to} : Keeps(dir, both, h)
                /\ to \in Live(dir) => Stays(dir, both, to)
  <2>1. CASE to \in Live(dir)
    <3>1. PICK t, x : IsRun(dir, to, t, x)
      BY <2>1, LiveRun
    <3>2. both = dir
      BY <2>1
    <3> HIDE DEF both
    <3>3. QED
      BY <1>1, <1>2, <3>1, <3>2 DEF Keeps, Stays, KeepsOthers
  <2>2. CASE to \notin Live(dir)
    <3> DEFINE i == freeEntryStart(dir, to)
               x == i + Needed[to] - 1
    <3>1. Fits(dir, to) /\ both = crtFileInner(dir, to)
      BY <2>2 DEF Rename
    <3>2. \A y : ~ShortAt(dir, to, y)
      BY <2>2, NotLive
    <3>3. /\ Laid(both) /\ Whole(both) /\ KeepsOthers(dir, both)
          /\ IsRun(both, to, i, x)
          /\ \A h \in Name : h # to => Keeps(dir, both, h)
          /\ \A h, y, t : IsRun(dir, h, y, t) => IsRun(both, h, y, t)
      <4>1. /\ Laid(crtFileInner(dir, to)) /\ Whole(crtFileInner(dir, to))
            /\ KeepsOthers(dir, crtFileInner(dir, to))
            /\ IsRun(crtFileInner(dir, to), to, i, x)
            /\ \A h \in Name : h # to => Keeps(dir, crtFileInner(dir, to), h)
            /\ \A h, y, t : IsRun(dir, h, y, t) => IsRun(crtFileInner(dir, to), h, y, t)
        BY <1>2, <3>1, <3>2, Created
      <4> HIDE DEF both, i, x
      <4>2. QED
        BY <3>1, <4>1
    <3> HIDE DEF both, i, x
    <3>4. IsRun(both, n, s, l)
      BY <1>1, <3>3
    <3>5. QED
      BY <2>2, <3>3, <3>4
  <2>3. QED
    BY <2>1, <2>2
<1> HIDE DEF both
<1>6. PICK t, x : /\ Laid(both) /\ Whole(both) /\ KeepsOthers(dir, both)
                  /\ IsRun(both, to, t, x) /\ IsRun(both, n, s, l)
                  /\ \A h \in Name \ {to} : Keeps(dir, both, h)
                  /\ to \in Live(dir) => Stays(dir, both, to)
  BY <1>5
<1>7. lookupFileInner(both, to) = [start |-> t, last |-> x]
  BY <1>6, FoundIs
<1>8. ShortAt(both, to, x) /\ entry(both, x).meta \in Meta
  <2>1. ShortAt(both, to, x)
    BY <1>6 DEF IsRun
  <2>2. QED
    BY <1>6, <2>1, MetaIs DEF Sound
<1>9. /\ mine = sync(both, t, entry(dir, l).meta)
      /\ last = sync(mine, s, entry(both, x).meta)
  BY <1>7
<1> HIDE DEF mine, last
<1>10. /\ Laid(mine) /\ Whole(mine) /\ KeepsOthers(both, mine)
       /\ \A h : Stays(both, mine, h)
       /\ \A h \in Name : h # to => Keeps(both, mine, h)
       /\ entry(mine, x).meta = entry(dir, l).meta
       /\ IsRun(mine, n, s, l)
  BY <1>3, <1>6, <1>9, RunSynced
<1>11. /\ Laid(last) /\ Whole(last) /\ KeepsOthers(mine, last)
       /\ \A h \in Name : h # n => Keeps(mine, last, h)
       /\ IsRun(last, n, s, l)
  BY <1>2, <1>8, <1>9, <1>10, RunSynced
<1>12. /\ Laid(e) /\ Whole(e) /\ KeepsOthers(last, e)
       /\ \A y : ~ShortAt(e, n, y)
       /\ \A h \in Name : h # n => Keeps(last, e, h)
  BY <1>2, <1>11, RunDestroyed
<1> HIDE DEF e
<1>13. KeepsOthers(dir, e)
  <2>1. KeepsOthers(dir, mine)
    BY <1>2, <1>6, <1>10, KeepsTrans
  <2>2. KeepsOthers(dir, last)
    BY <1>2, <1>10, <1>11, <2>1, KeepsTrans
  <2>3. QED
    BY <1>2, <1>11, <1>12, <2>2, KeepsTrans
<1>14. \A h \in Name \ {n, to} : Keeps(dir, e, h)
  <2>1. SUFFICES ASSUME NEW h \in Name \ {n, to} PROVE Keeps(dir, e, h)
    OBVIOUS
  <2>2. Keeps(dir, both, h) /\ Keeps(both, mine, h) /\ Keeps(mine, last, h) /\ Keeps(last, e, h)
    BY <1>6, <1>10, <1>11, <1>12
  <2>3. QED
    BY <2>2, KeepsTrans
<1>15. Keeps(mine, last, to) /\ Keeps(last, e, to) /\ Stays(both, mine, to)
  BY <1>2, <1>10, <1>11, <1>12
<1>16. Stays(both, e, to)
  BY <1>15 DEF Keeps, Stays
<1>17. ShortAt(mine, to, x) /\ ShortAt(last, to, x) /\ ShortAt(e, to, x)
  BY <1>8, <1>15 DEF Keeps, Stays
<1>18. entry(e, x).meta = entry(dir, l).meta
  BY <1>10, <1>15, <1>17 DEF Keeps
<1>19. to \in Live(dir) => Stays(dir, e, to)
  BY <1>6, <1>16 DEF Stays
<1>20. QED
  BY <1>2, <1>3, <1>4, <1>12, <1>13, <1>14, <1>17, <1>18, <1>19 DEF Leads, Sound, Stands

\* A call other than a listing.
Call ==
    \/ \E n \in Name \ Live(dir) : MkdirUndone(n) \/ \E m \in Meta : Create(n, m)
    \/ \E n \in Live(dir) :
          \/ Unlink(n) \/ MoveOut(n)
          \/ \E to \in Name : Rename(n, to)
          \/ \E m \in Meta : WriteBack(n, m)

\* Names there before and after it stay where they are.
Settled(d, e) == \A k \in Live(d) : k \in Live(e) => Stays(d, e, k)

\* A call that leads from one sound directory to the next keeps the names it is
\* not about where they are.
LEMMA LeadsSettled ==
    ASSUME NEW d, NEW e, NEW S, Sound(d), Leads(d, e, S),
           \A k \in S \cap Live(d) : k \in Live(e) => Stays(d, e, k)
    PROVE  Sound(e) /\ KeepsOthers(d, e) /\ Settled(d, e)
<1>1. Live(d) \subseteq Name
  BY TableIs DEF Sound
<1>2. QED
  BY <1>1 DEF Leads, Settled, Keeps

\* Every call on the directory keeps it sound, the entries of others and the places
\* of names, and is a step of the table or none.
LEMMA CallIs ==
    ASSUME Adjacent, Sound(dir), Call
    PROVE  /\ Sound(dir') /\ KeepsOthers(dir, dir') /\ Settled(dir, dir')
           /\ staying' = staying \cap Live(dir') /\ cursor' = cursor /\ listed' = listed
           /\ Table(dir') = Table(dir) \/ Abstract!Next
<1>1. staying' = staying \cap Live(dir') /\ cursor' = cursor /\ listed' = listed
  BY DEF Call, Create, MkdirUndone, Unlink, MoveOut, Rename, WriteBack, Step, listing
<1>2. ASSUME NEW n \in Name \ Live(dir), MkdirUndone(n)
      PROVE  /\ Sound(dir') /\ KeepsOthers(dir, dir') /\ Settled(dir, dir')
             /\ Table(dir') = Table(dir)
  <2>1. Leads(dir, dir', {})
    BY <1>2, MkdirUndoneStep
  <2>2. QED
    BY <2>1, LeadsSettled, TableSame
<1>3. ASSUME NEW n \in Name \ Live(dir), NEW m \in Meta, Create(n, m)
      PROVE  /\ Sound(dir') /\ KeepsOthers(dir, dir') /\ Settled(dir, dir')
             /\ Abstract!Set(n, m)
  <2>1. Leads(dir, dir', {n}) /\ Stands(dir', n, m)
    BY <1>3, CreateStep
  <2>2. Assigned(dir, dir', n, m)
    BY <2>1, TableSet
  <2>3. Sound(dir') /\ KeepsOthers(dir, dir') /\ Settled(dir, dir')
    BY <2>1, LeadsSettled
  <2>4. QED
    BY <2>2, <2>3 DEF Assigned, Abstract!Set, Live
<1>4. ASSUME NEW n \in Live(dir), Unlink(n) \/ MoveOut(n)
      PROVE  /\ Sound(dir') /\ KeepsOthers(dir, dir') /\ Settled(dir, dir')
             /\ Abstract!Remove(n)
  <2>1. n \in Name /\ Leads(dir, dir', {n}) /\ \A x : ~ShortAt(dir', n, x)
    BY <1>4, UnlinkStep
  <2>2. Table(dir') = [k \in Live(dir) \ {n} |-> Table(dir)[k]]
    BY <2>1, TableDrop
  <2>3. n \notin Live(dir')
    BY <2>1, TableIs DEF Leads, Sound
  <2>4. Sound(dir') /\ KeepsOthers(dir, dir') /\ Settled(dir, dir')
    BY <2>1, <2>3, LeadsSettled
  <2>5. QED
    BY <2>2, <2>4 DEF Abstract!Remove, Live
<1>5. ASSUME NEW n \in Live(dir), NEW to \in Name, Rename(n, to)
      PROVE  /\ Sound(dir') /\ KeepsOthers(dir, dir') /\ Settled(dir, dir')
             /\ to # n /\ Abstract!Rename(n, to)
  <2>1. /\ n \in Name /\ n # to /\ Leads(dir, dir', {n, to}) /\ \A x : ~ShortAt(dir', n, x)
        /\ Stands(dir', to, Table(dir)[n])
        /\ to \in Live(dir) => Stays(dir, dir', to)
    BY <1>5, RenameStep
  <2>2. Table(dir') = [k \in (Live(dir) \cup {to}) \ {n} |->
                          IF k = to THEN Table(dir)[n] ELSE Table(dir)[k]]
    BY <2>1, TableMove
  <2>3. n \notin Live(dir')
    BY <2>1, TableIs DEF Leads, Sound
  <2>4. Sound(dir') /\ KeepsOthers(dir, dir') /\ Settled(dir, dir')
    BY <2>1, <2>3, LeadsSettled
  <2>5. QED
    BY <2>1, <2>2, <2>4 DEF Abstract!Rename, Live
<1>6. ASSUME NEW n \in Live(dir), NEW m \in Meta, WriteBack(n, m)
      PROVE  /\ n \in Name /\ Sound(dir') /\ KeepsOthers(dir, dir') /\ Settled(dir, dir')
             /\ Abstract!Set(n, m)
  <2>1. n \in Name /\ Leads(dir, dir', {n}) /\ Stands(dir', n, m) /\ Stays(dir, dir', n)
    BY <1>6, WriteBackStep
  <2>2. Assigned(dir, dir', n, m)
    BY <2>1, TableSet
  <2>3. Sound(dir') /\ KeepsOthers(dir, dir') /\ Settled(dir, dir')
    BY <2>1, LeadsSettled
  <2>4. QED
    BY <2>1, <2>2, <2>3 DEF Assigned, Abstract!Set, Live
<1>7. Sound(dir') /\ KeepsOthers(dir, dir') /\ Settled(dir, dir')
  BY <1>2, <1>3, <1>4, <1>5, <1>6 DEF Call
<1>8. Table(dir') = Table(dir) \/ Abstract!Next
  <2>1. \A n \in Name, m \in Meta : Abstract!Set(n, m) => Abstract!Next
    BY DEF Abstract!Next
  <2>2. \A n \in Live(dir) : Abstract!Remove(n) => Abstract!Next
    BY DEF Abstract!Next, Live
  <2>3. \A n \in Live(dir), to \in Name : to # n /\ Abstract!Rename(n, to) => Abstract!Next
    BY DEF Abstract!Next, Live
  <2>4. QED
    BY <1>2, <1>3, <1>4, <1>5, <1>6, <2>1, <2>2, <2>3 DEF Call
<1>9. QED
  BY <1>1, <1>7, <1>8

-----------------------------------------------------------------------------
(***************************************************************************)
(* A listing.                                                              *)
(***************************************************************************)
\* Of the names that stay it has delivered those in front of its offset.
Delivering ==
    /\ cursor \in Nat \cup {Closed} /\ listed \subseteq Name /\ staying \subseteq Live(dir)
    /\ cursor = Closed => staying = {}
    /\ \A k \in staying : \A l \in 0 .. Count(dir) - 1 :
          ShortAt(dir, k, l) => (k \in listed <=> l < cursor)

\* It stops at the next short entry, which exists as long as anything is in
\* use ahead.
LEMMA ReadEndIs ==
    ASSUME Adjacent, Sound(dir), cursor \in Nat, Ahead # {}
    PROVE  /\ ReadEnd \in Nat /\ cursor <= ReadEnd /\ ReadEnd \in 0 .. Count(dir) - 1
           /\ isShort(dir, ReadEnd) /\ Delivered \in Name \cup {NoName}
           /\ \A l \in 0 .. Count(dir) - 1 : isShort(dir, l) /\ cursor <= l => ReadEnd <= l
           /\ Delivered \in Name => ShortAt(dir, Delivered, ReadEnd)
<1> DEFINE S == {i \in Ahead : isShort(dir, i)}
<1>1. Laid(dir) /\ Whole(dir) /\ Count(dir) \in Nat /\ Dots \in Nat
  BY CountIs, Numbers DEF Sound
<1>2. \A l \in 0 .. Count(dir) - 1 : isShort(dir, l) /\ cursor <= l => l \in S
  BY <1>1, MarksAre DEF Ahead
<1>3. S # {}
  <2>1. PICK n \in Ahead : TRUE
    OBVIOUS
  <2>2. n \in 0 .. Count(dir) - 1 /\ cursor <= n /\ Used(dir, n)
    BY <1>1, <2>1 DEF Ahead
  <2>3. CASE n < Dots
    <3>1. n \in 0 .. Dots - 1
      BY <1>1, <2>2, <2>3
    <3>2. QED
      BY <1>1, <1>2, <2>2, <3>1 DEF Whole, DotsThere
  <2>4. CASE n >= Dots
    <3>1. n \in Dots .. Count(dir) - 1
      BY <1>1, <2>2, <2>4
    <3>2. PICK s, l \in 0 .. Count(dir) - 1 :
             IsRun(dir, entry(dir, n).name, s, l) /\ n \in s .. l
      BY <1>1, <2>2, <3>1 DEF Whole, InRuns
    <3>3. isShort(dir, l) /\ cursor <= l
      BY <1>1, <2>2, <3>2, RunIs
    <3>4. QED
      BY <1>2, <3>3
  <2>5. QED
    BY <1>1, <2>2, <2>3, <2>4
<1>4. S \in SUBSET Nat
  BY <1>1 DEF Ahead
<1>5. ReadEnd = Least(S)
  BY DEF ReadEnd
<1> HIDE DEF S
<1>6. ReadEnd \in S /\ ReadEnd \in Nat /\ \A l \in S : ReadEnd <= l
  BY <1>3, <1>4, <1>5, LeastIs
<1>7. cursor <= ReadEnd /\ ReadEnd \in 0 .. Count(dir) - 1 /\ isShort(dir, ReadEnd)
  BY <1>1, <1>6 DEF S, Ahead
<1>8. Delivered \in Name \cup {NoName}
  <2>1. entry(dir, ReadEnd) \in Cell
    BY <1>1, <1>7, PlaceIs
  <2>2. QED
    BY <2>1 DEF Delivered, Cell
<1>9. Delivered \in Name => ShortAt(dir, Delivered, ReadEnd)
  <2>1. ASSUME Delivered \in Name PROVE ReadEnd >= Dots
    <3>1. SUFFICES ASSUME ReadEnd < Dots PROVE FALSE
      BY <1>1, <1>6
    <3>2. ReadEnd \in 0 .. Dots - 1
      BY <1>1, <1>6, <3>1
    <3>3. Delivered = NoName
      BY <1>1, <3>2 DEF Whole, DotsThere, Delivered
    <3>4. QED
      BY <2>1, <3>3, Numbers
  <2>2. QED
    BY <1>1, <1>7, <2>1 DEF ShortAt, Delivered
<1>10. QED
  BY <1>2, <1>6, <1>7, <1>8, <1>9

IInv == Sound(dir) /\ Delivering

\* A read of a listing delivers the next name, which was not delivered before.
LEMMA ReadListingKeeps ==
    ASSUME Adjacent, IInv, ReadListing
    PROVE  Delivering' /\ Delivered \notin listed \cap staying
<1>1. Laid(dir) /\ Whole(dir) /\ Count(dir) \in Nat /\ Dots \in Nat /\ cursor \in Nat
  BY CountIs, Numbers DEF IInv, Sound, ReadListing, Delivering
<1>2. /\ ReadEnd \in Nat /\ cursor <= ReadEnd /\ ReadEnd \in 0 .. Count(dir) - 1
      /\ isShort(dir, ReadEnd) /\ Delivered \in Name \cup {NoName}
      /\ \A l \in 0 .. Count(dir) - 1 : isShort(dir, l) /\ cursor <= l => ReadEnd <= l
      /\ Delivered \in Name => ShortAt(dir, Delivered, ReadEnd)
  BY <1>1, ReadEndIs DEF IInv, ReadListing
<1>3. /\ cursor' = ReadEnd + 1 /\ listed' = listed \cup ({Delivered} \ {NoName})
      /\ dir' = dir /\ staying' = staying
  BY DEF ReadListing, NextOffset
<1>4. listed \subseteq Name /\ staying \subseteq Live(dir) /\ staying \subseteq Name
  BY <1>1, TableIs DEF IInv, Delivering
<1>5. ASSUME NEW k \in staying, NEW l \in 0 .. Count(dir) - 1, ShortAt(dir, k, l)
      PROVE  k \in listed' <=> l < ReadEnd + 1
  <2>1. /\ k \in listed <=> l < cursor
        /\ k \in Name /\ isShort(dir, l) /\ entry(dir, l).name = k
    BY <1>4, <1>5 DEF IInv, Delivering, ShortAt
  <2>2. CASE l < cursor
    BY <1>1, <1>2, <1>3, <2>1, <2>2
  <2>3. CASE l >= cursor
    <3>1. ReadEnd <= l /\ k \notin listed
      BY <1>1, <1>2, <2>1, <2>3
    <3>2. k = Delivered => ReadEnd = l
      BY <1>1, <1>2, <1>5, <2>1, ShortOnce
    <3>3. ReadEnd = l => k = Delivered
      BY <2>1 DEF Delivered
    <3>4. k \in listed' <=> ReadEnd = l
      BY <1>3, <2>1, <3>1, <3>2, <3>3, Numbers
    <3>5. QED
      BY <1>2, <3>1, <3>4
  <2>4. QED
    BY <1>1, <2>2, <2>3
<1>6. Delivering'
  <2>1. cursor' \in Nat /\ cursor' # Closed
    BY <1>2, <1>3 DEF Closed
  <2>2. listed' \subseteq Name
    BY <1>2, <1>3, <1>4
  <2>3. QED
    BY <1>3, <1>4, <1>5, <2>1, <2>2 DEF Delivering
<1>7. ASSUME Delivered \in listed \cap staying
      PROVE  FALSE
  <2>1. ShortAt(dir, Delivered, ReadEnd)
    BY <1>2, <1>4, <1>7
  <2>2. ReadEnd < cursor
    BY <1>2, <1>7, <2>1 DEF IInv, Delivering
  <2>3. QED
    BY <1>1, <1>2, <2>2
<1>8. QED
  BY <1>6, <1>7

\* A listing that ends has delivered all the names that stayed.
LEMMA EndListingComplete ==
    ASSUME Adjacent, IInv, EndListing
    PROVE  staying \subseteq listed
<1>1. Laid(dir) /\ Whole(dir) /\ Count(dir) \in Nat /\ Dots \in Nat /\ cursor \in Nat
  BY CountIs, Numbers DEF IInv, Sound, EndListing, Delivering
<1>2. SUFFICES ASSUME NEW k \in staying PROVE k \in listed
  OBVIOUS
<1>3. PICK l : ShortAt(dir, k, l)
  BY <1>1, TableIs DEF IInv, Delivering
<1>4. l \in 0 .. Count(dir) - 1 /\ Used(dir, l)
  BY <1>1, <1>3, MarksAre DEF ShortAt
<1>5. l \notin cursor .. Count(dir) - 1
  BY <1>4 DEF EndListing, Ahead
<1>6. l < cursor
  BY <1>1, <1>4, <1>5
<1>7. QED
  BY <1>3, <1>4, <1>6 DEF IInv, Delivering

-----------------------------------------------------------------------------
(***************************************************************************)
(* The invariant.                                                          *)
(***************************************************************************)
\* Sound images to start from satisfy the invariant.
LEMMA Initially ==
    ASSUME SoundImages, Init
    PROVE  IInv
BY DEF SoundImages, Init, IInv, Sound, Delivering

\* A step is a call that may change entries or one of a listing.
LEMMA Calls == Next <=> Call \/ OpenListing \/ ReadListing \/ EndListing
BY DEF Next, Call

\* A stuttering step changes nothing.
LEMMA Stutter == UNCHANGED vars => dir' = dir /\ cursor' = cursor /\ listed' = listed /\ staying' = staying
BY DEF vars

\* Every step preserves the invariant.
LEMMA StepKeeps ==
    ASSUME Adjacent, IInv, [Next]_vars
    PROVE  IInv'
<1>1. Sound(dir) /\ Delivering
  BY DEF IInv
<1>2. CASE Call
  <2>1. /\ Sound(dir') /\ Settled(dir, dir')
        /\ staying' = staying \cap Live(dir') /\ cursor' = cursor /\ listed' = listed
    BY <1>1, <1>2, CallIs
  <2>2. ASSUME NEW k \in staying', NEW l \in 0 .. Count(dir') - 1, ShortAt(dir', k, l)
        PROVE  k \in listed' <=> l < cursor'
    <3>1. k \in staying /\ ShortAt(dir, k, l)
      BY <1>1, <2>1, <2>2 DEF Delivering, Settled, Stays
    <3>2. l \in 0 .. Count(dir) - 1
      BY <1>1, <3>1, CountIs, Numbers DEF ShortAt, Sound
    <3>3. QED
      BY <1>1, <2>1, <3>1, <3>2 DEF Delivering
  <2>3. QED
    BY <1>1, <2>1, <2>2 DEF IInv, Delivering
<1>3. CASE OpenListing
  <2>1. cursor' = 0 /\ listed' = {} /\ staying' = Live(dir) /\ dir' = dir
    BY <1>3 DEF OpenListing
  <2>2. \A l \in 0 .. Count(dir) - 1 : ~(l < 0)
    BY <1>1, CountIs DEF Sound
  <2>3. QED
    BY <1>1, <2>1, <2>2 DEF IInv, Delivering, Closed
<1>4. CASE ReadListing
  <2>1. Delivering' /\ dir' = dir
    BY <1>4, ReadListingKeeps DEF ReadListing
  <2>2. QED
    BY <1>1, <2>1 DEF IInv
<1>5. CASE EndListing
  BY <1>1, <1>5 DEF IInv, Delivering, EndListing
<1>6. CASE UNCHANGED vars
  BY <1>1, <1>6, Stutter DEF IInv, Delivering
<1>7. QED
  BY <1>2, <1>3, <1>4, <1>5, <1>6, Calls

\* The directory is sound in every state, and a listing has delivered what
\* stayed in front of its offset: the invariant all of the following rests on.
THEOREM IInvAlways == Adjacent /\ SoundImages => (Spec => []IInv)
<1> SUFFICES ASSUME Adjacent, SoundImages
             PROVE  Spec => []IInv
  OBVIOUS
<1>1. Init => IInv
  BY Initially
<1>2. IInv /\ [Next]_vars => IInv'
  BY StepKeeps
<1>3. QED
  BY <1>1, <1>2, PTL DEF Spec

\* The chain never takes a cluster twice and entries keep their form, whatever
\* the calls of Directory and File write.
THEOREM TypeCorrect == Adjacent /\ SoundImages => (Spec => []TypeOK)
<1> SUFFICES ASSUME Adjacent, SoundImages
             PROVE  Spec => []TypeOK
  OBVIOUS
<1>1. IInv => TypeOK
  <2> SUFFICES ASSUME IInv PROVE TypeOK
    OBVIOUS
  <2>1. Laid(dir) /\ Whole(dir) /\ Delivering
    BY DEF IInv, Sound
  <2>2. dir.chain \in Seq(Cluster) /\ dir.chain # <<>> /\ dir.cell \in [Pos -> Cell]
    BY <2>1 DEF Laid, Record
  <2>3. IsInjective(dir.chain)
    <3>1. DOMAIN dir.chain = 1 .. Len(dir.chain) /\ Len(dir.chain) \in Nat /\ First \in Int
      BY <2>1, CountIs DEF Adjacent, Cluster
    <3>2. \A i \in DOMAIN dir.chain : dir.chain[i] = First + i - 1
      BY <2>1, <3>1 DEF Laid
    <3>3. \A i, j \in DOMAIN dir.chain : dir.chain[i] = dir.chain[j] => i = j
      BY <3>1, <3>2
    <3>4. QED
      BY <3>3 DEF IsInjective
  <2>4. staying \subseteq Name
    BY <2>1, TableIs DEF Delivering
  <2>5. QED
    BY <2>1, <2>2, <2>3, <2>4 DEF TypeOK, Delivering, Pos
<1>2. Spec => []IInv
  BY IInvAlways
<1>3. QED
  BY <1>1, <1>2, PTL

\* No entry in use ever lies behind an end mark (delFile, crtFileInner).
THEOREM NothingHidden == Adjacent /\ SoundImages => (Spec => []NothingBehindEnd)
<1> SUFFICES ASSUME Adjacent, SoundImages
             PROVE  Spec => []NothingBehindEnd
  OBVIOUS
<1>1. IInv => NothingBehindEnd
  <2> SUFFICES ASSUME IInv, NEW n \in Limit(dir) .. Count(dir) - 1, Used(dir, n)
               PROVE  FALSE
    BY DEF NothingBehindEnd
  <2>1. Laid(dir) /\ Ended(dir) /\ Count(dir) \in Nat
    BY CountIs DEF IInv, Sound, Whole
  <2>2. Limit(dir) \in Nat /\ \A m \in 0 .. Count(dir) - 1 : Used(dir, m) => m < Limit(dir)
    BY <2>1, LimitIs
  <2>3. n \in 0 .. Count(dir) - 1 /\ Limit(dir) <= n
    BY <2>1, <2>2
  <2>4. QED
    BY <2>2, <2>3
<1>2. Spec => []IInv
  BY IInvAlways
<1>3. QED
  BY <1>1, <1>2, PTL

\* Every entry in use belongs to the complete run of one name, and no name has
\* two runs (the checksum assertions of lookupFileInner).
THEOREM RunsAlwaysWhole == Adjacent /\ SoundImages => (Spec => []RunsWhole)
<1> SUFFICES ASSUME Adjacent, SoundImages
             PROVE  Spec => []RunsWhole
  OBVIOUS
<1>1. IInv => RunsWhole
  <2> SUFFICES ASSUME IInv PROVE RunsWhole
    OBVIOUS
  <2>1. Laid(dir) /\ Whole(dir)
    BY DEF IInv, Sound
  <2>2. ASSUME NEW n \in Dots .. Count(dir) - 1, Used(dir, n)
        PROVE  \E k \in Name : \E r \in Found(dir, k) : n \in r.start .. r.last
    <3> DEFINE k == entry(dir, n).name
    <3>1. PICK s, l \in 0 .. Count(dir) - 1 : IsRun(dir, k, s, l) /\ n \in s .. l
      BY <2>1, <2>2 DEF Whole, InRuns
    <3>2. k \in Name
      BY <2>1, <2>2 DEF Whole, InRuns
    <3> HIDE DEF k
    <3>3. Found(dir, k) = {[start |-> s, last |-> l]}
      BY <2>1, <3>1, <3>2, FoundIs
    <3> DEFINE r == [start |-> s, last |-> l]
    <3>4. r.start = s /\ r.last = l
      OBVIOUS
    <3> HIDE DEF r
    <3>5. r \in Found(dir, k) /\ n \in r.start .. r.last
      BY <3>1, <3>3, <3>4 DEF r
    <3>6. QED
      BY <3>2, <3>5
  <2>3. ASSUME NEW k \in Name
        PROVE  Cardinality(Found(dir, k)) <= 1
    <3>1. CASE Found(dir, k) = {}
      BY <3>1, FS_EmptySet
    <3>2. CASE Found(dir, k) # {}
      <4>1. PICK s, l : IsRun(dir, k, s, l)
        BY <2>1, <3>2, FoundIs
      <4>2. Found(dir, k) = {[start |-> s, last |-> l]}
        BY <2>1, <4>1, FoundIs
      <4>3. \A r : Cardinality({r}) = 1
        BY FS_Singleton
      <4>4. Cardinality(Found(dir, k)) = 1
        BY <4>2, <4>3
      <4>5. QED
        BY <4>4
    <3>3. QED
      BY <3>1, <3>2
  <2>4. QED
    BY <2>2, <2>3 DEF RunsWhole
<1>2. Spec => []IInv
  BY IInvAlways
<1>3. QED
  BY <1>1, <1>2, PTL

\* A directory passes for empty exactly when it holds no name (isEmpty, rmdir,
\* rename over a directory).
THEOREM EmptyAlwaysEmpty == Adjacent /\ SoundImages => (Spec => []EmptyIsEmpty)
<1> SUFFICES ASSUME Adjacent, SoundImages
             PROVE  Spec => []EmptyIsEmpty
  OBVIOUS
<1>1. IInv => EmptyIsEmpty
  <2> SUFFICES ASSUME IInv PROVE EmptyIsEmpty
    OBVIOUS
  <2>1. /\ Laid(dir) /\ Whole(dir) /\ Ended(dir)
        /\ Count(dir) \in Nat /\ Dots \in Nat /\ Dots < Count(dir)
    BY CountIs, Numbers DEF IInv, Sound, Whole
  <2>2. isEmpty(dir) <=> \A x \in 0 .. Count(dir) - 1 : Dots - 1 < x => ~Used(dir, x)
    <3>1. Dots - 1 \in Int /\ -1 <= Dots - 1
      BY <2>1
    <3>2. QED
      BY <2>1, <3>1, LastIs DEF isEmpty
  <2>3. ASSUME NEW k \in Live(dir)
        PROVE  \E x \in 0 .. Count(dir) - 1 : Dots - 1 < x /\ Used(dir, x)
    <3>1. PICK l : ShortAt(dir, k, l)
      BY <2>1, TableIs
    <3>2. QED
      BY <2>1, <3>1, MarksAre DEF ShortAt
  <2>4. ASSUME NEW x \in 0 .. Count(dir) - 1, Dots - 1 < x, Used(dir, x)
        PROVE  \E k : k \in Live(dir)
    <3>1. x \in Dots .. Count(dir) - 1
      BY <2>1, <2>4
    <3>2. PICK s, l \in 0 .. Count(dir) - 1 : IsRun(dir, entry(dir, x).name, s, l)
      BY <2>1, <2>4, <3>1 DEF Whole, InRuns
    <3>3. entry(dir, x).name \in Name
      BY <2>1, <2>4, <3>1 DEF Whole, InRuns
    <3>4. ShortAt(dir, entry(dir, x).name, l)
      BY <3>2 DEF IsRun
    <3>5. QED
      BY <2>1, <3>3, <3>4, TableIs
  <2>5. QED
    BY <2>2, <2>3, <2>4 DEF EmptyIsEmpty
<1>2. Spec => []IInv
  BY IInvAlways
<1>3. QED
  BY <1>1, <1>2, PTL

\* The object made from the inode number of a name is the object of that name
\* (fromIno, sync, selfDestruct).
THEOREM InodeAlwaysName == Adjacent /\ SoundImages => (Spec => []InodeIsName)
<1> SUFFICES ASSUME Adjacent, SoundImages
             PROVE  Spec => []InodeIsName
  OBVIOUS
<1>1. IInv => InodeIsName
  <2> SUFFICES ASSUME IInv, NEW n \in Live(dir)
               PROVE  LET r == lookupFileInner(dir, n)
                      IN  fromIno(dir, r.start) =
                             {[name |-> n, length |-> r.last - r.start + 1,
                               meta |-> entry(dir, r.last).meta]}
    BY DEF InodeIsName
  <2>1. Sound(dir) /\ Laid(dir)
    BY DEF IInv, Sound
  <2>2. PICK s, l : IsRun(dir, n, s, l) /\ lookupFileInner(dir, n) = [start |-> s, last |-> l]
    BY <2>1, LiveRun
  <2>3. fromIno(dir, s) = {[name |-> n, length |-> l - s + 1, meta |-> entry(dir, l).meta]}
    BY <2>1, <2>2, LiveRun, FromInoIs
  <2>4. QED
    BY <2>2, <2>3
<1>2. Spec => []IInv
  BY IInvAlways
<1>3. QED
  BY <1>1, <1>2, PTL

\* No call writes into a cluster of another file (writeDirEntry, sync,
\* selfDestruct).
THEOREM OthersAlwaysUntouched == Adjacent /\ SoundImages => (Spec => OthersUntouched)
<1> SUFFICES ASSUME Adjacent, SoundImages
             PROVE  Spec => OthersUntouched
  OBVIOUS
<1> DEFINE Kept == \A p \in DOMAIN dir.cell : p \div PerCluster \in Foreign => dir'.cell[p] = dir.cell[p]
<1>1. IInv /\ [Next]_vars => [Kept]_vars
  <2> SUFFICES ASSUME IInv, [Next]_vars PROVE [Kept]_vars
    OBVIOUS
  <2>1. CASE Call
    BY <2>1, CallIs DEF IInv, KeepsOthers
  <2>2. CASE OpenListing \/ ReadListing \/ EndListing
    BY <2>2 DEF OpenListing, ReadListing, EndListing
  <2>3. QED
    BY <2>1, <2>2, Calls
<1>2. Spec => []IInv
  BY IInvAlways
<1>3. QED
  BY <1>1, <1>2, PTL DEF Spec, OthersUntouched

\* A listing delivers every name that stays from its first call to its last,
\* and delivers none of them twice (readdir, lookupFileByIndex).
THEOREM ListingDelivers == Adjacent /\ SoundImages => (Spec => ListsStaying)
<1> SUFFICES ASSUME Adjacent, SoundImages
             PROVE  Spec => ListsStaying
  OBVIOUS
<1> DEFINE Right == /\ EndListing => staying \subseteq listed
                    /\ ReadListing => Delivered \notin listed \cap staying
<1>1. IInv /\ [Next]_vars => [Right]_vars
  BY EndListingComplete, ReadListingKeeps
<1>2. Spec => []IInv
  BY IInvAlways
<1>3. QED
  BY <1>1, <1>2, PTL DEF Spec, ListsStaying

\* Every call of an open listing raises its offset, which never leaves the
\* clusters of the volume, and nothing lowers it, not even the calls that take
\* entries away in between: so a listing that is gone on with ends, in at most
\* as many calls as there are entries (readdir, lookupFileByIndex).
ListingAdvances ==
    [][/\ ReadListing => cursor' \in cursor + 1 .. ClusterCount * PerCluster
       /\ cursor # Closed => ReadListing \/ cursor' \in {cursor, Closed}]_vars

\* What ListingAdvances says holds of every listing in a directory of adjacent
\* clusters, of any size (readdir, lookupFileByIndex).
THEOREM ListingAlwaysAdvances == Adjacent /\ SoundImages => (Spec => ListingAdvances)
<1> SUFFICES ASSUME Adjacent, SoundImages
             PROVE  Spec => ListingAdvances
  OBVIOUS
<1> DEFINE Up == /\ ReadListing => cursor' \in cursor + 1 .. ClusterCount * PerCluster
                 /\ cursor # Closed => ReadListing \/ cursor' \in {cursor, Closed}
<1>1. ASSUME IInv, ReadListing
      PROVE  cursor' \in cursor + 1 .. ClusterCount * PerCluster
  <2>1. Laid(dir) /\ Count(dir) \in Nat /\ ClusterCount * PerCluster \in Nat /\ cursor \in Nat
    BY <1>1, CountIs, Numbers DEF IInv, Sound, ReadListing, Delivering
  <2>2. ReadEnd \in 0 .. Count(dir) - 1 /\ cursor <= ReadEnd
    BY <1>1, <2>1, ReadEndIs DEF IInv, ReadListing
  <2>3. Base \in Nat /\ Base + ReadEnd \in Pos
    BY <2>1, <2>2, PlaceIs
  <2>4. ReadEnd + 1 <= ClusterCount * PerCluster
    BY <2>1, <2>2, <2>3 DEF Pos
  <2>5. cursor' = ReadEnd + 1
    BY <1>1 DEF ReadListing, NextOffset
  <2>6. QED
    BY <2>1, <2>2, <2>4, <2>5
<1>2. IInv /\ [Next]_vars => [Up]_vars
  <2> SUFFICES ASSUME IInv, [Next]_vars PROVE [Up]_vars
    OBVIOUS
  <2>1. CASE ReadListing
    BY <1>1, <2>1
  <2>2. CASE Call \/ OpenListing \/ EndListing
    BY <1>1, <2>2, CallIs DEF IInv, OpenListing, EndListing, listing
  <2>3. QED
    BY <2>1, <2>2, Calls
<1>3. Spec => []IInv
  BY IInvAlways
<1>4. QED
  BY <1>2, <1>3, PTL DEF Spec, ListingAdvances

\* The entries on the disk implement a table of names, whatever runs of
\* entries the calls erase, reuse, cut off or overwrite.
THEOREM NameTableImplemented == Adjacent /\ SoundImages => (Spec => IsNameTable)
<1> SUFFICES ASSUME Adjacent, SoundImages
             PROVE  Spec => IsNameTable
  OBVIOUS
<1>1. IInv => Abstract!Init
  <2> SUFFICES ASSUME IInv PROVE Abstract!Init
    OBVIOUS
  <2>1. Sound(dir) /\ Laid(dir) /\ Whole(dir)
    BY DEF IInv, Sound
  <2>2. Live(dir) \in SUBSET Name /\ Table(dir) = [k \in Live(dir) |-> Table(dir)[k]]
    BY <2>1, TableIs
  <2>3. ASSUME NEW k \in Live(dir)
        PROVE  Table(dir)[k] \in Meta
    <3>1. PICK l : ShortAt(dir, k, l)
      BY <2>1, TableIs
    <3>2. QED
      BY <2>1, <2>2, <3>1, TableIs, MetaIs
  <2>4. Table(dir) \in [Live(dir) -> Meta]
    BY <2>2, <2>3
  <2>5. QED
    BY <2>2, <2>4 DEF Abstract!Init
<1>2. IInv /\ [Next]_vars => [Abstract!Next]_(Table(dir))
  <2> SUFFICES ASSUME IInv, [Next]_vars
               PROVE  Table(dir') = Table(dir) \/ Abstract!Next
    OBVIOUS
  <2>1. CASE Call
    BY <2>1, CallIs DEF IInv
  <2>2. CASE OpenListing \/ ReadListing \/ EndListing
    BY <2>2 DEF OpenListing, ReadListing, EndListing
  <2>3. CASE UNCHANGED vars
    BY <2>3, Stutter
  <2>4. QED
    BY <2>1, <2>2, <2>3, Calls
<1>3. Spec => []IInv
  BY IInvAlways
<1>4. Init => IInv
  BY Initially
<1>5. QED
  BY <1>1, <1>2, <1>3, <1>4, PTL DEF Spec, IsNameTable, Abstract!Spec
=============================================================================
