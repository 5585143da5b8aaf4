--------------------------- MODULE FatTableProofs ---------------------------
(***************************************************************************)
(* The allocation table, for every size of the volume, every set of owners *)
(* and every set of well-formed volumes to mount: chains stay apart, end   *)
(* and lose no cluster, a resize is exact, the free count follows the      *)
(* table, and the table implements the pool of clusters of ClusterPool.    *)
(***************************************************************************)
EXTENDS FatTable, FiniteSetTheorems, CommonLemmas

-----------------------------------------------------------------------------
(***************************************************************************)
(* The recursive definition of a walk has a solution, so that Walk can be  *)
(* unfolded one entry at a time.                                           *)
(***************************************************************************)
Follow(t, c, f, n) ==
    IF n = 0 THEN c ELSE IF f[n - 1] \in Entry THEN t[f[n - 1]] ELSE EOC

IsPartialWalk(t, c, k, f) == f = [n \in 0 .. k |-> Follow(t, c, f, n)]

\* Every bounded walk exists (the loop of readClusChains run k times).
LEMMA PartialWalk ==
    ASSUME NEW t, NEW c
    PROVE  \A k \in Nat : \E f : IsPartialWalk(t, c, k, f)
<1> USE DEF IsPartialWalk
<1> DEFINE S == {k \in Nat : \E f : f = [n \in 0 .. k |-> Follow(t, c, f, n)]}
<1>1. 0 \in S
  <2> DEFINE f == [n \in 0 .. 0 |-> c]
  <2>1. f = [n \in 0 .. 0 |-> Follow(t, c, f, n)]
    BY DEF Follow
  <2> QED
    BY <2>1
<1>2. ASSUME NEW k \in S PROVE k + 1 \in S
  <2>1. PICK f : f = [n \in 0 .. k |-> Follow(t, c, f, n)]
    BY <1>2
  <2> DEFINE g == [n \in 0 .. k + 1 |-> IF n <= k THEN f[n] ELSE Follow(t, c, f, n)]
  <2>2. \A n \in 0 .. k + 1 : Follow(t, c, g, n) = Follow(t, c, f, n)
    BY DEF Follow
  <2>3. \A n \in 0 .. k : f[n] = Follow(t, c, f, n)
    BY <2>1
  <2>4. g = [n \in 0 .. k + 1 |-> Follow(t, c, g, n)]
    BY <2>2, <2>3
  <2> HIDE DEF g
  <2>5. \E f0 : f0 = [n \in 0 .. k + 1 |-> Follow(t, c, f0, n)]
    BY <2>4
  <2>6. k + 1 \in Nat
    OBVIOUS
  <2> QED
    BY <2>5, <2>6
<1>3. S = Nat
  BY <1>1, <1>2, NatInduct
<1> QED
  BY <1>3

\* Two bounded walks agree where both are defined.
LEMMA PartialWalksAgree ==
    ASSUME NEW t, NEW c, NEW k \in Nat, NEW m \in Nat, NEW f, NEW g,
           IsPartialWalk(t, c, k, f), IsPartialWalk(t, c, m, g)
    PROVE  \A i \in Nat : i <= k /\ i <= m => f[i] = g[i]
<1> DEFINE S == {i \in Nat : i <= k /\ i <= m => f[i] = g[i]}
<1>1. \A i \in 0 .. k : f[i] = Follow(t, c, f, i)
  BY DEF IsPartialWalk
<1>2. \A i \in 0 .. m : g[i] = Follow(t, c, g, i)
  BY DEF IsPartialWalk
<1>3. 0 \in S
  BY <1>1, <1>2 DEF Follow
<1>4. ASSUME NEW i \in S PROVE i + 1 \in S
  <2>1. CASE i + 1 <= k /\ i + 1 <= m
    <3>1. f[i] = g[i]
      BY <2>1
    <3>2. f[i + 1] = Follow(t, c, f, i + 1) /\ g[i + 1] = Follow(t, c, g, i + 1)
      BY <1>1, <1>2, <2>1
    <3> QED
      BY <3>1, <3>2 DEF Follow
  <2>2. CASE ~(i + 1 <= k /\ i + 1 <= m)
    BY <2>2
  <2> QED
    BY <2>1, <2>2
<1>5. S = Nat
  BY <1>3, <1>4, NatInduct
<1> QED
  BY <1>5

\* Unfolding Walk: it starts at c and every further step follows the table.
LEMMA WalkUnfold ==
    ASSUME NEW t, NEW c
    PROVE  /\ Walk(t, c)[0] = c
           /\ \A n \in Nat : Walk(t, c)[n + 1] =
                IF Walk(t, c)[n] \in Entry THEN t[Walk(t, c)[n]] ELSE EOC
<1> DEFINE Part(k) == CHOOSE f : IsPartialWalk(t, c, k, f)
           w == [n \in Nat |-> Part(n)[n]]
<1>1. \A k \in Nat : IsPartialWalk(t, c, k, Part(k))
  BY PartialWalk
<1>2. \A k \in Nat, i \in Nat : i <= k => Part(k)[i] = w[i]
  <2>1. TAKE k \in Nat, i \in Nat
  <2>2. IsPartialWalk(t, c, k, Part(k)) /\ IsPartialWalk(t, c, i, Part(i))
    BY <1>1
  <2> HIDE DEF Part
  <2>4. \A j \in Nat : j <= k /\ j <= i => Part(k)[j] = Part(i)[j]
    BY <2>2, PartialWalksAgree
  <2> QED
    BY <2>4
<1>3. \A n \in Nat : Part(n)[n] = Follow(t, c, Part(n), n)
  <2>1. TAKE n \in Nat
  <2>2. IsPartialWalk(t, c, n, Part(n))
    BY <1>1
  <2> HIDE DEF Part
  <2> QED
    BY <2>2 DEF IsPartialWalk
<1>p. \A n \in Nat : w[n] = Part(n)[n]
  OBVIOUS
<1> HIDE DEF Part
<1>4. \A n \in Nat : w[n] = Follow(t, c, w, n)
  <2>1. TAKE n \in Nat
  <2>2. CASE n = 0
    BY <2>2, <1>3 DEF Follow
  <2>3. CASE n # 0
    <3>1. n - 1 \in Nat /\ n - 1 <= n
      BY <2>3
    <3>2. Part(n)[n - 1] = w[n - 1]
      BY <1>2, <3>1
    <3>3. w[n] = Follow(t, c, Part(n), n)
      BY <1>3
    <3> QED
      BY <3>2, <3>3, <2>3 DEF Follow
  <2> QED
    BY <2>2, <2>3
<1>5. w = [n \in Nat |->
             IF n = 0 THEN c
             ELSE LET prev == w[n - 1] IN IF prev \in Entry THEN t[prev] ELSE EOC]
  BY <1>4 DEF Follow
<1> DEFINE IsWalk(at) == at = [n \in Nat |->
             IF n = 0 THEN c
             ELSE LET prev == at[n - 1] IN IF prev \in Entry THEN t[prev] ELSE EOC]
<1>6. Walk(t, c) = CHOOSE at : IsWalk(at)
  BY DEF Walk
<1>7. IsWalk(w)
  BY <1>5
<1> HIDE DEF IsWalk, w
<1>8. IsWalk(Walk(t, c))
  BY <1>6, <1>7
<1>9. \A n \in Nat : n + 1 \in Nat /\ n + 1 # 0 /\ (n + 1) - 1 = n
  OBVIOUS
<1> QED
  BY <1>8, <1>9 DEF IsWalk

-----------------------------------------------------------------------------
(***************************************************************************)
(* Chains of a well-formed table.                                          *)
(***************************************************************************)
IsTable(t) == t \in [Entry -> 0 .. EOC]

\* Data, Entry and the end mark do not overlap.
LEMMA Numbers ==
    /\ CountOfClusters \in Nat /\ EOC \in Nat /\ EOC \notin Entry
    /\ Data \subseteq Entry /\ Entry \subseteq Nat
    /\ 0 \in Entry /\ 1 \in Entry /\ 0 \notin Data /\ 1 \notin Data
    /\ \A c \in Entry : c = 0 \/ c = 1 \/ c \in Data
    /\ \A v \in 0 .. EOC : v = EOC \/ v \in Entry
BY SizesAssumption DEF Data, Entry, EOC

\* A walk from a used cluster only visits used clusters, then stays on the
\* end mark.
LEMMA WalkVisitsUsed ==
    ASSUME NEW t, IsTable(t), Reserved(t), LinksToUsed(t),
           NEW c \in Data, t[c] # 0
    PROVE  \A n \in Nat : \/ Walk(t, c)[n] \in Data /\ t[Walk(t, c)[n]] # 0
                          \/ Walk(t, c)[n] = EOC
<1> DEFINE w == Walk(t, c)
           S == {n \in Nat : (w[n] \in Data /\ t[w[n]] # 0) \/ w[n] = EOC}
<1>u. w[0] = c /\ \A n \in Nat : w[n + 1] = IF w[n] \in Entry THEN t[w[n]] ELSE EOC
  BY WalkUnfold
<1> HIDE DEF w
<1>1. 0 \in S
  BY <1>u
<1>2. ASSUME NEW n \in S PROVE n + 1 \in S
  <2>1. CASE w[n] = EOC
    BY <1>u, <2>1, Numbers
  <2>2. CASE w[n] \in Data /\ t[w[n]] # 0
    <3>1. w[n] \in Entry /\ w[n + 1] = t[w[n]]
      BY <1>u, <2>2, Numbers
    <3>2. t[w[n]] \in 0 .. EOC
      BY <3>1 DEF IsTable
    <3>3. t[w[n]] = EOC \/ t[w[n]] \in Entry \ {0}
      BY <2>2, <3>2, Numbers
    <3> QED
      BY <3>1, <3>3 DEF LinksToUsed
  <2> QED
    BY <2>1, <2>2
<1>3. S = Nat
  BY <1>1, <1>2, NatInduct
<1> QED
  BY <1>3 DEF w

\* Every cluster of a walk but the first has its predecessor on the walk.
LEMMA WalkBack ==
    ASSUME NEW t, NEW c, NEW n \in Nat, n # 0, Walk(t, c)[n] \in Data
    PROVE  /\ n - 1 \in Nat /\ Walk(t, c)[n - 1] \in Entry
           /\ Walk(t, c)[n] = t[Walk(t, c)[n - 1]]
<1>1. n - 1 \in Nat /\ (n - 1) + 1 = n
  OBVIOUS
<1>2. Walk(t, c)[n] =
        IF Walk(t, c)[n - 1] \in Entry THEN t[Walk(t, c)[n - 1]] ELSE EOC
  BY <1>1, WalkUnfold
<1> QED
  BY <1>1, <1>2, Numbers

\* Walks from two clusters nobody links to meet only if they are the same
\* walk, and then only at the same distance.
LEMMA WalksMeet ==
    ASSUME NEW t, Reserved(t), OnePredecessor(t), NEW c, NEW d,
           \A e \in Entry : t[e] # c /\ t[e] # d
    PROVE  \A i, j \in Nat : Walk(t, c)[i] = Walk(t, d)[j] /\ Walk(t, c)[i] \in Data
                                => c = d /\ i = j
<1> DEFINE w == Walk(t, c)
           z == Walk(t, d)
           S == {i \in Nat : \A j \in Nat : w[i] = z[j] /\ w[i] \in Data => c = d /\ i = j}
<1>1. w[0] = c /\ z[0] = d
  BY WalkUnfold
<1>2. \A n \in Nat : n # 0 /\ w[n] \in Data =>
         n - 1 \in Nat /\ w[n - 1] \in Entry /\ w[n] = t[w[n - 1]]
  BY WalkBack
<1>3. \A n \in Nat : n # 0 /\ z[n] \in Data =>
         n - 1 \in Nat /\ z[n - 1] \in Entry /\ z[n] = t[z[n - 1]]
  BY WalkBack
<1>4. \A e \in Entry : \A n \in Nat : w[n] = e /\ t[e] \in Data /\ t[e] # 0 => w[n + 1] = t[e]
  BY WalkUnfold
<1> HIDE DEF w, z
<1>5. 0 \in S
  <2> SUFFICES ASSUME NEW j \in Nat, w[0] = z[j], w[0] \in Data PROVE c = d /\ 0 = j
    OBVIOUS
  <2> QED
    BY <1>1, <1>3
<1>6. ASSUME NEW i \in S PROVE i + 1 \in S
  <2> SUFFICES ASSUME NEW j \in Nat, w[i + 1] = z[j], w[i + 1] \in Data
               PROVE  c = d /\ i + 1 = j
    OBVIOUS
  <2>1. w[i] \in Entry /\ w[i + 1] = t[w[i]]
    BY <1>2
  <2>2. j # 0
    BY <1>1, <2>1
  <2>3. j - 1 \in Nat /\ z[j - 1] \in Entry /\ z[j] = t[z[j - 1]]
    BY <1>3, <2>2
  <2>4. w[i] = z[j - 1]
    BY <2>1, <2>3 DEF OnePredecessor
  <2>5. CASE w[i] \in Data
    <3>1. c = d /\ i = j - 1
      BY <2>3, <2>4, <2>5
    <3> QED
      BY <3>1, <2>3
  <2>6. CASE w[i] \notin Data
    <3> QED
      BY <2>1, <2>6, Numbers DEF Reserved
  <2> QED
    BY <2>5, <2>6
<1>7. S = Nat
  BY <1>5, <1>6, NatInduct
<1> QED
  BY <1>7 DEF w, z

\* The chain of an owner: its clusters are used data clusters, and they are
\* the data clusters of the walk's first CountOfClusters + 2 positions.
LEMMA OwnerChain ==
    ASSUME NEW t, NEW h, IsTable(t), WellFormed(t, h), NEW o \in Owner, h[o] # 0
    PROVE  /\ h[o] \in Clusters(t, h[o])
           /\ \A c \in Clusters(t, h[o]) : c \in Data /\ t[c] # 0
           /\ \A c : c \in Clusters(t, h[o]) <=>
                       \E n \in Entry : c = Walk(t, h[o])[n] /\ c \in Data
<1>1. h[o] \in Data /\ t[h[o]] # 0
  BY DEF WellFormed, HeadsUsed
<1>2. isValidCluster(h[o])
  BY <1>1, Numbers DEF isValidCluster
<1>3. \A n \in Nat : \/ Walk(t, h[o])[n] \in Data /\ t[Walk(t, h[o])[n]] # 0
                     \/ Walk(t, h[o])[n] = EOC
  BY <1>1, WalkVisitsUsed DEF WellFormed
<1>4. Walk(t, h[o])[0] = h[o]
  BY WalkUnfold
<1>5. Clusters(t, h[o]) = {Walk(t, h[o])[n] : n \in Entry} \cap Entry
  BY <1>2 DEF Clusters
<1>6. \A c : c \in Clusters(t, h[o]) <=>
               \E n \in Entry : c = Walk(t, h[o])[n] /\ c \in Data
  BY <1>3, <1>5, Numbers
<1>7. h[o] \in Clusters(t, h[o])
  BY <1>1, <1>4, <1>6, Numbers
<1>8. \A c \in Clusters(t, h[o]) : c \in Data /\ t[c] # 0
  BY <1>3, <1>6, Numbers
<1> QED
  BY <1>6, <1>7, <1>8

\* An owner without a first cluster has no clusters.
LEMMA NoChain ==
    ASSUME NEW t
    PROVE  Clusters(t, 0) = {} /\ readClusChains(t, 0) = <<>>
<1>1. Clusters(t, 0) = {}
  BY DEF Clusters, isValidCluster
<1>2. Cardinality({}) = 0
  BY FS_EmptySet
<1>3. readClusChains(t, 0) = [i \in 1 .. 0 |-> Walk(t, 0)[i - 1]]
  BY <1>1, <1>2 DEF readClusChains
<1>4. \A w : [i \in 1 .. 0 |-> w[i - 1]] = <<>>
  OBVIOUS
<1>5. QED
  BY <1>1, <1>3, <1>4

\* In a well-formed table the chains of different owners are disjoint.
LEMMA WellFormedDisjoint ==
    ASSUME NEW t, NEW h, IsTable(t), WellFormed(t, h),
           NEW o \in Owner, NEW q \in Owner, o # q
    PROVE  Clusters(t, h[o]) \cap Clusters(t, h[q]) = {}
<1>1. CASE h[o] = 0 \/ h[q] = 0
  BY <1>1, NoChain
<1>2. CASE h[o] # 0 /\ h[q] # 0
  <2>1. h[o] # h[q]
    BY <1>2 DEF WellFormed, HeadsDiffer
  <2>2. \A e \in Entry : t[e] # h[o] /\ t[e] # h[q]
    BY <1>2 DEF WellFormed, HeadsFirst
  <2> SUFFICES ASSUME NEW c \in Clusters(t, h[o]), c \in Clusters(t, h[q])
               PROVE  FALSE
    OBVIOUS
  <2>3. PICK i \in Entry : c = Walk(t, h[o])[i] /\ c \in Data
    BY <1>2, OwnerChain
  <2>4. PICK j \in Entry : c = Walk(t, h[q])[j]
    BY <1>2, OwnerChain
  <2>5. Reserved(t) /\ OnePredecessor(t)
    BY DEF WellFormed
  <2>6. \A m, n \in Nat : Walk(t, h[o])[m] = Walk(t, h[q])[n] /\ Walk(t, h[o])[m] \in Data
                              => h[o] = h[q] /\ m = n
    BY <2>2, <2>5, WalksMeet
  <2> QED
    BY <2>1, <2>3, <2>4, <2>6, Numbers
<1> QED
  BY <1>1, <1>2

-----------------------------------------------------------------------------
(***************************************************************************)
(* What the writes of the actions keep.                                    *)
(***************************************************************************)

\* The table after freeing some entries and marking others as last.
CutTable(t, gone, marked) ==
    [c \in Entry |-> IF c \in gone THEN 0 ELSE IF c \in marked THEN EOC ELSE t[c]]

\* Freeing a set of entries and marking others keeps a table well formed
\* when every link into the freed set comes from a freed or marked entry and
\* no remaining first cluster is freed (resize that shrinks, freeClus).
LEMMA CutKeepsWellFormed ==
    ASSUME NEW t, NEW h, IsTable(t), WellFormed(t, h),
           NEW gone \in SUBSET Data, NEW marked \in SUBSET Data,
           \A e \in Entry : t[e] \in gone => e \in gone \cup marked,
           NEW k, \A o \in Owner : k[o] = 0 \/ (k[o] = h[o] /\ h[o] \notin gone)
    PROVE  /\ IsTable(CutTable(t, gone, marked))
           /\ WellFormed(CutTable(t, gone, marked), k)
<1> DEFINE u == CutTable(t, gone, marked)
<1> USE Numbers DEF WellFormed
<1>0. u = [c \in Entry |-> IF c \in gone THEN 0
                           ELSE IF c \in marked THEN EOC ELSE t[c]]
  BY DEF CutTable
<1> HIDE DEF u
<1>1. IsTable(u)
  BY <1>0 DEF IsTable
<1>2. Reserved(u)
  BY <1>0 DEF Reserved
<1>3. \A c \in Entry : u[c] \in Entry \ {0} =>
         c \notin gone /\ c \notin marked /\ u[c] = t[c]
  BY <1>0
<1>4. \A c \in Entry \ gone : t[c] # 0 => u[c] # 0
  BY <1>0
<1>5. LinksToUsed(u)
  <2> SUFFICES ASSUME NEW c \in Entry, u[c] \in Entry \ {0}
               PROVE  u[c] \in Data /\ u[u[c]] # 0
    BY DEF LinksToUsed
  <2>1. c \notin gone \cup marked /\ u[c] = t[c]
    BY <1>3
  <2>2. t[c] \in Data /\ t[t[c]] # 0
    BY <2>1 DEF LinksToUsed
  <2>3. t[c] \notin gone
    BY <2>1
  <2> QED
    BY <2>1, <2>2, <2>3, <1>4
<1>6. OnePredecessor(u)
  <2> SUFFICES ASSUME NEW c \in Entry, NEW d \in Entry, u[c] = u[d], u[c] \in Data
               PROVE  c = d
    BY DEF OnePredecessor
  <2>1. u[c] = t[c] /\ u[d] = t[d]
    BY <1>3
  <2> QED
    BY <2>1 DEF OnePredecessor
<1>7. HeadsUsed(u, k)
  BY <1>4 DEF HeadsUsed
<1>8. HeadsDiffer(u, k)
  BY DEF HeadsDiffer
<1>9. HeadsFirst(u, k)
  <2> SUFFICES ASSUME NEW o \in Owner, k[o] # 0, NEW c \in Entry, u[c] = k[o]
               PROVE  FALSE
    BY DEF HeadsFirst
  <2>1. k[o] = h[o] /\ h[o] \in Data
    BY DEF HeadsUsed
  <2>2. u[c] = t[c]
    BY <1>3, <2>1
  <2> QED
    BY <2>1, <2>2 DEF HeadsFirst
<1> QED
  BY <1>1, <1>2, <1>5, <1>6, <1>7, <1>8, <1>9 DEF u

\* The conditions on a list of new clusters: free data clusters, the first
\* one named apart from the rest.
NewClusters(t, first, rest) ==
    /\ rest \subseteq Data /\ first \in Data /\ first \notin rest
    /\ \A c \in rest \cup {first} : t[c] = 0

\* Linking new clusters: the first has no predecessor, each of the rest has
\* exactly one, and the old entries keep theirs (allocClus).
LEMMA LinkWrites ==
    ASSUME NEW t, IsTable(t), NEW first, NEW rest, NewClusters(t, first, rest)
    PROVE  /\ IsTable(Link(t, first, rest))
           /\ \A c \in Entry \ (rest \cup {first}) : Link(t, first, rest)[c] = t[c]
           /\ \A c \in rest \cup {first} :
                Link(t, first, rest)[c] = EOC \/ Link(t, first, rest)[c] \in rest
           /\ \A c, d \in rest \cup {first} :
                Link(t, first, rest)[c] = Link(t, first, rest)[d]
                  /\ Link(t, first, rest)[c] \in rest => c = d
<1> DEFINE u == Link(t, first, rest)
           later(c) == {d \in rest : c = first \/ d > c}
<1>0. rest \subseteq Nat /\ first \in Nat /\ first # 0 /\ rest \subseteq Entry /\ first \in Entry
  BY Numbers DEF NewClusters
<1>1. \A c \in Entry \ (rest \cup {first}) : u[c] = t[c]
  BY DEF Link
<1>2. \A c \in rest \cup {first} : u[c] = IF later(c) = {} THEN EOC ELSE Min(later(c))
  BY <1>0 DEF Link
<1>3. \A c \in rest \cup {first} : later(c) \in SUBSET Nat /\ later(c) \subseteq rest
  BY <1>0
<1>4. \A c \in rest \cup {first} : later(c) # {} =>
         Min(later(c)) \in later(c) /\ \A d \in later(c) : Min(later(c)) <= d
  BY <1>3, MinProperty
<1>m. DOMAIN u = Entry /\ u = [c \in Entry |-> u[c]]
  BY DEF Link
<1> HIDE DEF u
<1>5. \A c \in rest \cup {first} : u[c] = EOC \/ (u[c] \in rest /\ u[c] \in later(c))
  BY <1>2, <1>4
<1>6. IsTable(u)
  <2>1. \A c \in Entry : t[c] \in 0 .. EOC
    BY DEF IsTable
  <2>2. \A c \in rest \cup {first} : u[c] \in 0 .. EOC
    <3>1. EOC \in 0 .. EOC /\ rest \subseteq 0 .. EOC
      BY <1>0, SizesAssumption DEF Entry, EOC
    <3> QED
      BY <1>5, <3>1
  <2>3. \A c \in Entry : u[c] \in 0 .. EOC
    BY <1>1, <2>1, <2>2
  <2> QED
    BY <2>3, <1>m DEF IsTable
<1>7. ASSUME NEW c \in rest \cup {first}, NEW d \in rest \cup {first},
             u[c] = u[d], u[c] \in rest, c # d
      PROVE  FALSE
  <2>1. EOC \notin rest
    BY <1>0, Numbers
  <2>2. later(c) # {} /\ later(d) # {} /\ u[c] = Min(later(c)) /\ u[d] = Min(later(d))
    BY <1>2, <1>7, <2>1
  <2>3. /\ u[c] \in later(c) /\ u[c] \in later(d)
        /\ \A e \in later(c) : u[c] <= e
        /\ \A e \in later(d) : u[c] <= e
    BY <1>4, <1>7, <2>2
  <2>n. c \in Nat /\ d \in Nat /\ u[c] \in Nat
    BY <1>0, <1>7
  <2>4. CASE c = first
    <3>1. d \in rest /\ d # first
      BY <1>7, <2>4
    <3>2. d \in later(c) /\ u[c] > d
      BY <2>3, <2>4, <3>1
    <3>3. u[c] <= d
      BY <2>3, <3>2
    <3> QED
      BY <2>n, <3>2, <3>3
  <2>5. CASE d = first
    <3>1. c \in rest /\ c # first
      BY <1>7, <2>5
    <3>2. c \in later(d) /\ u[c] > c
      BY <2>3, <2>5, <3>1
    <3>3. u[c] <= c
      BY <2>3, <3>2
    <3> QED
      BY <2>n, <3>2, <3>3
  <2>6. CASE c # first /\ d # first
    <3>1. c \in rest /\ d \in rest /\ u[c] > c /\ u[c] > d
      BY <2>3, <2>6
    <3>2. d > c \/ c > d
      BY <2>n, <1>7
    <3>3. d \in later(c) \/ c \in later(d)
      BY <3>1, <3>2
    <3>4. u[c] <= d \/ u[c] <= c
      BY <2>3, <3>3
    <3> QED
      BY <2>n, <3>1, <3>4
  <2> QED
    BY <2>4, <2>5, <2>6
<1> QED
  BY <1>1, <1>5, <1>6, <1>7 DEF u

\* Linking new clusters keeps a table well formed and leaves the first of
\* them without a predecessor.
LEMMA LinkKeepsWellFormed ==
    ASSUME NEW t, NEW h, IsTable(t), WellFormed(t, h),
           NEW first, NEW rest, NewClusters(t, first, rest)
    PROVE  /\ IsTable(Link(t, first, rest))
           /\ WellFormed(Link(t, first, rest), h)
           /\ Link(t, first, rest)[first] # 0
           /\ \A c \in Entry : Link(t, first, rest)[c] # first
<1> DEFINE u == Link(t, first, rest)
           new == rest \cup {first}
<1>1. /\ IsTable(u)
      /\ \A c \in Entry \ new : u[c] = t[c]
      /\ \A c \in new : u[c] = EOC \/ u[c] \in rest
      /\ \A c, d \in new : u[c] = u[d] /\ u[c] \in rest => c = d
  BY LinkWrites
<1> HIDE DEF u
<1>2. /\ new \subseteq Data /\ first \in new /\ rest \subseteq new /\ first \notin rest
      /\ \A c \in new : t[c] = 0
  BY DEF NewClusters
<1> HIDE DEF new
<1>3. \A c \in Entry : t[c] \notin new
  BY <1>2, Numbers DEF WellFormed, LinksToUsed
<1>4. \A o \in Owner : h[o] \notin new
  BY <1>2, Numbers DEF WellFormed, HeadsUsed
<1>5. \A c \in Entry : t[c] # 0 => u[c] = t[c]
  BY <1>1, <1>2
<1>6. \A c \in new : u[c] # 0
  BY <1>1, <1>2, Numbers
<1>7. \A c \in Entry : u[c] # first
  BY <1>1, <1>2, <1>3, Numbers
<1>8. Reserved(u)
  BY <1>1, <1>2, Numbers DEF WellFormed, Reserved
<1>9. LinksToUsed(u)
  <2> SUFFICES ASSUME NEW c \in Entry, u[c] \in Entry \ {0}
               PROVE  u[c] \in Data /\ u[u[c]] # 0
    BY DEF LinksToUsed
  <2>1. CASE c \in new
    BY <1>1, <1>2, <1>6, <2>1, Numbers
  <2>2. CASE c \notin new
    BY <1>1, <1>5, <2>2, Numbers DEF WellFormed, LinksToUsed
  <2> QED
    BY <2>1, <2>2
<1>10. OnePredecessor(u)
  <2> SUFFICES ASSUME NEW c \in Entry, NEW d \in Entry, u[c] = u[d], u[c] \in Data
               PROVE  c = d
    BY DEF OnePredecessor
  <2>1. CASE c \in new /\ d \in new
    BY <1>1, <2>1, Numbers
  <2>2. CASE c \notin new /\ d \notin new
    BY <1>1, <2>2 DEF WellFormed, OnePredecessor
  <2>a. \A e \in new : u[e] \in Data => u[e] \in new
    BY <1>1, <1>2, Numbers
  <2>b. \A e \in Entry \ new : u[e] \notin new
    BY <1>1, <1>3
  <2>3. CASE c \in new /\ d \notin new
    BY <2>3, <2>a, <2>b
  <2>4. CASE c \notin new /\ d \in new
    BY <2>4, <2>a, <2>b
  <2> QED
    BY <2>1, <2>2, <2>3, <2>4
<1>11. HeadsUsed(u, h)
  BY <1>5, Numbers DEF WellFormed, HeadsUsed
<1>12. HeadsDiffer(u, h)
  BY DEF WellFormed, HeadsDiffer
<1>13. HeadsFirst(u, h)
  <2> SUFFICES ASSUME NEW o \in Owner, h[o] # 0, NEW c \in Entry, u[c] = h[o]
               PROVE  FALSE
    BY DEF HeadsFirst
  <2>1. CASE c \in new
    BY <1>1, <1>2, <1>4, <2>1, Numbers DEF WellFormed, HeadsUsed
  <2>2. CASE c \notin new
    BY <1>1, <2>2 DEF WellFormed, HeadsFirst
  <2> QED
    BY <2>1, <2>2
<1> QED
  BY <1>1, <1>2, <1>6, <1>7, <1>8, <1>9, <1>10, <1>11, <1>12, <1>13
     DEF WellFormed, u

-----------------------------------------------------------------------------
(***************************************************************************)
(* Type correctness.                                                       *)
(***************************************************************************)
Counts == 0 .. Word - 1

\* The counter never leaves the range of its type, whatever is added.
LEMMA CountTypes ==
    /\ \A t : Cardinality(Seen(t)) \in Counts
    /\ \A a \in Counts \cup {Unknown} : \A n \in Int :
          AvailPlus(a, n) \in Counts \cup {Unknown}
<1>1. ASSUME NEW t PROVE Cardinality(Seen(t)) \in Counts
  <2>1. /\ IsFiniteSet(0 .. CountOfClusters - 1)
        /\ Cardinality(0 .. CountOfClusters - 1) = CountOfClusters
    BY FS_Interval, SizesAssumption
  <2>2. Seen(t) \in SUBSET (0 .. CountOfClusters - 1)
    BY DEF Seen
  <2>3. IsFiniteSet(Seen(t)) /\ Cardinality(Seen(t)) <= CountOfClusters
    BY <2>1, <2>2, FS_Subset
  <2>4. Cardinality(Seen(t)) \in Nat
    BY <2>3, FS_CardinalityType
  <2> QED
    BY <2>3, <2>4, SizesAssumption DEF Counts
<1>2. ASSUME NEW a \in Counts, NEW n \in Int PROVE (a + n) % Word \in Counts
  BY SizesAssumption DEF Counts
<1> QED
  BY <1>1, <1>2 DEF AvailPlus

\* The number of clusters of an owner is a natural number.
LEMMA SizeType == \A o \in Owner : Size(o) \in Nat
<1> TAKE o \in Owner
<1>1. IsFiniteSet(Entry)
  BY FS_Interval, SizesAssumption DEF Entry
<1>2. Clusters(fat, fst[o]) \in SUBSET Entry
  BY DEF Clusters
<1> QED
  BY <1>1, <1>2, FS_Subset, FS_CardinalityType DEF Size

\* What an allocation takes from the scan was free, and its first cluster is
\* the hint or the lowest of them.
LEMMA PickedFree ==
    ASSUME TypeOK, NEW n \in Int, n > 0, ~RunsOut(n)
    PROVE  /\ Rest(n) \subseteq Seen(fat) /\ First(n) \notin Rest(n)
           /\ First(n) \in Entry
           /\ IF Hinted THEN First(n) = hint ELSE First(n) \in Seen(fat)
<1>1. Scanned \subseteq Seen(fat)
  BY DEF Scanned
<1>2. Picked(n) \subseteq Scanned
  BY DEF Picked
<1>3. Seen(fat) \subseteq Entry /\ Seen(fat) \subseteq Nat
  BY SizesAssumption DEF Seen, Entry
<1>4. CASE Hinted
  <2>1. hint \in Entry
    BY <1>4 DEF TypeOK, Hinted
  <2> QED
    BY <1>1, <1>2, <1>4, <2>1 DEF First, Rest
<1>5. CASE ~Hinted
  <2>1. Scanned # {}
    <3>1. Cardinality(Scanned) >= n \/ Scanned # {}
      <4>1. SUFFICES ASSUME Scanned = {} PROVE FALSE
        OBVIOUS
      <4>2. Cardinality(Scanned) = 0
        BY <4>1, FS_EmptySet
      <4> QED
        BY <1>5, <4>2 DEF RunsOut, Wanted
    <3>2. Scanned = {} => Cardinality(Scanned) = 0
      BY FS_EmptySet
    <3> QED
      BY <3>1, <3>2
  <2>2. Min(Scanned) \in Scanned /\ \A d \in Scanned : Min(Scanned) <= d
    BY <1>1, <1>3, <2>1, MinProperty
  <2>3. {d \in Scanned : d < Min(Scanned)} = {}
    BY <1>1, <1>3, <2>2
  <2>4. Cardinality({d \in Scanned : d < Min(Scanned)}) < Wanted(n)
    BY <1>5, <2>3, FS_EmptySet DEF Wanted
  <2>5. Min(Scanned) \in Picked(n)
    BY <2>2, <2>4 DEF Picked
  <2>6. Min(Picked(n)) \in Picked(n)
    BY <1>1, <1>2, <1>3, <2>5, MinProperty
  <2> QED
    BY <1>1, <1>2, <1>3, <1>5, <2>6 DEF First, Rest
<1> QED
  BY <1>4, <1>5

\* A linked table is a table, whatever the first cluster is.
LEMMA LinkType ==
    ASSUME NEW t, IsTable(t), NEW first \in Entry, NEW rest \in SUBSET Entry
    PROVE  IsTable(Link(t, first, rest))
<1>1. ASSUME NEW c \in Entry
      PROVE  LET later == {d \in rest : c = first \/ d > c}
             IN  (IF later = {} THEN EOC ELSE Min(later)) \in 0 .. EOC
  <2> DEFINE later == {d \in rest : c = first \/ d > c}
  <2>1. later \in SUBSET Nat /\ later \subseteq Entry
    BY Numbers
  <2>2. later # {} => Min(later) \in later
    BY <2>1, MinProperty
  <2>3. EOC \in 0 .. EOC /\ Entry \subseteq 0 .. EOC
    BY SizesAssumption DEF Entry, EOC
  <2> QED
    BY <2>1, <2>2, <2>3
<1> QED
  BY <1>1 DEF Link, IsTable

\* The variables keep the types of the fields they model, on every volume.
LEMMA TypeInit == Init => TypeOK
<1> SUFFICES ASSUME Init PROVE TypeOK
  OBVIOUS
<1>1. PICK im \in Images : fat = im.fat /\ fst = im.fst /\ hint = im.free_count
  BY DEF Init
<1>2. /\ im.fat \in [Entry -> 0 .. EOC]
      /\ im.fst \in [Owner -> {0} \cup Data]
      /\ im.free_count \in Entry \cup {Unknown}
  BY ImagesAssumption
<1>3. {0} \cup Data \subseteq Entry
  BY Numbers
<1>4. im.fst \in [Owner -> Entry]
  BY <1>2, <1>3
<1> QED
  BY <1>1, <1>2, <1>4 DEF TypeOK, Init

\* Every step keeps the types.
LEMMA TypeNext == TypeOK /\ [Next]_vars => TypeOK'
<1> SUFFICES ASSUME TypeOK, [Next]_vars PROVE TypeOK'
  OBVIOUS
<1>a. avail \in Counts \cup {Unknown} /\ availClusCnt \in Counts
  BY CountTypes DEF TypeOK, availClusCnt, Counts
<1>b. \A n \in Int : /\ AvailPlus(avail, n) \in Counts \cup {Unknown}
                     /\ AvailPlus(availClusCnt, n) \in Counts \cup {Unknown}
  BY <1>a, CountTypes
<1>c. IsTable(fat) /\ \A o \in Owner : fst[o] \in Entry
  BY DEF TypeOK, IsTable
<1>d. 0 \in 0 .. EOC /\ EOC \in 0 .. EOC
  BY SizesAssumption DEF EOC
<1>1. ASSUME NEW o \in Owner, NEW n \in 0 .. MaxRequest, Shrink(o, n) PROVE TypeOK'
  <2>1. n - Size(o) \in Int
    BY SizeType
  <2>2. avail' \in Counts \cup {Unknown}
    BY <1>1, <1>b, <2>1 DEF Shrink
  <2>3. fat' \in [Entry -> 0 .. EOC]
    BY <1>1, <1>c, <1>d DEF Shrink, IsTable
  <2>4. fst' \in [Owner -> Entry]
    BY <1>1, Numbers DEF Shrink, TypeOK
  <2> QED
    BY <1>1, <2>2, <2>3, <2>4 DEF Shrink, TypeOK, Counts
<1>2. ASSUME NEW o \in Owner, NEW n \in 0 .. MaxRequest, GrowRefused(o, n) PROVE TypeOK'
  BY <1>2, <1>a DEF GrowRefused, TypeOK, Counts
<1>3. ASSUME NEW o \in Owner, NEW n \in 0 .. MaxRequest, Grow(o, n) PROVE TypeOK'
  <2> DEFINE more == n - Size(o)
             linked == Link(fat, First(more), Rest(more))
  <2>1. more \in Int /\ more > 0 /\ ~RunsOut(more) /\ -more \in Int
    BY <1>3, SizeType DEF Grow
  <2>2. First(more) \in Entry /\ Rest(more) \in SUBSET Entry
    BY <2>1, PickedFree, SizesAssumption DEF Seen, Entry
  <2>3. IsTable(linked)
    BY <1>c, <2>2, LinkType
  <2>4. First(more) \in 0 .. EOC
    BY <2>2, SizesAssumption DEF Entry, EOC
  <2>5. avail' \in Counts \cup {Unknown}
    BY <1>3, <1>b, <2>1 DEF Grow
  <2>6. \/ fat' = linked /\ fst' = [fst EXCEPT ![o] = First(more)]
        \/ fst' = fst /\ \E p \in Clusters(fat, fst[o]) :
                            fat' = [linked EXCEPT ![p] = First(more)]
    BY <1>3 DEF Grow
  <2>7. fat' \in [Entry -> 0 .. EOC] /\ fst' \in [Owner -> Entry]
    BY <2>2, <2>3, <2>4, <2>6 DEF IsTable, TypeOK
  <2> QED
    BY <1>3, <2>5, <2>7 DEF Grow, TypeOK, Counts
<1>4. ASSUME NEW o \in Owner, NEW n \in 0 .. MaxRequest, GrowAborts(o, n) PROVE TypeOK'
  BY <1>4 DEF GrowAborts, TypeOK
<1>5. ASSUME NEW o \in Owner, FreeClus(o) PROVE TypeOK'
  <2>1. Cardinality(Clusters(fat, fst[o])) \in Int
    BY SizeType DEF Size
  <2>2. avail' \in Counts \cup {Unknown}
    BY <1>5, <1>b, <2>1 DEF FreeClus
  <2>3. fat' \in [Entry -> 0 .. EOC]
    BY <1>5, <1>c, <1>d DEF FreeClus, IsTable
  <2> QED
    BY <1>5, <2>2, <2>3, Numbers DEF FreeClus, TypeOK, Counts
<1>6. ASSUME NEW o \in Owner, NEW q \in Owner, ExchangeMetaData(o, q) PROVE TypeOK'
  BY <1>6 DEF ExchangeMetaData, TypeOK
<1>7. CASE Statfs
  BY <1>7, <1>a DEF Statfs, TypeOK, Counts
<1>8. CASE Remount
  BY <1>8 DEF Remount, TypeOK
<1>9. CASE UNCHANGED vars
  BY <1>9 DEF vars, TypeOK
<1> QED
  BY <1>1, <1>2, <1>3, <1>4, <1>5, <1>6, <1>7, <1>8, <1>9 DEF Next

\* Type correctness of the whole specification.
THEOREM TypeCorrect == Spec => []TypeOK
BY TypeInit, TypeNext, PTL DEF Spec

-----------------------------------------------------------------------------
(***************************************************************************)
(* Chains stay disjoint.  Disjointness alone is not inductive: a table may *)
(* have disjoint chains and a link into a free cluster, which the next     *)
(* allocation joins.  The invariant below says where links and first       *)
(* clusters may point, cluster by cluster.                                 *)
(***************************************************************************)
IInv == TypeOK /\ WellFormed(fat, fst) /\ FreeHint(fat, hint)

\* A volume whose free_count is trusted starts well formed.
LEMMA ChainsInit == TrustedHints /\ Init => IInv
BY TypeInit, ImagesAssumption DEF TrustedHints, Init, IInv

\* Truncating to n clusters: a link into the part cut off comes from the
\* part cut off or from the n-th cluster.
LEMMA ShrinkKeeps ==
    ASSUME IInv, NEW o \in Owner, NEW n \in Nat, Shrink(o, n)
    PROVE  WellFormed(fat', fst')
<1> DEFINE at == Walk(fat, fst[o])
           gone == {at[i] : i \in n .. Size(o) - 1} \cap Data
           marked == IF n > 0 THEN {at[n - 1]} \cap Data ELSE {}
<1>t. IsTable(fat) /\ WellFormed(fat, fst) /\ fst \in [Owner -> Entry]
  BY DEF IInv, TypeOK, IsTable
<1>s. Size(o) \in Nat
  BY SizeType
<1>1. fat' = CutTable(fat, gone, marked)
  <2>1. CASE fst[o] = 0
    <3>1. Size(o) = 0 /\ n = 0
      <4>1. Size(o) = 0
        BY <2>1, NoChain, FS_EmptySet DEF Size
      <4> QED
        BY <4>1 DEF Shrink
    <3>2. {at[i] : i \in n .. Size(o) - 1} = {}
      BY <3>1
    <3> QED
      BY <3>1, <3>2 DEF Shrink, CutTable
  <2>2. CASE fst[o] # 0
    <3>1. \A i \in Nat : at[i] \in Data \/ at[i] = EOC
      BY <1>t, <2>2, WalkVisitsUsed DEF WellFormed, HeadsUsed
    <3> HIDE DEF at
    <3>2. \A c \in Entry : c \in {at[i] : i \in n .. Size(o) - 1} <=> c \in gone
      <4>1. \A i \in n .. Size(o) - 1 : i \in Nat
        BY <1>s
      <4> QED
        BY <3>1, <4>1, Numbers
    <3>3. \A c \in Entry : n > 0 /\ c = at[n - 1] <=> c \in marked
      <4>1. n > 0 => n - 1 \in Nat
        OBVIOUS
      <4> QED
        BY <3>1, <4>1, Numbers
    <3>4. fat' = [c \in Entry |-> IF c \in {at[i] : i \in n .. Size(o) - 1} THEN 0
                                  ELSE IF n > 0 /\ c = at[n - 1] THEN EOC
                                  ELSE fat[c]]
      BY DEF Shrink, at
    <3> HIDE DEF gone, marked
    <3> QED
      BY <3>2, <3>3, <3>4 DEF CutTable
  <2> QED
    BY <2>1, <2>2
<1>2. \A e \in Entry : fat[e] \in gone => e \in gone \cup marked
  <2> SUFFICES ASSUME NEW e \in Entry, fat[e] \in gone PROVE e \in gone \cup marked
    OBVIOUS
  <2>1. PICK i \in n .. Size(o) - 1 : fat[e] = at[i] /\ at[i] \in Data
    OBVIOUS
  <2>2. i \in Nat /\ fst[o] # 0
    <3>1. fst[o] = 0 => Size(o) = 0
      BY NoChain, FS_EmptySet DEF Size
    <3> QED
      BY <1>s, <2>1, <3>1
  <2>3. at[0] = fst[o]
    BY WalkUnfold
  <2>4. i # 0
    BY <1>t, <2>1, <2>2, <2>3 DEF WellFormed, HeadsFirst
  <2>5. i - 1 \in Nat /\ at[i - 1] \in Entry /\ at[i] = fat[at[i - 1]]
    BY <2>1, <2>2, <2>4, WalkBack
  <2>6. e = at[i - 1]
    BY <1>t, <2>1, <2>5 DEF WellFormed, OnePredecessor
  <2>7. e \in Data
    BY <1>t, <2>1, Numbers DEF WellFormed, Reserved
  <2>8. CASE i = n
    BY <2>4, <2>6, <2>7, <2>8
  <2>9. CASE i # n
    <3>1. i - 1 \in n .. Size(o) - 1
      BY <1>s, <2>1, <2>5, <2>9
    <3> QED
      BY <2>6, <2>7, <3>1
  <2> QED
    BY <2>8, <2>9
<1>3. \A q \in Owner : fst'[q] = 0 \/ (fst'[q] = fst[q] /\ fst[q] \notin gone)
  <2> SUFFICES ASSUME NEW q \in Owner, fst'[q] # 0, fst[q] \in gone PROVE FALSE
    BY <1>t DEF Shrink
  <2>1. PICK i \in n .. Size(o) - 1 : fst[q] = at[i] /\ at[i] \in Data
    OBVIOUS
  <2>2. i \in Nat /\ fst[o] # 0 /\ fst[q] # 0
    <3>1. fst[o] = 0 => Size(o) = 0
      BY NoChain, FS_EmptySet DEF Size
    <3> QED
      BY <1>s, <2>1, <3>1, Numbers
  <2>3. \A e \in Entry : fat[e] # fst[q] /\ fat[e] # fst[o]
    BY <1>t, <2>2 DEF WellFormed, HeadsFirst
  <2>4. Reserved(fat) /\ OnePredecessor(fat)
    BY <1>t DEF WellFormed
  <2>5. \A k, j \in Nat : Walk(fat, fst[q])[k] = at[j] /\ Walk(fat, fst[q])[k] \in Data
                             => fst[q] = fst[o] /\ k = j
    BY <2>3, <2>4, WalksMeet
  <2>6. Walk(fat, fst[q])[0] = fst[q]
    BY WalkUnfold
  <2>7. fst[q] = fst[o] /\ i = 0
    BY <2>1, <2>2, <2>5, <2>6
  <2>8. q = o /\ n = 0
    BY <1>t, <2>1, <2>2, <2>7 DEF WellFormed, HeadsDiffer
  <2> QED
    BY <1>t, <2>8 DEF Shrink
<1>4. gone \in SUBSET Data /\ marked \in SUBSET Data
  OBVIOUS
<1> HIDE DEF gone, marked
<1> QED
  BY <1>t, <1>1, <1>2, <1>3, <1>4, CutKeepsWellFormed

\* Releasing a chain: a link into it comes from the chain itself.
LEMMA FreeKeeps ==
    ASSUME IInv, NEW o \in Owner, FreeClus(o)
    PROVE  WellFormed(fat', fst')
<1> DEFINE gone == Clusters(fat, fst[o])
           marked == {}
<1>t. IsTable(fat) /\ WellFormed(fat, fst) /\ fst \in [Owner -> Entry]
  BY DEF IInv, TypeOK, IsTable
<1>1. gone \in SUBSET Data
  <2>1. CASE fst[o] = 0
    BY <2>1, NoChain
  <2>2. CASE fst[o] # 0
    BY <1>t, <2>2, OwnerChain
  <2> QED
    BY <2>1, <2>2
<1>2. ASSUME NEW e \in Entry, fat[e] \in gone PROVE e \in gone
  <2>1. fst[o] # 0
    BY <1>2, NoChain
  <2>2. PICK i \in Entry : fat[e] = Walk(fat, fst[o])[i] /\ fat[e] \in Data
    BY <1>t, <1>2, <2>1, OwnerChain
  <2>3. Walk(fat, fst[o])[0] = fst[o]
    BY WalkUnfold
  <2>4. i # 0 /\ i \in Nat
    BY <1>t, <2>1, <2>2, <2>3, Numbers DEF WellFormed, HeadsFirst
  <2>5. /\ i - 1 \in Nat /\ Walk(fat, fst[o])[i - 1] \in Entry
        /\ Walk(fat, fst[o])[i] = fat[Walk(fat, fst[o])[i - 1]]
    BY <2>2, <2>4, WalkBack
  <2>6. e = Walk(fat, fst[o])[i - 1]
    BY <1>t, <2>2, <2>5 DEF WellFormed, OnePredecessor
  <2>7. e \in Data
    BY <1>t, <2>2, Numbers DEF WellFormed, Reserved
  <2>8. i - 1 \in Entry
    BY <2>2, <2>5, SizesAssumption DEF Entry
  <2> QED
    BY <1>t, <2>1, <2>6, <2>7, <2>8, OwnerChain
<1>3. \A q \in Owner : fst'[q] = 0 \/ (fst'[q] = fst[q] /\ fst[q] \notin gone)
  <2> SUFFICES ASSUME NEW q \in Owner, fst'[q] # 0 
               PROVE  fst'[q] = fst[q] /\ fst[q] \notin gone
    OBVIOUS
  <2>1. q # o /\ fst'[q] = fst[q] /\ fst[q] # 0
    BY <1>t DEF FreeClus
  <2>2. fst[q] \in Clusters(fat, fst[q])
    BY <1>t, <2>1, OwnerChain
  <2>3. Clusters(fat, fst[q]) \cap gone = {}
    BY <1>t, <2>1, WellFormedDisjoint
  <2> QED
    BY <2>1, <2>2, <2>3
<1>4. fat' = CutTable(fat, gone, marked)
  BY DEF FreeClus, CutTable
<1>5. \A e \in Entry : fat[e] \in gone => e \in gone \cup marked
  BY <1>2
<1>6. marked \in SUBSET Data
  OBVIOUS
<1> HIDE DEF gone, marked
<1> QED
  BY <1>t, <1>1, <1>3, <1>4, <1>5, <1>6, CutKeepsWellFormed

\* FAT::allocClus is given free data clusters.
LEMMA GrowsByFree ==
    ASSUME IInv, NEW o \in Owner, NEW n \in Nat, Grow(o, n)
    PROVE  NewClusters(fat, First(n - Size(o)), Rest(n - Size(o)))
<1> DEFINE more == n - Size(o)
<1>1. more \in Int /\ more > 0 /\ ~RunsOut(more) /\ TypeOK /\ FreeHint(fat, hint)
  BY SizeType DEF Grow, IInv
<1>2. \A c \in Seen(fat) : c \in Data /\ fat[c] = 0
  <2>1. \A c \in Seen(fat) : c \in Entry /\ fat[c] = 0
    BY SizesAssumption DEF Seen, Entry
  <2>2. QED
    BY <2>1, Numbers DEF IInv, WellFormed, Reserved
<1> HIDE DEF more
<1>3. First(more) \in Data /\ fat[First(more)] = 0
  <2>1. CASE Hinted
    BY <1>1, <2>1, PickedFree DEF FreeHint, Hinted
  <2>2. CASE ~Hinted
    BY <1>1, <1>2, <2>2, PickedFree
  <2>3. QED
    BY <2>1, <2>2
<1>4. NewClusters(fat, First(more), Rest(more))
  BY <1>1, <1>2, <1>3, PickedFree DEF NewClusters
<1>5. QED
  BY <1>4 DEF more

\* Growing: the new clusters were free, so nothing led to them, and the one
\* link or first cluster that now leads to them was an end mark or empty.
LEMMA GrowKeeps ==
    ASSUME IInv, NEW o \in Owner, NEW n \in Nat, Grow(o, n)
    PROVE  WellFormed(fat', fst')
<1> DEFINE more == n - Size(o)
           first == First(more)
           rest == Rest(more)
           linked == Link(fat, first, rest)
<1>t. /\ IsTable(fat) /\ WellFormed(fat, fst) /\ fst \in [Owner -> Entry]
      /\ TypeOK /\ FreeHint(fat, hint)
  BY DEF IInv, TypeOK, IsTable
<1>3. NewClusters(fat, first, rest)
  BY GrowsByFree
<1>4. first \in Data /\ fat[first] = 0
  BY <1>3 DEF NewClusters
<1>5. /\ \/ /\ isValidCluster(fst[o])
            /\ \E p \in Clusters(fat, fst[o]) :
                 isEndOfClusChain(fat[p]) /\ fat' = [linked EXCEPT ![p] = first]
            /\ fst' = fst
         \/ /\ ~isValidCluster(fst[o])
            /\ fat' = linked /\ fst' = [fst EXCEPT ![o] = first]
  BY DEF Grow
<1> HIDE DEF more, first, rest
<1>6. /\ IsTable(linked) /\ WellFormed(linked, fst) /\ linked[first] # 0
      /\ \A c \in Entry : linked[c] # first
  BY <1>t, <1>3, LinkKeepsWellFormed
<1>7. \A q \in Owner : fst[q] # first
  BY <1>t, <1>4, Numbers DEF WellFormed, HeadsUsed
<1>8. first \in Entry /\ first # 0
  BY <1>4, Numbers
<1> HIDE DEF linked
<1>9. CASE ~isValidCluster(fst[o])
  <2>1. fat' = linked /\ fst' = [fst EXCEPT ![o] = first]
    BY <1>5, <1>9
  <2>2. \A q \in Owner : fst'[q] = IF q = o THEN first ELSE fst[q]
    BY <1>t, <2>1
  <2>3. HeadsUsed(linked, fst')
    BY <1>4, <1>6, <2>2 DEF WellFormed, HeadsUsed
  <2>4. HeadsDiffer(linked, fst')
    BY <1>6, <1>7, <2>2 DEF WellFormed, HeadsDiffer
  <2>5. HeadsFirst(linked, fst')
    BY <1>6, <2>2 DEF WellFormed, HeadsFirst
  <2> QED
    BY <1>6, <2>1, <2>3, <2>4, <2>5 DEF WellFormed
<1>10. CASE isValidCluster(fst[o])
  <2>1. PICK p \in Clusters(fat, fst[o]) :
          isEndOfClusChain(fat[p]) /\ fat' = [linked EXCEPT ![p] = first]
    BY <1>5, <1>10
  <2>2. fst' = fst
    BY <1>5, <1>10
  <2>3. p \in Data /\ fat[p] # 0
    BY <1>t, <1>10, <2>1, OwnerChain DEF isValidCluster
  <2>4. \A c \in Entry : fat'[c] = IF c = p THEN first ELSE linked[c]
    BY <1>6, <2>1 DEF IsTable
  <2>5. p # first
    BY <1>4, <2>3
  <2>6. Reserved(fat')
    BY <1>6, <2>3, <2>4, Numbers DEF WellFormed, Reserved
  <2>7. \A c \in Entry : linked[c] # 0 => fat'[c] # 0
    BY <1>8, <2>4
  <2>8. LinksToUsed(fat')
    <3> SUFFICES ASSUME NEW c \in Entry, fat'[c] \in Entry \ {0}
                 PROVE  fat'[c] \in Data /\ fat'[fat'[c]] # 0
      BY DEF LinksToUsed
    <3>1. CASE c = p
      BY <1>4, <1>6, <1>8, <2>4, <2>7, <3>1
    <3>2. CASE c # p
      <4>1. fat'[c] = linked[c]
        BY <2>4, <3>2
      <4>2. linked[c] \in Data /\ linked[linked[c]] # 0
        BY <1>6, <4>1 DEF WellFormed, LinksToUsed
      <4> QED
        BY <2>7, <4>1, <4>2, Numbers
    <3> QED
      BY <3>1, <3>2
  <2>9. OnePredecessor(fat')
    BY <1>6, <2>4 DEF WellFormed, OnePredecessor
  <2>10. HeadsUsed(fat', fst)
    BY <1>6, <2>7, Numbers DEF WellFormed, HeadsUsed
  <2>11. HeadsDiffer(fat', fst)
    BY <1>6 DEF WellFormed, HeadsDiffer
  <2>12. HeadsFirst(fat', fst)
    BY <1>6, <1>7, <2>4 DEF WellFormed, HeadsFirst
  <2> QED
    BY <2>2, <2>6, <2>8, <2>9, <2>10, <2>11, <2>12 DEF WellFormed
<1> QED
  BY <1>9, <1>10

\* Every step keeps the invariant, the allocation included: it consumes the
\* hint, and no other step takes a free cluster.
LEMMA ChainsNext == IInv /\ [Next]_vars => IInv'
<1> SUFFICES ASSUME IInv, [Next]_vars PROVE IInv'
  OBVIOUS
<1>a. TypeOK' /\ TypeOK /\ WellFormed(fat, fst) /\ FreeHint(fat, hint)
  BY TypeNext DEF IInv
<1>b. \A n \in 0 .. MaxRequest : n \in Nat
  OBVIOUS
<1>c. ASSUME hint' = hint,
             \A c \in Entry : fat[c] = 0 => fat'[c] = 0
      PROVE  FreeHint(fat', hint')
  BY <1>a, <1>c, Numbers DEF FreeHint
<1>1. ASSUME NEW o \in Owner, NEW n \in 0 .. MaxRequest, Shrink(o, n) PROVE IInv'
  <2>1. WellFormed(fat', fst')
    BY <1>1, <1>b, ShrinkKeeps
  <2>2. \A c \in Entry : fat[c] = 0 => fat'[c] = 0
    <3> SUFFICES ASSUME NEW c \in Entry, fat[c] = 0, fat'[c] # 0 PROVE FALSE
      OBVIOUS
    <3>1. n > 0 /\ c = Walk(fat, fst[o])[n - 1]
      BY <1>1 DEF Shrink
    <3>2. fst[o] # 0
      <4>1. fst[o] = 0 => Size(o) = 0
        BY NoChain, FS_EmptySet DEF Size
      <4> QED
        BY <1>1, <3>1, <4>1 DEF Shrink
    <3>3. n - 1 \in Nat
      BY <3>1
    <3>4. \/ Walk(fat, fst[o])[n - 1] \in Data /\ fat[Walk(fat, fst[o])[n - 1]] # 0
          \/ Walk(fat, fst[o])[n - 1] = EOC
      <4>1. fst[o] \in Data /\ fat[fst[o]] # 0
        BY <1>a, <3>2 DEF WellFormed, HeadsUsed
      <4>2. IsTable(fat) /\ Reserved(fat) /\ LinksToUsed(fat)
        BY <1>a DEF WellFormed, TypeOK, IsTable
      <4> QED
        BY <3>3, <4>1, <4>2, WalkVisitsUsed
    <3> QED
      BY <3>1, <3>4, Numbers
  <2>3. FreeHint(fat', hint')
    BY <1>1, <1>c, <2>2 DEF Shrink
  <2> QED
    BY <1>a, <2>1, <2>3 DEF IInv
<1>2. ASSUME NEW o \in Owner, NEW n \in 0 .. MaxRequest, GrowRefused(o, n) PROVE IInv'
  BY <1>2, <1>a DEF GrowRefused, IInv
<1>3. ASSUME NEW o \in Owner, NEW n \in 0 .. MaxRequest, Grow(o, n) PROVE IInv'
  <2>1. WellFormed(fat', fst')
    BY <1>3, <1>b, GrowKeeps
  <2>2. FreeHint(fat', hint')
    BY <1>3 DEF Grow, FreeHint
  <2> QED
    BY <1>a, <2>1, <2>2 DEF IInv
<1>4. ASSUME NEW o \in Owner, NEW n \in 0 .. MaxRequest, GrowAborts(o, n) PROVE IInv'
  BY <1>4, <1>a DEF GrowAborts, IInv
<1>5. ASSUME NEW o \in Owner, FreeClus(o) PROVE IInv'
  <2>1. WellFormed(fat', fst')
    BY <1>5, FreeKeeps
  <2>2. FreeHint(fat', hint')
    BY <1>5, <1>c DEF FreeClus
  <2> QED
    BY <1>a, <2>1, <2>2 DEF IInv
<1>6. ASSUME NEW o \in Owner, NEW q \in Owner, ExchangeMetaData(o, q) PROVE IInv'
  <2>1. fat' = fat /\ hint' = hint /\ o # q /\ fst \in [Owner -> Entry]
    BY <1>6, <1>a DEF ExchangeMetaData, TypeOK
  <2>2. \A r \in Owner : fst'[r] = IF r = o THEN fst[q] ELSE IF r = q THEN fst[o] ELSE fst[r]
    BY <1>6, <2>1 DEF ExchangeMetaData
  <2>3. HeadsUsed(fat, fst') /\ HeadsDiffer(fat, fst') /\ HeadsFirst(fat, fst')
    BY <1>a, <2>1, <2>2 DEF WellFormed, HeadsUsed, HeadsDiffer, HeadsFirst
  <2>4. WellFormed(fat', fst')
    BY <1>a, <2>1, <2>3 DEF WellFormed
  <2> QED
    BY <1>a, <2>1, <2>4 DEF IInv
<1>7. CASE Statfs
  BY <1>7, <1>a DEF Statfs, IInv
<1>8. CASE Remount
  BY <1>8, <1>a DEF Remount, IInv, FreeHint
<1>9. CASE UNCHANGED vars
  BY <1>9, <1>a DEF vars, IInv
<1> QED
  BY <1>1, <1>2, <1>3, <1>4, <1>5, <1>6, <1>7, <1>8, <1>9 DEF Next

\* On volumes with a trusted free_count no sequence of truncates, unlinks,
\* renames and remounts makes two files share a cluster.
THEOREM NoCrossLinks ==
    ASSUME TrustedHints
    PROVE  Spec => []ChainsDisjoint
<1>1. Init => IInv
  BY TrustedHints, ChainsInit
<1>2. IInv => ChainsDisjoint
  BY WellFormedDisjoint DEF IInv, ChainsDisjoint, TypeOK, IsTable
<1> QED
  BY <1>1, <1>2, ChainsNext, PTL DEF Spec

-----------------------------------------------------------------------------
(***************************************************************************)
(* Chains as sequences.  In a well-formed table every walk from a first    *)
(* cluster ends, and what readClusChains returns is that walk.             *)
(***************************************************************************)
Members(s) == {s[i] : i \in 1 .. Len(s)}

IsChain(t, s) ==
    /\ s \in Seq(Data) /\ Len(s) > 0
    /\ \A i, j \in 1 .. Len(s) : s[i] = s[j] => i = j
    /\ \A i \in 1 .. Len(s) - 1 : t[s[i]] = s[i + 1]
    /\ t[s[Len(s)]] = EOC

\* A walk along a chain meets its clusters in order and then stays on the end
\* mark.
LEMMA ChainWalk ==
    ASSUME NEW t, IsTable(t), NEW s, IsChain(t, s)
    PROVE  \A n \in Nat : Walk(t, s[1])[n] = IF n < Len(s) THEN s[n + 1] ELSE EOC
<1> DEFINE w == Walk(t, s[1])
           l == Len(s)
           S == {n \in Nat : w[n] = IF n < l THEN s[n + 1] ELSE EOC}
<1>1. l \in Nat /\ l > 0 /\ \A i \in 1 .. l : s[i] \in Data
  BY DEF IsChain
<1>2. w[0] = s[1] /\ \A n \in Nat : w[n + 1] = IF w[n] \in Entry THEN t[w[n]] ELSE EOC
  BY WalkUnfold
<1>3. (\A i \in 1 .. l - 1 : t[s[i]] = s[i + 1]) /\ t[s[l]] = EOC
  BY DEF IsChain
<1> HIDE DEF w, l
<1>4. 0 \in S
  BY <1>1, <1>2
<1>5. ASSUME NEW n \in S
      PROVE  n + 1 \in S
  <2>1. CASE n < l
    <3>1. w[n] = s[n + 1] /\ n + 1 \in 1 .. l
      BY <1>1, <2>1
    <3>2. w[n + 1] = t[s[n + 1]]
      BY <1>1, <1>2, <3>1, Numbers
    <3>3. CASE n + 1 < l
      <4>1. n + 1 \in 1 .. l - 1
        BY <1>1, <3>3
      <4>2. QED
        BY <1>3, <3>2, <3>3, <4>1
    <3>4. CASE ~(n + 1 < l)
      <4>1. n + 1 = l
        BY <1>1, <2>1, <3>4
      <4>2. QED
        BY <1>3, <3>2, <3>4, <4>1
    <3>5. QED
      BY <3>3, <3>4
  <2>2. CASE ~(n < l)
    <3>1. w[n + 1] = EOC /\ ~(n + 1 < l)
      BY <1>1, <1>2, <2>2, Numbers
    <3>2. QED
      BY <3>1
  <2>3. QED
    BY <2>1, <2>2
<1>6. S = Nat
  <2> HIDE DEF S
  <2>1. S \in SUBSET Nat
    BY DEF S
  <2>2. QED
    BY <1>4, <1>5, <2>1, NatInduct
<1>7. QED
  BY <1>6 DEF w, l

\* A chain has at most as many clusters as the volume, and readClusChains
\* returns it.
LEMMA ChainReads ==
    ASSUME NEW t, IsTable(t), NEW s, IsChain(t, s)
    PROVE  /\ Clusters(t, s[1]) = Members(s)
           /\ Cardinality(Clusters(t, s[1])) = Len(s)
           /\ readClusChains(t, s[1]) = s
           /\ Ends(t, s[1])
<1> DEFINE w == Walk(t, s[1])
           l == Len(s)
           C == {s[i] : i \in 1 .. l}
<1>1. /\ l \in Nat /\ l > 0 /\ s \in Seq(Data) /\ \A i \in 1 .. l : s[i] \in Data
      /\ \A i, j \in 1 .. l : s[i] = s[j] => i = j
      /\ t[s[l]] = EOC
  BY DEF IsChain
<1>2. IsFiniteSet(C) /\ Cardinality(C) = l
  <2>1. \A i \in 1 .. l : s[i] \in C
    OBVIOUS
  <2>2. \A x \in C : \E i \in 1 .. l : s[i] = x
    OBVIOUS
  <2> HIDE DEF l, C
  <2>3. QED
    BY <1>1, <2>1, <2>2, CountImage
<1>3. l <= CountOfClusters
  <2>1. IsFiniteSet(Data) /\ Cardinality(Data) = CountOfClusters
    BY FS_Interval, SizesAssumption DEF Data
  <2>2. C \in SUBSET Data
    BY <1>1
  <2> HIDE DEF C
  <2>3. QED
    BY <1>2, <2>1, <2>2, FS_Subset
<1>4. \A n \in Nat : w[n] = IF n < l THEN s[n + 1] ELSE EOC
  BY ChainWalk
<1> HIDE DEF w, l
<1>5. Clusters(t, s[1]) = C
  <2>1. isValidCluster(s[1])
    BY <1>1, Numbers DEF isValidCluster
  <2>2. Clusters(t, s[1]) = {w[n] : n \in Entry} \cap Entry
    BY <2>1 DEF Clusters, w
  <2>3. ASSUME NEW i \in 1 .. l
        PROVE  s[i] \in {w[n] : n \in Entry} \cap Entry
    <3>1. i - 1 \in Entry /\ i - 1 < l /\ (i - 1) + 1 = i /\ i - 1 \in Nat
      BY <1>1, <1>3, SizesAssumption DEF Entry
    <3>2. w[i - 1] = s[i]
      BY <1>4, <3>1
    <3>3. s[i] \in Entry
      BY <1>1, Numbers
    <3>4. s[i] \in {w[n] : n \in Entry}
      BY <3>1, <3>2
    <3>5. QED
      BY <3>3, <3>4
  <2>4. ASSUME NEW n \in Entry, w[n] \in Entry
        PROVE  w[n] \in C
    <3>1. n \in Nat /\ n < l
      BY <1>4, <2>4, Numbers
    <3>2. n + 1 \in 1 .. l /\ w[n] = s[n + 1]
      BY <1>1, <1>4, <3>1
    <3>3. QED
      BY <3>2
  <2>5. QED
    BY <2>2, <2>3, <2>4
<1>6. readClusChains(t, s[1]) = s
  <2>1. readClusChains(t, s[1]) = [i \in 1 .. l |-> w[i - 1]]
    BY <1>2, <1>5 DEF readClusChains, w
  <2>2. \A i \in 1 .. l : w[i - 1] = s[i]
    <3>1. ASSUME NEW i \in 1 .. l
          PROVE  w[i - 1] = s[i]
      <4>1. i - 1 \in Nat /\ i - 1 < l /\ (i - 1) + 1 = i
        BY <1>1
      <4>2. QED
        BY <1>4, <4>1
    <3>2. QED
      BY <3>1
  <2>3. s = [i \in 1 .. l |-> s[i]]
    BY <1>1 DEF l
  <2>4. QED
    BY <2>1, <2>2, <2>3
<1>7. Ends(t, s[1])
  <2>1. s[l] \in C
    BY <1>1
  <2>2. isEndOfClusChain(t[s[l]])
    BY <1>1, Numbers DEF isEndOfClusChain
  <2>3. QED
    BY <1>5, <2>1, <2>2 DEF Ends
<1>8. QED
  BY <1>2, <1>5, <1>6, <1>7 DEF l, Members

\* Every first cluster of a well-formed table begins a chain: the walk cannot
\* come back to a cluster, so it ends before it has met them all.
LEMMA ChainExists ==
    ASSUME NEW t, NEW h, IsTable(t), WellFormed(t, h), NEW o \in Owner, h[o] # 0
    PROVE  \E s : IsChain(t, s) /\ s[1] = h[o]
<1> DEFINE w == Walk(t, h[o])
           S == {n \in Nat : w[n] = EOC}
           N == CountOfClusters
<1>1. h[o] \in Data /\ t[h[o]] # 0 /\ \A e \in Entry : t[e] # h[o]
  BY DEF WellFormed, HeadsUsed, HeadsFirst
<1>2. Reserved(t) /\ OnePredecessor(t) /\ LinksToUsed(t)
  BY DEF WellFormed
<1>3. \A n \in Nat : (w[n] \in Data /\ t[w[n]] # 0) \/ w[n] = EOC
  BY <1>1, <1>2, WalkVisitsUsed
<1>4. \A i, j \in Nat : w[i] = w[j] /\ w[i] \in Data => i = j
  BY <1>1, <1>2, WalksMeet
<1>5. w[0] = h[o] /\ \A n \in Nat : w[n + 1] = IF w[n] \in Entry THEN t[w[n]] ELSE EOC
  BY WalkUnfold
<1> HIDE DEF w
<1>6. S # {}
  <2>1. SUFFICES ASSUME \A n \in Nat : w[n] \in Data
                 PROVE  FALSE
    BY <1>3
  <2> DEFINE C == {w[i] : i \in 1 .. N + 1}
  <2>2. N \in Nat /\ N + 1 \in Nat /\ \A i \in 1 .. N + 1 : i \in Nat
    BY SizesAssumption
  <2>3. \A i \in 1 .. N + 1 : w[i] \in C
    OBVIOUS
  <2>4. \A i, j \in 1 .. N + 1 : w[i] = w[j] => i = j
    BY <1>4, <2>1, <2>2
  <2>5. \A x \in C : \E i \in 1 .. N + 1 : w[i] = x
    OBVIOUS
  <2>6. C \in SUBSET Data
    BY <2>1, <2>2
  <2> HIDE DEF C
  <2>7. Cardinality(C) = N + 1
    BY <2>2, <2>3, <2>4, <2>5, CountImage
  <2>8. IsFiniteSet(Data) /\ Cardinality(Data) = N
    BY FS_Interval, SizesAssumption DEF Data
  <2>9. Cardinality(C) <= N
    BY <2>6, <2>8, FS_Subset
  <2>10. QED
    BY <2>2, <2>7, <2>9
<1>7. PICK l \in S : \A n \in S : l <= n
  <2>1. S \in SUBSET Nat
    OBVIOUS
  <2> HIDE DEF S
  <2>2. QED
    BY <1>6, <2>1, LeastElement
<1>8. l \in Nat /\ l # 0 /\ w[l] = EOC
  BY <1>1, <1>5, <1>7, Numbers
<1>9. \A n \in 0 .. l - 1 : n \in Nat /\ w[n] \in Data
  BY <1>3, <1>7, <1>8
<1> DEFINE s == [i \in 1 .. l |-> w[i - 1]]
<1>10. \A i \in 1 .. l : i - 1 \in 0 .. l - 1 /\ s[i] = w[i - 1]
  BY <1>8
<1>11. s \in Seq(Data) /\ Len(s) = l /\ s[1] = h[o]
  BY <1>5, <1>8, <1>9, <1>10
<1> HIDE DEF s
<1>12. \A i, j \in 1 .. l : s[i] = s[j] => i = j
  <2>1. ASSUME NEW i \in 1 .. l, NEW j \in 1 .. l, s[i] = s[j]
        PROVE  i = j
    <3>1. i - 1 = j - 1
      BY <1>4, <1>9, <1>10, <2>1
    <3>2. QED
      BY <1>8, <3>1
  <2>2. QED
    BY <2>1
<1>13. \A i \in 1 .. l : t[s[i]] = w[i]
  <2>1. ASSUME NEW i \in 1 .. l
        PROVE  t[s[i]] = w[i]
    <3>1. i - 1 \in 0 .. l - 1 /\ (i - 1) + 1 = i
      BY <1>8
    <3>2. i - 1 \in Nat /\ w[i - 1] \in Entry
      BY <1>9, <3>1, Numbers
    <3>3. QED
      BY <1>5, <1>10, <3>1, <3>2
  <2>2. QED
    BY <2>1
<1>14. \A i \in 1 .. l - 1 : t[s[i]] = s[i + 1]
  <2>1. ASSUME NEW i \in 1 .. l - 1
        PROVE  t[s[i]] = s[i + 1]
    <3>1. i \in 1 .. l /\ i + 1 \in 1 .. l /\ (i + 1) - 1 = i
      BY <1>8
    <3>2. QED
      BY <1>10, <1>13, <3>1
  <2>2. QED
    BY <2>1
<1>15. t[s[l]] = EOC
  BY <1>8, <1>13
<1>16. IsChain(t, s)
  BY <1>8, <1>11, <1>12, <1>14, <1>15 DEF IsChain
<1>17. QED
  BY <1>11, <1>16

\* The chain readClusChains returns for an owner.
LEMMA ChainOfOwner ==
    ASSUME NEW t, NEW h, IsTable(t), WellFormed(t, h), NEW o \in Owner
    PROVE  LET s == readClusChains(t, h[o])
           IN  /\ s \in Seq(Data) /\ \A i \in 1 .. Len(s) : s[i] \in Data /\ t[s[i]] # 0
               /\ \A i, j \in 1 .. Len(s) : s[i] = s[j] => i = j
               /\ Clusters(t, h[o]) = Members(s)
               /\ Cardinality(Clusters(t, h[o])) = Len(s)
               /\ Ends(t, h[o])
               /\ h[o] = 0 => s = <<>>
               /\ h[o] # 0 => IsChain(t, s) /\ s[1] = h[o]
<1> DEFINE s == readClusChains(t, h[o])
           C == Clusters(t, h[o])
           l == Len(s)
<1>1. CASE h[o] = 0
  <2>1. C = {} /\ s = <<>>
    BY <1>1, NoChain
  <2>2. Cardinality(C) = 0
    BY <2>1, FS_EmptySet
  <2>3. Ends(t, h[o])
    BY <1>1 DEF Ends, isValidCluster
  <2> HIDE DEF s, C
  <2>4. l = 0 /\ s \in Seq(Data)
    BY <2>1
  <2> HIDE DEF l
  <2>5. (\A i \in 1 .. l : s[i] \in Data /\ t[s[i]] # 0) /\ Members(s) = {}
    BY <2>4 DEF Members, l
  <2>6. \A i, j \in 1 .. l : s[i] = s[j] => i = j
    BY <2>4
  <2>7. QED
    BY <1>1, <2>1, <2>2, <2>3, <2>4, <2>5, <2>6 DEF s, C, l
<1>2. CASE h[o] # 0
  <2>1. PICK c : IsChain(t, c) /\ c[1] = h[o]
    BY <1>2, ChainExists
  <2>2. /\ s = c /\ Ends(t, h[o]) /\ C = Members(c)
        /\ Cardinality(C) = Len(c)
    BY <2>1, ChainReads
  <2>3. /\ c \in Seq(Data) /\ \A i \in 1 .. Len(c) : c[i] \in Data
        /\ \A i, j \in 1 .. Len(c) : c[i] = c[j] => i = j
    BY <2>1 DEF IsChain
  <2>4. \A i \in 1 .. Len(c) : t[c[i]] # 0
    <3>1. \A i \in 1 .. Len(c) : c[i] \in C
      BY <2>2 DEF Members
    <3>2. QED
      BY <1>2, <3>1, OwnerChain
  <2> HIDE DEF s, C, l
  <2>5. /\ s \in Seq(Data) /\ \A i \in 1 .. Len(s) : s[i] \in Data /\ t[s[i]] # 0
        /\ \A i, j \in 1 .. Len(s) : s[i] = s[j] => i = j
        /\ C = Members(s) /\ Cardinality(C) = Len(s)
        /\ IsChain(t, s) /\ s[1] = h[o]
    BY <2>1, <2>2, <2>3, <2>4
  <2>6. QED
    BY <1>2, <2>2, <2>5 DEF s, C
<1>3. QED
  BY <1>1, <1>2

\* A table that keeps the links of a chain keeps the chain.
LEMMA ChainStays ==
    ASSUME NEW t, NEW h, IsTable(t), WellFormed(t, h), NEW o \in Owner,
           NEW u, IsTable(u), \A c \in Clusters(t, h[o]) : u[c] = t[c]
    PROVE  readClusChains(u, h[o]) = readClusChains(t, h[o])
<1> DEFINE s == readClusChains(t, h[o])
<1>1. /\ Clusters(t, h[o]) = Members(s)
      /\ h[o] = 0 => s = <<>>
      /\ h[o] # 0 => IsChain(t, s) /\ s[1] = h[o]
  BY ChainOfOwner
<1> HIDE DEF s
<1>2. CASE h[o] = 0
  BY <1>2, NoChain
<1>3. CASE h[o] # 0
  <2>1. IsChain(t, s) /\ s[1] = h[o] /\ \A i \in 1 .. Len(s) : u[s[i]] = t[s[i]]
    BY <1>1, <1>3 DEF Members
  <2>2. Len(s) \in Nat /\ Len(s) \in 1 .. Len(s)
    BY <2>1 DEF IsChain
  <2>3. IsChain(u, s)
    BY <2>1, <2>2 DEF IsChain
  <2>4. QED
    BY <2>1, <2>3, ChainReads DEF s
<1>4. QED
  BY <1>2, <1>3

-----------------------------------------------------------------------------
(***************************************************************************)
(* What the operations do to the chains.                                   *)
(***************************************************************************)
ChainOf(o) == readClusChains(fat, fst[o])

\* The chains of a reachable table.
LEMMA ChainNow ==
    ASSUME IInv, NEW o \in Owner
    PROVE  /\ ChainOf(o) \in Seq(Data) /\ Len(ChainOf(o)) \in Nat
           /\ \A i \in 1 .. Len(ChainOf(o)) : ChainOf(o)[i] \in Data /\ fat[ChainOf(o)[i]] # 0
           /\ \A i, j \in 1 .. Len(ChainOf(o)) : ChainOf(o)[i] = ChainOf(o)[j] => i = j
           /\ Clusters(fat, fst[o]) = Members(ChainOf(o)) /\ Size(o) = Len(ChainOf(o))
           /\ Ends(fat, fst[o])
           /\ fst[o] = 0 => ChainOf(o) = <<>>
           /\ fst[o] # 0 => IsChain(fat, ChainOf(o)) /\ ChainOf(o)[1] = fst[o]
<1>1. IsTable(fat) /\ WellFormed(fat, fst)
  BY DEF IInv, TypeOK, IsTable
<1>2. QED
  BY <1>1, ChainOfOwner DEF ChainOf, Size

\* Its clusters are used entries of the table.
LEMMA ChainUsed ==
    ASSUME IInv, NEW o \in Owner, NEW c \in Clusters(fat, fst[o])
    PROVE  c \in Data /\ c \in Entry /\ fat[c] # 0
<1> DEFINE s == ChainOf(o)
<1>1. /\ \A i \in 1 .. Len(s) : s[i] \in Data /\ fat[s[i]] # 0
      /\ Clusters(fat, fst[o]) = Members(s)
  BY ChainNow
<1> HIDE DEF s
<1>2. PICK i \in 1 .. Len(s) : c = s[i]
  BY <1>1 DEF Members
<1>3. QED
  BY <1>1, <1>2, Numbers

\* On volumes with a trusted free_count every chain ends and runs over used
\* data clusters: no walk of freeClus, resize or readClusChains meets a freed
\* or a reserved entry, or runs for ever.
THEOREM ChainsAlwaysSound == TrustedHints => (Spec => []ChainsSound)
<1> SUFFICES ASSUME TrustedHints PROVE Spec => []ChainsSound
  OBVIOUS
<1>1. Init => IInv
  BY ChainsInit
<1>2. IInv => ChainsSound
  BY ChainNow, ChainUsed DEF ChainsSound
<1>3. QED
  BY <1>1, <1>2, ChainsNext, PTL DEF Spec

\* FAT::resize that shrinks cuts the chain to its first n clusters and frees
\* the others.
LEMMA ShrinkChains ==
    ASSUME IInv, NEW o \in Owner, NEW n \in Nat, Shrink(o, n)
    PROVE  /\ n <= Len(ChainOf(o)) /\ ChainOf(o)' = SubSeq(ChainOf(o), 1, n)
           /\ \A q \in Owner : q # o => ChainOf(q)' = ChainOf(q)
           /\ \A c \in Entry : fat'[c] = 0 <=>
                 fat[c] = 0 \/ \E i \in n + 1 .. Len(ChainOf(o)) : c = ChainOf(o)[i]
<1> DEFINE s == ChainOf(o)
           l == Len(s)
           at == Walk(fat, fst[o])
           cut == {at[i] : i \in n .. Size(o) - 1}
<1>t. /\ IsTable(fat) /\ WellFormed(fat, fst) /\ fst \in [Owner -> Entry]
      /\ TypeOK'
  <2>1. n \in 0 .. MaxRequest
    BY DEF Shrink, Request
  <2>2. Next
    BY <2>1 DEF Next
  <2>3. TypeOK'
    BY <2>2, TypeNext DEF IInv
  <2>4. QED
    BY <2>3 DEF IInv, TypeOK, IsTable
<1>1. /\ s \in Seq(Data) /\ l \in Nat /\ \A i \in 1 .. l : s[i] \in Data
      /\ \A i, j \in 1 .. l : s[i] = s[j] => i = j
      /\ Clusters(fat, fst[o]) = {s[i] : i \in 1 .. l} /\ Size(o) = l
      /\ fst[o] = 0 => s = <<>>
      /\ fst[o] # 0 => IsChain(fat, s) /\ s[1] = fst[o]
  BY ChainNow DEF Members
<1>2. /\ n <= l /\ IsTable(fat')
      /\ fat' = [c \in Entry |-> IF c \in cut THEN 0
                                 ELSE IF n > 0 /\ c = at[n - 1] THEN EOC ELSE fat[c]]
      /\ fst' = [fst EXCEPT ![o] = IF n = 0 THEN 0 ELSE @]
  BY <1>t, <1>1 DEF Shrink, TypeOK, IsTable
<1>3. \A i \in 1 .. l : at[i - 1] = s[i]
  <2>1. ASSUME NEW i \in 1 .. l
        PROVE  at[i - 1] = s[i]
    <3>1. i - 1 \in Nat /\ i - 1 < l /\ (i - 1) + 1 = i /\ fst[o] # 0
      BY <1>1
    <3>2. \A k \in Nat : Walk(fat, s[1])[k] = IF k < Len(s) THEN s[k + 1] ELSE EOC
      BY <1>t, <1>1, <3>1, ChainWalk
    <3>3. QED
      BY <1>1, <3>1, <3>2
  <2>2. QED
    BY <2>1
<1> HIDE DEF at
<1>4. cut = {s[i] : i \in n + 1 .. l}
  <2>1. ASSUME NEW i \in n .. l - 1
        PROVE  i + 1 \in n + 1 .. l /\ at[i] = s[i + 1]
    <3>1. i + 1 \in n + 1 .. l /\ i + 1 \in 1 .. l /\ (i + 1) - 1 = i
      BY <1>1
    <3>2. QED
      BY <1>3, <3>1
  <2>2. ASSUME NEW i \in n + 1 .. l
        PROVE  i - 1 \in n .. l - 1 /\ at[i - 1] = s[i]
    <3>1. i \in 1 .. l /\ i - 1 \in n .. l - 1
      BY <1>1
    <3>2. QED
      BY <1>3, <3>1
  <2>3. cut = {at[i] : i \in n .. l - 1}
    BY <1>1
  <2>4. \A x : x \in {at[i] : i \in n .. l - 1} => x \in {s[i] : i \in n + 1 .. l}
    BY <2>1
  <2>5. \A x : x \in {s[i] : i \in n + 1 .. l} => x \in {at[i] : i \in n .. l - 1}
    BY <2>2
  <2>6. QED
    BY <2>3, <2>4, <2>5
<1>5. n > 0 => n \in 1 .. l /\ at[n - 1] = s[n]
  BY <1>1, <1>2, <1>3
<1> HIDE DEF cut, s, l
<1>6. \A c \in Entry : c \notin {s[i] : i \in 1 .. l} => fat'[c] = fat[c]
  <2>1. \A i \in n + 1 .. l : i \in 1 .. l
    BY <1>1
  <2>2. QED
    BY <1>2, <1>4, <1>5, <2>1
<1>7. ASSUME NEW q \in Owner, q # o
      PROVE  ChainOf(q)' = ChainOf(q)
  <2>1. fst'[q] = fst[q]
    BY <1>t, <1>2, <1>7
  <2>2. Clusters(fat, fst[q]) \cap Clusters(fat, fst[o]) = {}
    BY <1>t, <1>7, WellFormedDisjoint
  <2>3. \A c \in Clusters(fat, fst[q]) : c \in Entry
    BY DEF Clusters
  <2>4. \A c \in Clusters(fat, fst[q]) : fat'[c] = fat[c]
    BY <1>1, <1>6, <2>2, <2>3
  <2>5. readClusChains(fat', fst[q]) = readClusChains(fat, fst[q])
    BY <1>t, <1>2, <2>4, ChainStays
  <2>6. QED
    BY <2>1, <2>5 DEF ChainOf
<1>8. ASSUME NEW c \in Entry
      PROVE  fat'[c] = 0 <=> fat[c] = 0 \/ \E i \in n + 1 .. l : c = s[i]
  <2>1. c \in cut => fat'[c] = 0
    BY <1>2
  <2>2. fat'[c] = 0 => c \in cut \/ fat[c] = 0
    BY <1>2, Numbers
  <2>3. fat[c] = 0 => fat'[c] = 0
    <3>1. fat[c] = 0 => c \notin {s[i] : i \in 1 .. l}
      BY ChainNow DEF s, l
    <3>2. QED
      BY <1>6, <3>1
  <2>4. QED
    BY <1>4, <2>1, <2>2, <2>3
<1> DEFINE p == SubSeq(s, 1, n)
<1>9. p \in Seq(Data) /\ Len(p) = n /\ \A i \in 1 .. n : p[i] = s[i]
  BY <1>1, <1>2
<1>10. ChainOf(o)' = p
  <2>1. CASE n = 0
    <3>1. fst'[o] = 0
      BY <1>t, <1>2, <2>1
    <3>2. p = <<>>
      BY <1>9, <2>1
    <3>3. QED
      BY <3>1, <3>2, NoChain DEF ChainOf
  <2>2. CASE n > 0
    <3>1. n \in 1 .. l /\ fst[o] # 0 /\ fst'[o] = fst[o]
      <4>1. s = <<>> => l = 0
        BY DEF l
      <4>2. QED
        BY <1>t, <1>1, <1>2, <1>5, <2>2, <4>1
    <3>2. IsChain(fat, s) /\ s[1] = fst[o] /\ \A i \in 1 .. l - 1 : fat[s[i]] = s[i + 1]
      BY <1>1, <3>1 DEF IsChain, l
    <3>3. ASSUME NEW i \in 1 .. n
          PROVE  s[i] \in Entry /\ s[i] \notin cut /\ i \in 1 .. l
      <4>1. i \in 1 .. l /\ \A j \in n + 1 .. l : j \in 1 .. l /\ j # i
        BY <1>1, <1>2
      <4>2. QED
        BY <1>1, <1>4, <4>1, Numbers
    <3>4. fat'[s[n]] = EOC
      <4>1. n \in 1 .. n
        BY <2>2
      <4>2. s[n] \in Entry /\ s[n] \notin cut
        BY <3>3, <4>1
      <4>3. QED
        BY <1>2, <1>5, <2>2, <4>2
    <3>5. ASSUME NEW i \in 1 .. n - 1
          PROVE  fat'[s[i]] = s[i + 1]
      <4>1. i \in 1 .. n /\ i # n /\ i \in 1 .. l - 1
        BY <1>1, <1>2
      <4>2. s[i] # s[n] /\ s[i] \in Entry /\ s[i] \notin cut
        BY <1>1, <3>1, <3>3, <4>1
      <4>3. QED
        BY <1>2, <1>5, <2>2, <3>2, <4>1, <4>2
    <3>6. \A i, j \in 1 .. n : p[i] = p[j] => i = j
      BY <1>1, <1>9, <3>3
    <3> HIDE DEF p
    <3>7. \A i \in 1 .. n - 1 : fat'[p[i]] = p[i + 1]
      <4>1. \A i \in 1 .. n - 1 : i \in 1 .. n /\ i + 1 \in 1 .. n
        OBVIOUS
      <4>2. QED
        BY <1>9, <3>5, <4>1
    <3>8. IsChain(fat', p) /\ p[1] = fst'[o]
      <4>1. 1 \in 1 .. n /\ n \in 1 .. n
        BY <2>2
      <4>2. QED
        BY <1>9, <2>2, <3>1, <3>2, <3>4, <3>6, <3>7, <4>1 DEF IsChain
    <3>9. QED
      BY <1>2, <3>8, ChainReads DEF ChainOf
  <2>3. QED
    BY <2>1, <2>2
<1>11. QED
  BY <1>2, <1>7, <1>8, <1>10 DEF s, l

\* FAT::freeClus gives the whole chain back.
LEMMA FreeChains ==
    ASSUME IInv, NEW o \in Owner, FreeClus(o)
    PROVE  /\ ChainOf(o)' = <<>>
           /\ \A q \in Owner : q # o => ChainOf(q)' = ChainOf(q)
           /\ \A c \in Entry : fat'[c] = 0 <=> fat[c] = 0 \/ c \in Clusters(fat, fst[o])
<1>1. /\ IsTable(fat) /\ WellFormed(fat, fst) /\ fst \in [Owner -> Entry]
      /\ TypeOK'
  BY TypeNext DEF IInv, TypeOK, IsTable, Next
<1>2. /\ fat' = [c \in Entry |-> IF c \in Clusters(fat, fst[o]) THEN 0 ELSE fat[c]]
      /\ fst' = [fst EXCEPT ![o] = 0] /\ IsTable(fat')
  BY <1>1 DEF FreeClus, TypeOK, IsTable
<1>3. ChainOf(o)' = <<>>
  BY <1>1, <1>2, NoChain DEF ChainOf
<1>4. ASSUME NEW q \in Owner, q # o
      PROVE  ChainOf(q)' = ChainOf(q)
  <2>1. fst'[q] = fst[q]
    BY <1>1, <1>2, <1>4
  <2>2. Clusters(fat, fst[q]) \cap Clusters(fat, fst[o]) = {}
    BY <1>1, <1>4, WellFormedDisjoint
  <2>3. \A c \in Clusters(fat, fst[q]) : c \in Entry
    BY DEF Clusters
  <2>4. \A c \in Clusters(fat, fst[q]) : fat'[c] = fat[c]
    BY <1>2, <2>2, <2>3
  <2>5. readClusChains(fat', fst[q]) = readClusChains(fat, fst[q])
    BY <1>1, <1>2, <2>4, ChainStays
  <2>6. QED
    BY <2>1, <2>5 DEF ChainOf
<1>5. QED
  BY <1>2, <1>3, <1>4

\* File::exchangeMetaData exchanges the chains.
LEMMA ExchangeChains ==
    ASSUME IInv, NEW o \in Owner, NEW q \in Owner, ExchangeMetaData(o, q)
    PROVE  /\ ChainOf(o)' = ChainOf(q) /\ ChainOf(q)' = ChainOf(o) /\ fat' = fat
           /\ \A r \in Owner : r # o /\ r # q => ChainOf(r)' = ChainOf(r)
<1>1. fat' = fat /\ fst \in [Owner -> Entry] /\ fst' = [fst EXCEPT ![o] = fst[q], ![q] = fst[o]]
  BY DEF IInv, TypeOK, ExchangeMetaData
<1>2. \A r \in Owner : fst'[r] = IF r = q THEN fst[o] ELSE IF r = o THEN fst[q] ELSE fst[r]
  BY <1>1
<1>3. o # q
  BY DEF ExchangeMetaData
<1>4. QED
  BY <1>1, <1>2, <1>3 DEF ChainOf

\* The entries FAT::allocClus writes are a chain: the first cluster, then the
\* rest in ascending order.
LEMMA LinkedChain ==
    ASSUME NEW t, IsTable(t), NEW first, NEW rest, NewClusters(t, first, rest)
    PROVE  \E m : /\ IsChain(Link(t, first, rest), m) /\ m[1] = first
                  /\ Members(m) = {first} \cup rest /\ Len(m) = Cardinality(rest) + 1
<1> DEFINE u == Link(t, first, rest)
           k == Cardinality(rest)
           later(c) == {d \in rest : c = first \/ d > c}
<1>1. /\ rest \in SUBSET Data /\ rest \in SUBSET Nat /\ first \in Data /\ first \notin rest
      /\ first # 0 /\ first \in Entry /\ rest \subseteq Entry
  BY Numbers DEF NewClusters
<1>2. IsFiniteSet(rest)
  <2>1. IsFiniteSet(Data)
    BY FS_Interval, SizesAssumption DEF Data
  <2>2. QED
    BY <1>1, <2>1, FS_Subset
<1>3. k \in Nat
  BY <1>2, FS_CardinalityType
<1>4. PICK e : Enumerates(e, rest)
  BY <1>1, <1>2, Enumeration
<1>5. /\ \A i \in 1 .. k : e[i] \in rest /\ e[i] \in Nat
      /\ \A i, j \in 1 .. k : i < j => e[i] < e[j]
      /\ \A x \in rest : \E i \in 1 .. k : e[i] = x
  BY <1>1, <1>4 DEF Enumerates
<1> HIDE DEF k
<1>6. \A c \in {first} \cup rest : u[c] = IF later(c) = {} THEN EOC ELSE Min(later(c))
  BY <1>1 DEF Link
<1> HIDE DEF u
<1>7. \A c : later(c) \in SUBSET Nat /\ later(c) \in SUBSET rest
  BY <1>1
<1>8. ASSUME NEW c \in {first} \cup rest, NEW i \in 1 .. k, e[i] \in later(c),
             \A j \in 1 .. k : e[j] \in later(c) => i <= j
      PROVE  u[c] = e[i]
  <2>1. later(c) # {} /\ later(c) \in SUBSET Nat
    BY <1>7, <1>8
  <2>2. Min(later(c)) \in later(c) /\ Min(later(c)) <= e[i]
    BY <1>8, <2>1, MinProperty
  <2>3. PICK j \in 1 .. k : e[j] = Min(later(c))
    BY <1>5, <1>7, <2>2
  <2>4. i <= j /\ e[j] <= e[i]
    BY <1>8, <2>2, <2>3
  <2>5. i = j
    BY <1>3, <1>5, <2>4
  <2>6. QED
    BY <1>6, <2>1, <2>3, <2>5
<1>9. k > 0 => u[first] = e[1]
  <2>1. SUFFICES ASSUME k > 0
                 PROVE  u[first] = e[1]
    OBVIOUS
  <2>2. 1 \in 1 .. k /\ \A j \in 1 .. k : 1 <= j
    BY <1>3, <2>1
  <2>3. e[1] \in later(first)
    BY <1>5, <2>2
  <2> HIDE DEF later
  <2>4. QED
    BY <1>8, <2>2, <2>3
<1>10. \A i \in 1 .. k - 1 : u[e[i]] = e[i + 1]
  <2>1. SUFFICES ASSUME NEW i \in 1 .. k - 1
                 PROVE  u[e[i]] = e[i + 1]
    OBVIOUS
  <2>2. i \in 1 .. k /\ i + 1 \in 1 .. k /\ e[i] # first
    BY <1>1, <1>3, <1>5
  <2>3. e[i + 1] \in later(e[i])
    BY <1>5, <2>2
  <2>4. ASSUME NEW j \in 1 .. k, e[j] \in later(e[i])
        PROVE  i + 1 <= j
    <3>1. e[i] < e[j]
      BY <1>5, <2>2, <2>4
    <3>2. ~(j < i) /\ j # i
      BY <1>5, <2>2, <3>1
    <3>3. QED
      BY <1>3, <2>2, <3>2
  <2>5. e[i] \in {first} \cup rest
    BY <1>5, <2>2
  <2> HIDE DEF later
  <2>6. QED
    BY <1>8, <2>2, <2>3, <2>4, <2>5
<1>11. k = 0 => u[first] = EOC
  <2>1. SUFFICES ASSUME k = 0
                 PROVE  later(first) = {}
    BY <1>6
  <2>2. rest = {}
    BY <1>2, <2>1, FS_EmptySet DEF k
  <2>3. QED
    BY <2>2
<1>12. k > 0 => u[e[k]] = EOC
  <2>1. SUFFICES ASSUME k > 0
                 PROVE  u[e[k]] = EOC
    OBVIOUS
  <2>2. k \in 1 .. k
    BY <1>3, <2>1
  <2>3. e[k] \in rest /\ e[k] # first /\ e[k] \in Nat
    BY <1>1, <1>5, <2>2
  <2>4. later(e[k]) = {}
    <3>1. SUFFICES ASSUME NEW d \in rest, d > e[k]
                   PROVE  FALSE
      BY <2>3
    <3>2. PICK j \in 1 .. k : e[j] = d
      BY <1>5
    <3>3. j = k \/ j < k
      BY <1>3, <3>2
    <3>4. QED
      BY <1>5, <2>2, <3>1, <3>2, <3>3
  <2>5. QED
    BY <1>6, <2>3, <2>4
<1> DEFINE m == [i \in 1 .. k + 1 |-> IF i = 1 THEN first ELSE e[i - 1]]
<1>13. /\ m[1] = first /\ \A i \in 1 .. k : m[i + 1] = e[i] /\ i + 1 \in 1 .. k + 1
       /\ DOMAIN m = 1 .. k + 1 /\ k + 1 \in Nat
  BY <1>3
<1>14. \A i \in 1 .. k + 1 : i = 1 \/ (i - 1 \in 1 .. k /\ (i - 1) + 1 = i /\ m[i] = e[i - 1])
  BY <1>3
<1>15. \A i \in 1 .. k + 1 : m[i] \in Data
  BY <1>1, <1>5, <1>13, <1>14
<1>16. m \in Seq(Data) /\ Len(m) = k + 1
  BY <1>13, <1>15
<1> HIDE DEF m
<1>17. ASSUME NEW i \in 1 .. k + 1, NEW j \in 1 .. k + 1, m[i] = m[j]
       PROVE  i = j
  <2>1. CASE i = 1 \/ j = 1
    BY <1>1, <1>5, <1>13, <1>14, <1>17, <2>1
  <2>2. CASE i # 1 /\ j # 1
    <3>1. i - 1 \in 1 .. k /\ j - 1 \in 1 .. k /\ e[i - 1] = e[j - 1]
      BY <1>14, <1>17, <2>2
    <3>2. ~(i - 1 < j - 1) /\ ~(j - 1 < i - 1)
      BY <1>5, <3>1
    <3>3. QED
      BY <1>3, <3>1, <3>2
  <2>3. QED
    BY <2>1, <2>2
<1>18. ASSUME NEW i \in 1 .. k
       PROVE  u[m[i]] = m[i + 1]
  <2>1. CASE i = 1
    BY <1>3, <1>9, <1>13, <2>1
  <2>2. CASE i # 1
    <3>1. i - 1 \in 1 .. k - 1 /\ (i - 1) + 1 = i /\ m[i] = e[i - 1] /\ m[i + 1] = e[i]
      BY <1>3, <1>13, <1>14, <2>2
    <3>2. QED
      BY <1>10, <3>1
  <2>3. QED
    BY <2>1, <2>2
<1>19. u[m[k + 1]] = EOC
  <2>1. CASE k = 0
    BY <1>11, <1>13, <2>1
  <2>2. CASE k # 0
    <3>1. k > 0 /\ k \in 1 .. k
      BY <1>3, <2>2
    <3>2. QED
      BY <1>12, <1>13, <3>1
  <2>3. QED
    BY <2>1, <2>2
<1>20. Members(m) = {first} \cup rest
  <2>1. ASSUME NEW x \in {first} \cup rest
        PROVE  \E i \in 1 .. k + 1 : m[i] = x
    <3>1. CASE x = first
      <4>1. 1 \in 1 .. k + 1
        BY <1>3
      <4>2. QED
        BY <1>13, <3>1, <4>1
    <3>2. CASE x \in rest
      <4>1. PICK i \in 1 .. k : e[i] = x
        BY <1>5, <3>2
      <4>2. QED
        BY <1>13, <4>1
    <3>3. QED
      BY <3>1, <3>2
  <2>2. \A i \in 1 .. k + 1 : m[i] \in {first} \cup rest
    BY <1>5, <1>13, <1>14
  <2>3. QED
    BY <1>16, <2>1, <2>2 DEF Members
<1>21. IsChain(u, m)
  <2>1. (k + 1) - 1 = k /\ k + 1 > 0
    BY <1>3
  <2>2. QED
    BY <1>16, <1>17, <1>18, <1>19, <2>1 DEF IsChain
<1>22. QED
  BY <1>13, <1>16, <1>20, <1>21 DEF u, k

\* The table after a growth: old entries but the last one of the chain are
\* what they were, and only the new clusters are no longer free.
LEMMA GrowChains ==
    ASSUME IInv, NEW o \in Owner, NEW n \in Nat, Grow(o, n)
    PROVE  /\ \E m \in Seq(Data) :
                 /\ ChainOf(o)' = ChainOf(o) \o m
                 /\ Len(m) = Cardinality(Rest(n - Size(o))) + 1
                 /\ Members(m) = {First(n - Size(o))} \cup Rest(n - Size(o))
                 /\ \A i, j \in 1 .. Len(m) : m[i] = m[j] => i = j
                 /\ \A i \in 1 .. Len(m) : fat[m[i]] = 0
           /\ \A q \in Owner : q # o => ChainOf(q)' = ChainOf(q)
           /\ \A c \in Entry : fat'[c] = 0 <=>
                 fat[c] = 0 /\ c \notin {First(n - Size(o))} \cup Rest(n - Size(o))
<1> DEFINE first == First(n - Size(o))
           rest == Rest(n - Size(o))
           new == {first} \cup rest
           linked == Link(fat, first, rest)
           s == ChainOf(o)
           l == Len(s)
<1>1. NewClusters(fat, first, rest)
  BY GrowsByFree
<1>2. /\ \/ /\ isValidCluster(fst[o])
            /\ \E p \in Clusters(fat, fst[o]) :
                 isEndOfClusChain(fat[p]) /\ fat' = [linked EXCEPT ![p] = first]
            /\ fst' = fst
         \/ /\ ~isValidCluster(fst[o])
            /\ fat' = linked /\ fst' = [fst EXCEPT ![o] = first]
  BY DEF Grow
<1>3. IsTable(fat) /\ WellFormed(fat, fst) /\ fst \in [Owner -> Entry] /\ TypeOK'
  <2>1. n \in 0 .. MaxRequest
    BY DEF Grow, Request
  <2>2. Next
    BY <2>1 DEF Next
  <2>3. TypeOK'
    BY <2>2, TypeNext DEF IInv
  <2>4. QED
    BY <2>3 DEF IInv, TypeOK, IsTable
<1>4. IsTable(fat')
  BY <1>3 DEF TypeOK, IsTable
<1> HIDE DEF first, rest
<1>5. /\ \A c \in new : c \in Data /\ c \in Entry /\ c # 0 /\ fat[c] = 0
      /\ rest \in SUBSET new
  BY <1>1, Numbers DEF NewClusters
<1>6. /\ IsTable(linked) /\ \A c \in Entry \ new : linked[c] = fat[c]
      /\ \A c \in new : linked[c] = EOC \/ linked[c] \in rest
  BY <1>1, <1>3, LinkWrites
<1>7. PICK m : /\ IsChain(linked, m) /\ m[1] = first
               /\ Members(m) = new /\ Len(m) = Cardinality(rest) + 1
  BY <1>1, <1>3, LinkedChain
<1> HIDE DEF linked
<1>8. /\ m \in Seq(Data) /\ Len(m) \in Nat /\ Len(m) > 0 /\ \A i \in 1 .. Len(m) : m[i] \in Data
      /\ \A i, j \in 1 .. Len(m) : m[i] = m[j] => i = j
      /\ \A i \in 1 .. Len(m) - 1 : linked[m[i]] = m[i + 1]
      /\ linked[m[Len(m)]] = EOC
  BY <1>7 DEF IsChain
<1>9. \A i \in 1 .. Len(m) : m[i] \in new
  BY <1>7 DEF Members
<1> HIDE DEF new
<1>10. /\ s \in Seq(Data) /\ l \in Nat /\ \A i \in 1 .. l : s[i] \in Data /\ fat[s[i]] # 0
       /\ \A i, j \in 1 .. l : s[i] = s[j] => i = j
       /\ Clusters(fat, fst[o]) = Members(s)
       /\ fst[o] = 0 => s = <<>>
       /\ fst[o] # 0 => IsChain(fat, s) /\ s[1] = fst[o]
  BY ChainNow
<1> HIDE DEF s, l
<1>11. isValidCluster(fst[o]) <=> fst[o] # 0
  BY <1>3, Numbers DEF isValidCluster, WellFormed, HeadsUsed
<1>12. \A c \in new : linked[c] # 0
  BY <1>5, <1>6, Numbers
<1>13. CASE fst[o] = 0
  <2>1. fat' = linked /\ fst' = [fst EXCEPT ![o] = first] /\ fst'[o] = first
    BY <1>2, <1>3, <1>11, <1>13
  <2>2. ChainOf(o)' = m
    BY <1>4, <1>7, <2>1, ChainReads DEF ChainOf
  <2>3. ChainOf(o)' = s \o m
    BY <1>8, <1>10, <1>13, <2>2
  <2>4. ASSUME NEW q \in Owner, q # o
        PROVE  ChainOf(q)' = ChainOf(q)
    <3>1. fst'[q] = fst[q] /\ \A c \in Clusters(fat, fst[q]) : c \in Entry /\ fat[c] # 0
      <4>1. fst'[q] = fst[q]
        BY <1>3, <2>1, <2>4
      <4>2. \A c \in Clusters(fat, fst[q]) : c \in Entry /\ fat[c] # 0
        BY ChainUsed
      <4>3. QED
        BY <4>1, <4>2
    <3>2. \A c \in Clusters(fat, fst[q]) : fat'[c] = fat[c]
      BY <1>5, <1>6, <2>1, <3>1
    <3>3. readClusChains(fat', fst[q]) = readClusChains(fat, fst[q])
      BY <1>3, <1>4, <3>2, ChainStays
    <3>4. QED
      BY <3>1, <3>3 DEF ChainOf
  <2>5. \A c \in Entry : fat'[c] = 0 <=> fat[c] = 0 /\ c \notin new
    BY <1>5, <1>6, <1>12, <2>1
  <2>6. QED
    BY <1>5, <1>7, <1>8, <1>9, <2>3, <2>4, <2>5 DEF first, rest, new, s
<1>14. CASE fst[o] # 0
  <2>1. PICK p \in Clusters(fat, fst[o]) :
          isEndOfClusChain(fat[p]) /\ fat' = [linked EXCEPT ![p] = first]
    BY <1>2, <1>11, <1>14
  <2>2. fst' = fst
    BY <1>2, <1>11, <1>14
  <2>3. /\ IsChain(fat, s) /\ s[1] = fst[o] /\ l > 0 /\ l \in 1 .. l
        /\ \A i \in 1 .. l - 1 : fat[s[i]] = s[i + 1]
        /\ fat[s[l]] = EOC
    BY <1>10, <1>14 DEF IsChain, l
  <2>4. p = s[l]
    <3>1. PICK i \in 1 .. l : p = s[i]
      BY <1>10, <2>1 DEF Members, l
    <3>2. CASE i = l
      BY <3>1, <3>2
    <3>3. CASE i # l
      <4>1. i \in 1 .. l - 1 /\ i + 1 \in 1 .. l
        BY <1>10, <3>3
      <4>2. fat[p] \in Data
        BY <1>10, <2>3, <3>1, <4>1
      <4>3. fat[p] < EOC /\ fat[p] \in Int /\ EOC \in Int
        BY <4>2, SizesAssumption DEF Data, EOC
      <4>4. fat[p] >= EOC
        BY <2>1 DEF isEndOfClusChain
      <4>5. QED
        BY <4>3, <4>4
    <3>4. QED
      BY <3>2, <3>3
  <2>5. p \in Data /\ p \in Entry /\ p \notin new /\ fat[p] # 0
    BY <1>5, <1>10, <2>3, <2>4, Numbers
  <2>6. \A c \in Entry : fat'[c] = IF c = p THEN first ELSE linked[c]
    BY <1>6, <2>1 DEF IsTable
  <2>7. first \in new
    BY DEF new
  <2>8. \A c \in Entry : fat'[c] = 0 <=> fat[c] = 0 /\ c \notin new
    BY <1>5, <1>6, <1>12, <2>5, <2>6, <2>7
  <2>9. ASSUME NEW q \in Owner, q # o
        PROVE  ChainOf(q)' = ChainOf(q)
    <3>1. \A c \in Clusters(fat, fst[q]) : c \in Entry /\ fat[c] # 0
      BY ChainUsed
    <3>2. Clusters(fat, fst[q]) \cap Clusters(fat, fst[o]) = {}
      BY <1>3, <2>9, WellFormedDisjoint
    <3>3. \A c \in Clusters(fat, fst[q]) : fat'[c] = fat[c]
      BY <1>5, <1>6, <2>1, <2>6, <3>1, <3>2
    <3>4. readClusChains(fat', fst[q]) = readClusChains(fat, fst[q])
      BY <1>3, <1>4, <3>3, ChainStays
    <3>5. QED
      BY <2>2, <3>4 DEF ChainOf
  <2> DEFINE c == s \o m
             k == Len(m)
  <2>10. /\ c \in Seq(Data) /\ Len(c) = l + k
         /\ \A i \in 1 .. l : c[i] = s[i]
         /\ \A i \in l + 1 .. l + k : c[i] = m[i - l]
    BY <1>8, <1>10 DEF l
  <2> HIDE DEF c, k
  <2>11. k \in Nat /\ k > 0
    BY <1>8 DEF k
  <2>12. \A i \in 1 .. l + k :
           \/ i \in 1 .. l /\ c[i] = s[i] /\ c[i] \in Entry /\ c[i] \notin new
           \/ i \in l + 1 .. l + k /\ i - l \in 1 .. k /\ c[i] = m[i - l]
              /\ c[i] \in Entry /\ c[i] \in new
    <3>1. \A i \in 1 .. l + k : i \in 1 .. l \/ (i \in l + 1 .. l + k /\ i - l \in 1 .. k)
      BY <1>10, <2>11
    <3>2. \A i \in 1 .. l : c[i] = s[i] /\ c[i] \in Entry /\ c[i] \notin new
      <4>1. \A i \in 1 .. l : s[i] \in Data /\ fat[s[i]] # 0 /\ c[i] = s[i]
        BY <1>10, <2>10
      <4>2. \A x \in new : fat[x] = 0
        BY <1>5
      <4>3. QED
        BY <4>1, <4>2, Numbers
    <3>3. \A i \in l + 1 .. l + k : i - l \in 1 .. k =>
            c[i] = m[i - l] /\ c[i] \in Entry /\ c[i] \in new
      BY <1>5, <1>9, <2>10 DEF k
    <3>4. QED
      BY <3>1, <3>2, <3>3
  <2>13. ASSUME NEW i \in 1 .. l + k, NEW j \in 1 .. l + k, c[i] = c[j]
         PROVE  i = j
    <3>1. CASE c[i] \in new
      <4>1. i - l \in 1 .. k /\ j - l \in 1 .. k /\ m[i - l] = m[j - l]
        BY <2>12, <2>13, <3>1
      <4>2. i - l = j - l
        BY <1>8, <4>1 DEF k
      <4>3. QED
        BY <1>10, <2>11, <4>2
    <3>2. CASE c[i] \notin new
      BY <1>10, <2>12, <2>13, <3>2
    <3>3. QED
      BY <3>1, <3>2
  <2>14. ASSUME NEW i \in 1 .. l + k - 1
         PROVE  fat'[c[i]] = c[i + 1]
    <3>1. CASE i < l
      <4>1. i \in 1 .. l - 1 /\ i \in 1 .. l /\ i + 1 \in 1 .. l /\ i # l
        BY <1>10, <3>1
      <4>2. c[i] = s[i] /\ c[i + 1] = s[i + 1] /\ s[i] \in Entry /\ s[i] # p /\ s[i] \notin new
        BY <1>5, <1>10, <2>3, <2>4, <2>10, <4>1, Numbers
      <4>3. fat'[s[i]] = fat[s[i]]
        BY <1>6, <2>6, <4>2
      <4>4. QED
        BY <2>3, <4>1, <4>2, <4>3
    <3>2. CASE i = l
      <4>1. l + 1 \in l + 1 .. l + k /\ (l + 1) - l = 1
        BY <1>10, <2>11
      <4>2. c[i + 1] = m[1] /\ c[i] = p
        BY <2>3, <2>4, <2>10, <3>2, <4>1
      <4>3. QED
        BY <1>7, <2>5, <2>6, <4>2
    <3>3. CASE i > l
      <4>1. /\ i \in l + 1 .. l + k /\ i + 1 \in l + 1 .. l + k
            /\ i - l \in 1 .. k - 1 /\ (i + 1) - l = (i - l) + 1 /\ i - l \in 1 .. k
        BY <1>10, <2>11, <3>3
      <4>2. c[i] = m[i - l] /\ c[i + 1] = m[(i - l) + 1]
        BY <2>10, <4>1
      <4>3. m[i - l] \in new /\ m[i - l] \in Entry /\ m[i - l] # p
        BY <1>5, <1>9, <2>5, <4>1 DEF k
      <4>4. linked[m[i - l]] = m[(i - l) + 1]
        BY <1>8, <4>1 DEF k
      <4>5. QED
        BY <2>6, <4>2, <4>3, <4>4
    <3>4. QED
      BY <1>10, <2>11, <3>1, <3>2, <3>3
  <2>15. fat'[c[l + k]] = EOC
    <3>1. l + k \in l + 1 .. l + k /\ (l + k) - l = k /\ k \in 1 .. k
      BY <1>10, <2>11
    <3>2. c[l + k] = m[k] /\ m[k] \in new /\ m[k] \in Entry /\ m[k] # p
      BY <1>5, <1>9, <2>5, <2>10, <3>1 DEF k
    <3>3. QED
      BY <1>8, <2>6, <3>2 DEF k
  <2>16. IsChain(fat', c)
    <3>1. l + k \in Nat /\ l + k > 0
      BY <1>10, <2>11
    <3>2. \A i, j \in 1 .. Len(c) : c[i] = c[j] => i = j
      BY <2>10, <2>13
    <3>3. \A i \in 1 .. Len(c) - 1 : fat'[c[i]] = c[i + 1]
      <4>1. 1 .. Len(c) - 1 = 1 .. l + k - 1
        BY <1>10, <2>10, <2>11
      <4>2. \A i \in 1 .. l + k - 1 : fat'[c[i]] = c[i + 1]
        BY <2>14
      <4>3. QED
        BY <4>1, <4>2, Zenon
    <3>4. fat'[c[Len(c)]] = EOC
      BY <2>10, <2>15
    <3>5. QED
      BY <2>10, <3>1, <3>2, <3>3, <3>4 DEF IsChain
  <2>17. c[1] = fst[o]
    <3>1. 1 \in 1 .. l
      BY <1>10, <2>3
    <3>2. QED
      BY <2>3, <2>10, <3>1
  <2>18. ChainOf(o)' = c
    BY <1>4, <2>2, <2>16, <2>17, ChainReads DEF ChainOf
  <2>19. QED
    BY <1>5, <1>7, <1>8, <1>9, <2>8, <2>9, <2>18 DEF first, rest, new, s, c
<1>15. QED
  BY <1>13, <1>14

-----------------------------------------------------------------------------
(***************************************************************************)
(* The table implements the pool of clusters.                              *)
(***************************************************************************)

\* The steps that leave every chain as it is.
Quiet(o, n) == GrowRefused(o, n) \/ GrowAborts(o, n)

\* Calls that take and free no cluster leave every chain as it was.
LEMMA QuietChains ==
    ASSUME \/ \E o \in Owner, n \in 0 .. MaxRequest : Quiet(o, n)
           \/ Statfs \/ Remount \/ UNCHANGED vars
    PROVE  fat' = fat /\ fst' = fst /\ \A o \in Owner : ChainOf(o)' = ChainOf(o)
<1>1. fat' = fat /\ fst' = fst
  BY DEF Quiet, GrowRefused, GrowAborts, Statfs, Remount, vars
<1>2. QED
  BY <1>1 DEF ChainOf

\* The chains of different owners have no cluster in common.
LEMMA ChainsApart ==
    ASSUME IInv, NEW o \in Owner, NEW q \in Owner, o # q
    PROVE  Members(ChainOf(o)) \cap Members(ChainOf(q)) = {}
<1>1. Clusters(fat, fst[o]) \cap Clusters(fat, fst[q]) = {}
  BY WellFormedDisjoint DEF IInv, TypeOK, IsTable
<1>2. /\ Clusters(fat, fst[o]) = Members(ChainOf(o))
      /\ Clusters(fat, fst[q]) = Members(ChainOf(q))
  BY ChainNow
<1>3. QED
  BY <1>1, <1>2

Chains == [o \in Owner |-> ChainOf(o)]

\* A table that satisfies the invariant is a pool to start from.
LEMMA PoolInit == IInv => Pool!Init
<1> SUFFICES ASSUME IInv PROVE Pool!Init
  OBVIOUS
<1>1. Chains \in [Owner -> Seq(Data)]
  BY ChainNow DEF Chains
<1>2. \A o \in Owner : Pool!ToSet(Chains[o]) = Members(ChainOf(o))
  BY ChainNow DEF Chains, Pool!ToSet, Members
<1>3. \A o \in Owner : Pool!IsInjective(Chains[o])
  BY ChainNow DEF Chains, Pool!IsInjective
<1>4. \A o, q \in Owner : o # q => Pool!ToSet(Chains[o]) \cap Pool!ToSet(Chains[q]) = {}
  BY <1>2, ChainsApart
<1>5. QED
  BY <1>1, <1>3, <1>4 DEF Pool!Init, Chains, ChainOf

\* A cut, or nothing when the chain is no longer than that.
LEMMA CutMaps ==
    ASSUME IInv, NEW o \in Owner, NEW n \in Nat, n <= Len(ChainOf(o)),
           ChainOf(o)' = SubSeq(ChainOf(o), 1, n),
           \A q \in Owner : q # o => ChainOf(q)' = ChainOf(q)
    PROVE  Chains' = Chains \/ Pool!Cut(o)
<1> DEFINE s == ChainOf(o)
<1>1. s \in Seq(Data) /\ Len(s) \in Nat
  BY ChainNow
<1> HIDE DEF s
<1>2. CASE n = Len(s)
  <2>1. SubSeq(s, 1, n) = s
    BY <1>1, <1>2
  <2>2. \A q \in Owner : ChainOf(q)' = ChainOf(q)
    BY <2>1 DEF s
  <2>3. QED
    BY <2>2 DEF Chains
<1>3. CASE n # Len(s)
  <2>1. n \in 0 .. Len(s) - 1
    BY <1>1, <1>3 DEF s
  <2>2. \A q \in Owner : ChainOf(q)' = IF q = o THEN SubSeq(s, 1, n) ELSE ChainOf(q)
    BY DEF s
  <2>3. Chains' = [Chains EXCEPT ![o] = SubSeq(s, 1, n)] /\ Chains[o] = s
    BY <2>2 DEF Chains, s
  <2>4. QED
    BY <2>1, <2>3 DEF Pool!Cut, Chains, ChainOf
<1>4. QED
  BY <1>2, <1>3

\* A growth extends one chain by clusters nobody held.
LEMMA ExtendMaps ==
    ASSUME IInv, NEW o \in Owner, NEW n \in Nat, Grow(o, n)
    PROVE  Pool!Extend(o)
<1> DEFINE s == ChainOf(o)
           c == ChainOf(o)'
<1>1. PICK m \in Seq(Data) :
        /\ c = s \o m
        /\ Len(m) = Cardinality(Rest(n - Size(o))) + 1
        /\ Members(m) = {First(n - Size(o))} \cup Rest(n - Size(o))
        /\ \A i, j \in 1 .. Len(m) : m[i] = m[j] => i = j
        /\ \A i \in 1 .. Len(m) : fat[m[i]] = 0
  BY GrowChains
<1>2. /\ s \in Seq(Data) /\ Len(s) \in Nat
      /\ \A i \in 1 .. Len(s) : s[i] \in Data /\ fat[s[i]] # 0
      /\ \A i, j \in 1 .. Len(s) : s[i] = s[j] => i = j
  BY ChainNow
<1>3. \A q \in Owner : q # o => ChainOf(q)' = ChainOf(q)
  BY GrowChains
<1>4. \A q \in Owner : ChainOf(q) \in Seq(Data)
  BY ChainNow
<1>5. Len(m) > 0
  <2>1. First(n - Size(o)) \in Members(m)
    BY <1>1
  <2>2. PICK i \in 1 .. Len(m) : m[i] = First(n - Size(o))
    BY <2>1 DEF Members
  <2>3. QED
    BY <2>2
<1> DEFINE l == Len(s)
           k == Len(m)
<1>6. l \in Nat /\ k \in Nat /\ k > 0 /\ c \in Seq(Data) /\ Len(c) = l + k
  <2>1. l \in Nat /\ k \in Nat /\ k > 0
    BY <1>2, <1>5
  <2> HIDE DEF s, c
  <2>2. c \in Seq(Data) /\ Len(c) = l + k
    <3>1. c = s \o m /\ s \in Seq(Data) /\ m \in Seq(Data)
      BY <1>1, <1>2
    <3>2. QED
      BY <3>1
  <2>3. QED
    BY <2>1, <2>2
<1>7. /\ \A i \in 1 .. l : c[i] = s[i]
      /\ \A i \in 1 .. l + k : i \in 1 .. l \/ (i - l \in 1 .. k /\ c[i] = m[i - l])
  <2> HIDE DEF s, c
  <2>1. QED
    BY <1>1, <1>2
<1> HIDE DEF c
<1>8. SubSeq(c, 1, l) = s /\ SubSeq(s, 1, l) = s /\ c # s
  <2>1. SubSeq(s, 1, l) = s
    BY <1>2
  <2>2. SubSeq(c, 1, l) \in Seq(Data) /\ Len(SubSeq(c, 1, l)) = l
    BY <1>6
  <2>3. \A i \in 1 .. l : SubSeq(c, 1, l)[i] = s[i]
    BY <1>6, <1>7
  <2> HIDE DEF s
  <2>4. SubSeq(c, 1, l) = s
    BY <1>2, <2>2, <2>3
  <2>5. c # s
    BY <1>6
  <2>6. QED
    BY <2>1, <2>4, <2>5
<1>9. Pool!IsStrictPrefix(s, c)
  BY <1>6, <1>8 DEF Pool!IsStrictPrefix, Pool!IsPrefix
<1> HIDE DEF s, l, k
<1>10. \A i \in 1 .. l + k : \/ i \in 1 .. l /\ c[i] = s[i] /\ fat[c[i]] # 0
                             \/ i - l \in 1 .. k /\ c[i] = m[i - l] /\ fat[c[i]] = 0
  BY <1>1, <1>2, <1>7 DEF l, k
<1>11. ASSUME NEW i \in 1 .. l + k, NEW j \in 1 .. l + k, c[i] = c[j]
       PROVE  i = j
  <2>1. CASE fat[c[i]] # 0
    <3>1. /\ i \in 1 .. l /\ c[i] = s[i] /\ j \in 1 .. l /\ c[j] = s[j]
      BY <1>10, <1>11, <2>1
    <3>2. QED
      BY <1>2, <1>11, <3>1 DEF l
  <2>2. CASE fat[c[i]] = 0
    <3>1. /\ i - l \in 1 .. k /\ c[i] = m[i - l] /\ j - l \in 1 .. k /\ c[j] = m[j - l]
      BY <1>10, <1>11, <2>2
    <3>2. i - l = j - l
      BY <1>1, <1>11, <3>1 DEF k
    <3>3. QED
      BY <1>6, <3>2
  <2>3. QED
    BY <2>1, <2>2
<1>12. Pool!IsInjective(c)
  <2>1. DOMAIN c = 1 .. l + k
    BY <1>6
  <2>2. QED
    BY <1>11, <2>1 DEF Pool!IsInjective
<1>13. ASSUME NEW x \in Pool!ToSet(c), x \notin Pool!ToSet(s)
       PROVE  fat[x] = 0
  <2>1. PICK i \in 1 .. l + k : x = c[i]
    BY <1>6, <1>13 DEF Pool!ToSet
  <2>2. i \notin 1 .. l
    BY <1>2, <1>7, <1>13, <2>1 DEF Pool!ToSet, l
  <2>3. QED
    BY <1>10, <2>1, <2>2
<1>14. ASSUME NEW q \in Owner, NEW x \in Pool!ToSet(ChainOf(q))
       PROVE  fat[x] # 0
  <2>1. PICK i \in 1 .. Len(ChainOf(q)) : x = ChainOf(q)[i]
    BY <1>4, <1>14 DEF Pool!ToSet
  <2>2. QED
    BY <2>1, ChainNow
<1>15. \A q \in Owner : Chains[q] = ChainOf(q) /\ Chains'[q] = ChainOf(q)'
  BY DEF Chains
<1>16. Chains'[o] = c /\ Chains[o] = s
  BY <1>15 DEF c, s
<1>17. Chains' \in [Owner -> Seq(Data)]
  BY <1>3, <1>4, <1>6 DEF Chains, c
<1>18. \A q \in Owner \ {o} : Chains'[q] = Chains[q]
  BY <1>3, <1>15
<1>19. \A x \in Pool!Held : fat[x] # 0
  BY <1>14 DEF Pool!Held, ChainOf
<1>20. (Pool!ToSet(c) \ Pool!ToSet(s)) \cap Pool!Held = {}
  BY <1>13, <1>19
<1>21. QED
  BY <1>9, <1>12, <1>16, <1>17, <1>18, <1>20 DEF Pool!Extend, Chains, ChainOf

\* Every step of the table is a step of the pool or leaves the chains alone.
LEMMA PoolNext == IInv /\ [Next]_vars => [Pool!Next]_Chains
<1> SUFFICES ASSUME IInv, [Next]_vars PROVE [Pool!Next]_Chains
  OBVIOUS
<1>1. ASSUME NEW o \in Owner, NEW n \in 0 .. MaxRequest, Shrink(o, n)
      PROVE  [Pool!Next]_Chains
  <2>1. n \in Nat
    OBVIOUS
  <2>2. Chains' = Chains \/ Pool!Cut(o)
    BY <1>1, <2>1, ShrinkChains, CutMaps
  <2>3. QED
    BY <2>2 DEF Pool!Next
<1>2. ASSUME NEW o \in Owner, NEW n \in 0 .. MaxRequest, Grow(o, n)
      PROVE  [Pool!Next]_Chains
  <2>1. n \in Nat
    OBVIOUS
  <2>2. Pool!Extend(o)
    BY <1>2, <2>1, ExtendMaps
  <2>3. QED
    BY <2>2 DEF Pool!Next
<1>3. ASSUME NEW o \in Owner, FreeClus(o)
      PROVE  [Pool!Next]_Chains
  <2>1. /\ ChainOf(o)' = <<>>
        /\ \A q \in Owner : q # o => ChainOf(q)' = ChainOf(q)
    BY <1>3, FreeChains
  <2>2. ChainOf(o) \in Seq(Data) /\ Len(ChainOf(o)) \in Nat
    BY ChainNow
  <2>3. SubSeq(ChainOf(o), 1, 0) = <<>> /\ 0 \in Nat /\ 0 <= Len(ChainOf(o))
    BY <2>2
  <2>4. Chains' = Chains \/ Pool!Cut(o)
    BY <2>1, <2>3, CutMaps
  <2>5. QED
    BY <2>4 DEF Pool!Next
<1>4. ASSUME NEW o \in Owner, NEW q \in Owner, ExchangeMetaData(o, q)
      PROVE  [Pool!Next]_Chains
  <2>1. \A r \in Owner : ChainOf(r)' = IF r = q THEN ChainOf(o)
                                       ELSE IF r = o THEN ChainOf(q) ELSE ChainOf(r)
    BY <1>4, ExchangeChains
  <2>2. Chains' = [Chains EXCEPT ![o] = Chains[q], ![q] = Chains[o]]
    BY <2>1 DEF Chains
  <2>3. Pool!Exchange(o, q)
    BY <2>2 DEF Pool!Exchange, Chains, ChainOf
  <2>4. QED
    BY <2>3 DEF Pool!Next
<1>5. CASE \/ \E o \in Owner, n \in 0 .. MaxRequest : Quiet(o, n)
           \/ Statfs \/ Remount \/ UNCHANGED vars
  BY <1>5, QuietChains DEF Chains
<1>6. QED
  BY <1>1, <1>2, <1>3, <1>4, <1>5 DEF Next, Quiet

\* Refinement: on volumes with a trusted free_count every run of the table is
\* a run of the pool of clusters that FAT::resize and FAT::freeClus promise.
THEOREM PoolImplemented == TrustedHints => (Spec => RefinesPool)
<1> SUFFICES ASSUME TrustedHints PROVE Spec => RefinesPool
  OBVIOUS
<1>1. Init => IInv
  BY ChainsInit
<1>2. IInv => Pool!Init
  BY PoolInit
<1>3. IInv /\ [Next]_vars => [Pool!Next]_([o \in Owner |-> readClusChains(fat, fst[o])])
  BY PoolNext DEF Chains, ChainOf
<1>4. QED
  BY <1>1, <1>2, <1>3, ChainsNext, PTL DEF Spec, RefinesPool, Pool!Spec

-----------------------------------------------------------------------------
(***************************************************************************)
(* No cluster is lost.                                                     *)
(***************************************************************************)

\* The volumes to mount whose used clusters are all in a chain.
NothingLostYet ==
    \A im \in Images : \A c \in Data :
        im.fat[c] # 0 => \E o \in Owner : c \in Clusters(im.fat, im.fst[o])

\* A used cluster is in the chain of some owner, as a fact about the chains.
InSomeChain(c) == \E o \in Owner : c \in Members(ChainOf(o))

\* Nothing is lost exactly if every used data cluster is in a chain.
LEMMA LostIs ==
    ASSUME IInv
    PROVE  NothingLost <=> \A c \in Data : fat[c] # 0 => InSomeChain(c)
<1>1. \A o \in Owner : Clusters(fat, fst[o]) = Members(ChainOf(o))
  BY ChainNow
<1>2. QED
  BY <1>1 DEF NothingLost, InSomeChain

\* No step loses a cluster.
LEMMA LostNext == IInv /\ NothingLost /\ [Next]_vars => NothingLost'
<1> SUFFICES ASSUME IInv, NothingLost, [Next]_vars PROVE NothingLost'
  OBVIOUS
<1>1. IInv' /\ \A c \in Data : fat[c] # 0 => InSomeChain(c)
  BY ChainsNext, LostIs
<1>2. \A o \in Owner : Clusters(fat, fst[o])' = Members(ChainOf(o))'
  <2>1. IsTable(fat') /\ WellFormed(fat', fst')
    BY <1>1 DEF IInv, TypeOK, IsTable
  <2>2. QED
    BY <2>1, ChainOfOwner DEF ChainOf
<1>3. (\A c \in Data : fat'[c] # 0 => \E o \in Owner : c \in Members(ChainOf(o)'))
      => NothingLost'
  BY <1>2 DEF NothingLost, Members
<1>4. ASSUME NEW o \in Owner, NEW n \in 0 .. MaxRequest, Shrink(o, n)
      PROVE  NothingLost'
  <2>1. n \in Nat
    OBVIOUS
  <2> DEFINE s == ChainOf(o)
  <2>2. /\ n <= Len(s) /\ ChainOf(o)' = SubSeq(s, 1, n)
        /\ \A q \in Owner : q # o => ChainOf(q)' = ChainOf(q)
        /\ \A c \in Entry : fat'[c] = 0 <=>
              fat[c] = 0 \/ \E i \in n + 1 .. Len(s) : c = s[i]
    BY <1>4, <2>1, ShrinkChains
  <2>3. s \in Seq(Data) /\ Len(s) \in Nat
    BY ChainNow
  <2>4. SUFFICES ASSUME NEW c \in Data, fat'[c] # 0
                 PROVE  \E q \in Owner : c \in Members(ChainOf(q)')
    BY <1>3
  <2>5. fat[c] # 0 /\ \A i \in n + 1 .. Len(s) : c # s[i]
    BY <2>2, <2>4, Numbers
  <2>6. PICK q \in Owner : c \in Members(ChainOf(q))
    BY <1>1, <2>5 DEF InSomeChain
  <2>7. CASE q # o
    BY <2>2, <2>6, <2>7
  <2>8. CASE q = o
    <3>1. PICK i \in 1 .. Len(s) : c = s[i]
      BY <2>6, <2>8 DEF Members
    <3> HIDE DEF s
    <3>2. i \in 1 .. n
      BY <2>1, <2>3, <2>5, <3>1
    <3>3. SubSeq(s, 1, n)[i] = c /\ Len(SubSeq(s, 1, n)) = n
      BY <2>1, <2>2, <2>3, <3>1, <3>2
    <3>4. c \in Members(ChainOf(o)')
      BY <2>2, <3>2, <3>3 DEF Members
    <3>5. QED
      BY <3>4
  <2>9. QED
    BY <2>7, <2>8
<1>5. ASSUME NEW o \in Owner, NEW n \in 0 .. MaxRequest, Grow(o, n)
      PROVE  NothingLost'
  <2>1. n \in Nat
    OBVIOUS
  <2> DEFINE s == ChainOf(o)
             new == {First(n - Size(o))} \cup Rest(n - Size(o))
  <2>2. PICK m \in Seq(Data) : ChainOf(o)' = s \o m /\ Members(m) = new
    BY <1>5, <2>1, GrowChains
  <2>3. /\ \A q \in Owner : q # o => ChainOf(q)' = ChainOf(q)
        /\ \A c \in Entry : fat'[c] = 0 <=> fat[c] = 0 /\ c \notin new
    BY <1>5, <2>1, GrowChains
  <2> HIDE DEF new
  <2>4. s \in Seq(Data)
    BY ChainNow
  <2>5. SUFFICES ASSUME NEW c \in Data, fat'[c] # 0
                 PROVE  \E q \in Owner : c \in Members(ChainOf(q)')
    BY <1>3
  <2>6. fat[c] # 0 \/ c \in new
    BY <2>3, <2>5, Numbers
  <2> HIDE DEF s
  <2>7. Members(s) \subseteq Members(s \o m) /\ Members(m) \subseteq Members(s \o m)
    <3>1. ASSUME NEW i \in 1 .. Len(s)
          PROVE  s[i] = (s \o m)[i] /\ i \in 1 .. Len(s \o m)
      BY <2>2, <2>4
    <3>2. ASSUME NEW i \in 1 .. Len(m)
          PROVE  m[i] = (s \o m)[Len(s) + i] /\ Len(s) + i \in 1 .. Len(s \o m)
      BY <2>2, <2>4
    <3>3. QED
      BY <3>1, <3>2 DEF Members
  <2>8. CASE c \in new
    BY <2>2, <2>7, <2>8
  <2>9. CASE fat[c] # 0
    <3>1. PICK q \in Owner : c \in Members(ChainOf(q))
      BY <1>1, <2>9 DEF InSomeChain
    <3>2. QED
      BY <2>2, <2>3, <2>7, <3>1 DEF s
  <2>10. QED
    BY <2>6, <2>8, <2>9
<1>6. ASSUME NEW o \in Owner, FreeClus(o)
      PROVE  NothingLost'
  <2>1. /\ \A q \in Owner : q # o => ChainOf(q)' = ChainOf(q)
        /\ \A c \in Entry : fat'[c] = 0 <=> fat[c] = 0 \/ c \in Clusters(fat, fst[o])
    BY <1>6, FreeChains
  <2>2. SUFFICES ASSUME NEW c \in Data, fat'[c] # 0
                 PROVE  \E q \in Owner : c \in Members(ChainOf(q)')
    BY <1>3
  <2>3. fat[c] # 0 /\ c \notin Members(ChainOf(o))
    BY <2>1, <2>2, Numbers, ChainNow
  <2>4. PICK q \in Owner : c \in Members(ChainOf(q))
    BY <1>1, <2>3 DEF InSomeChain
  <2>5. QED
    BY <2>1, <2>3, <2>4
<1>7. ASSUME NEW o \in Owner, NEW q \in Owner, ExchangeMetaData(o, q)
      PROVE  NothingLost'
  <2>1. /\ ChainOf(o)' = ChainOf(q) /\ ChainOf(q)' = ChainOf(o) /\ fat' = fat
        /\ \A r \in Owner : r # o /\ r # q => ChainOf(r)' = ChainOf(r)
    BY <1>7, ExchangeChains
  <2>2. SUFFICES ASSUME NEW c \in Data, fat'[c] # 0
                 PROVE  \E r \in Owner : c \in Members(ChainOf(r)')
    BY <1>3
  <2>3. PICK r \in Owner : c \in Members(ChainOf(r))
    BY <1>1, <2>1, <2>2 DEF InSomeChain
  <2>4. QED
    BY <2>1, <2>3
<1>8. CASE \/ \E o \in Owner, n \in 0 .. MaxRequest : Quiet(o, n)
           \/ Statfs \/ Remount \/ UNCHANGED vars
  BY <1>8, QuietChains DEF NothingLost
<1>9. QED
  BY <1>4, <1>5, <1>6, <1>7, <1>8 DEF Next, Quiet

\* On volumes with a trusted free_count that have lost no cluster yet none is
\* ever lost: resize and freeClus give back all they cut off, and what
\* allocClus takes is hung into a chain.
THEOREM NothingEverLost == TrustedHints /\ NothingLostYet => (Spec => []NothingLost)
<1> SUFFICES ASSUME TrustedHints, NothingLostYet PROVE Spec => []NothingLost
  OBVIOUS
<1>1. Init => IInv
  BY ChainsInit
<1>2. Init => NothingLost
  BY DEF Init, NothingLostYet, NothingLost
<1>3. QED
  BY <1>1, <1>2, ChainsNext, LostNext, PTL DEF Spec

-----------------------------------------------------------------------------
(***************************************************************************)
(* How many clusters an allocation takes.  The scan finds a hinted cluster *)
(* again when it is the lowest free entry, and the request then gets one   *)
(* cluster less than it asked for: the volumes on which that happens are   *)
(* left out by NoLowestHint.                                               *)
(***************************************************************************)
NotLowest(t, h) == h \in Seen(t) => \E c \in Seen(t) : c < h
NoLowestHint == \A im \in Images : NotLowest(im.fat, im.free_count)

IInvExact == IInv /\ NotLowest(fat, hint)

\* FAT::allocClus returns a chain of exactly the clusters asked for.
LEMMA AllocatesExactly ==
    ASSUME IInvExact, NEW n \in Nat, n > 0, ~RunsOut(n)
    PROVE  IsFiniteSet(Rest(n)) /\ Cardinality(Rest(n)) = n - 1
<1>1. TypeOK /\ FreeHint(fat, hint) /\ NotLowest(fat, hint)
  BY DEF IInvExact, IInv
<1>2. Seen(fat) \in SUBSET Nat /\ IsFiniteSet(Seen(fat))
  <2>1. IsFiniteSet(0 .. CountOfClusters - 1)
    BY FS_Interval, SizesAssumption
  <2>2. Seen(fat) \in SUBSET (0 .. CountOfClusters - 1)
    BY DEF Seen
  <2>3. IsFiniteSet(Seen(fat))
    BY <2>1, <2>2, FS_Subset
  <2>4. QED
    BY <2>2, <2>3
<1>3. Scanned \in SUBSET Seen(fat)
  BY DEF Scanned
<1>4. Scanned \in SUBSET Nat /\ IsFiniteSet(Scanned) /\ Cardinality(Scanned) \in Nat
  BY <1>2, <1>3, FS_Subset, FS_CardinalityType
<1>5. Wanted(n) \in Nat /\ Wanted(n) <= Cardinality(Scanned)
  BY <1>4 DEF RunsOut, Wanted
<1>6. Cardinality(Picked(n)) = Wanted(n)
  BY <1>4, <1>5, FirstOnes DEF Picked
<1>7. Picked(n) \in SUBSET Scanned
  BY DEF Picked
<1>8. IsFiniteSet(Picked(n))
  BY <1>4, <1>7, FS_Subset
<1>9. CASE Hinted
  <2>1. hint \notin Scanned
    <3>1. CASE hint \notin Seen(fat)
      BY <1>3, <3>1
    <3>2. CASE hint \in Seen(fat)
      <4>1. PICK c \in Seen(fat) : c < hint
        BY <1>1, <3>2 DEF NotLowest
      <4>2. Min(Seen(fat)) <= c /\ Min(Seen(fat)) \in Nat /\ Seen(fat) # {}
        BY <1>2, <3>2, MinProperty
      <4>3. hint # Min(Seen(fat))
        BY <1>2, <4>1, <4>2
      <4>4. Scanned = Seen(fat) \ {hint}
        BY <1>9, <4>2, <4>3 DEF Scanned
      <4>5. QED
        BY <4>4
    <3>3. QED
      BY <3>1, <3>2
  <2>2. Rest(n) = Picked(n) /\ Wanted(n) = n - 1
    BY <1>7, <1>9, <2>1 DEF Rest, First, Wanted
  <2>3. QED
    BY <1>6, <1>8, <2>2
<1>10. CASE ~Hinted
  <2>1. Wanted(n) = n /\ First(n) = Min(Picked(n))
    BY <1>10 DEF Wanted, First
  <2>2. Picked(n) # {}
    BY <1>6, <2>1, FS_EmptySet
  <2>3. First(n) \in Picked(n)
    BY <1>4, <1>7, <2>1, <2>2, MinProperty
  <2>4. IsFiniteSet(Rest(n)) /\ Cardinality(Rest(n)) = Cardinality(Picked(n)) - 1
    BY <1>8, <2>3, FS_RemoveElement DEF Rest
  <2>5. QED
    BY <1>6, <2>1, <2>4
<1>11. QED
  BY <1>9, <1>10

\* Free entries stay free until the hint is consumed, so that a hint that is
\* not the lowest free entry does not become the lowest.
LEMMA ExactNext == IInvExact /\ [Next]_vars => IInvExact'
<1> SUFFICES ASSUME IInvExact, [Next]_vars PROVE NotLowest(fat', hint')
  BY ChainsNext DEF IInvExact
<1>1. IInv /\ NotLowest(fat, hint) /\ FreeHint(fat, hint)
  BY DEF IInvExact, IInv
<1>2. \A t : Seen(t) \in SUBSET Entry /\ Unknown \notin Seen(t)
  BY SizesAssumption DEF Seen, Entry, Unknown
<1>3. ASSUME hint' = hint, \A c \in Entry : fat[c] = 0 => fat'[c] = 0
      PROVE  NotLowest(fat', hint')
  <2>1. SUFFICES ASSUME hint \in Seen(fat')
                 PROVE  \E c \in Seen(fat') : c < hint
    BY <1>3 DEF NotLowest
  <2>2. hint \in Seen(fat)
    BY <1>1, <1>2, <2>1 DEF FreeHint, Seen
  <2>3. PICK c \in Seen(fat) : c < hint
    BY <1>1, <2>2 DEF NotLowest
  <2>4. c \in Seen(fat')
    BY <1>2, <1>3, <2>3 DEF Seen
  <2>5. QED
    BY <2>3, <2>4
<1>4. hint' = Unknown => NotLowest(fat', hint')
  BY <1>2 DEF NotLowest
<1>5. ASSUME NEW o \in Owner, NEW n \in 0 .. MaxRequest, Shrink(o, n)
      PROVE  NotLowest(fat', hint')
  <2>1. n \in Nat /\ hint' = hint
    BY <1>5 DEF Shrink
  <2>2. QED
    BY <1>1, <1>3, <1>5, <2>1, ShrinkChains
<1>6. ASSUME NEW o \in Owner, NEW n \in 0 .. MaxRequest, Grow(o, n)
      PROVE  NotLowest(fat', hint')
  BY <1>4, <1>6 DEF Grow
<1>7. ASSUME NEW o \in Owner, FreeClus(o)
      PROVE  NotLowest(fat', hint')
  <2>1. hint' = hint
    BY <1>7 DEF FreeClus
  <2>2. QED
    BY <1>1, <1>3, <1>7, <2>1, FreeChains
<1>8. ASSUME NEW o \in Owner, NEW q \in Owner, ExchangeMetaData(o, q)
      PROVE  NotLowest(fat', hint')
  BY <1>3, <1>8 DEF ExchangeMetaData
<1>9. ASSUME NEW o \in Owner, NEW n \in 0 .. MaxRequest, Quiet(o, n)
      PROVE  NotLowest(fat', hint')
  BY <1>3, <1>9 DEF Quiet, GrowRefused, GrowAborts
<1>10. CASE Statfs \/ UNCHANGED vars
  BY <1>3, <1>10 DEF Statfs, vars
<1>11. CASE Remount
  BY <1>4, <1>11 DEF Remount
<1>12. QED
  BY <1>5, <1>6, <1>7, <1>8, <1>9, <1>10, <1>11 DEF Next, Quiet

\* Volumes whose hint is trusted and not the lowest satisfy the invariant.
LEMMA ExactInit == TrustedHints /\ NoLowestHint /\ Init => IInvExact
BY ChainsInit DEF NoLowestHint, Init, IInvExact

\* What a resize that returns true leaves behind.
LEMMA ResizeChains ==
    ASSUME IInvExact, NEW o \in Owner, NEW n \in Nat, Shrink(o, n) \/ Grow(o, n)
    PROVE  /\ Len(ChainOf(o)') = n
           /\ \A i \in 1 .. n : i <= Len(ChainOf(o)) => ChainOf(o)'[i] = ChainOf(o)[i]
<1> DEFINE s == ChainOf(o)
<1>1. IInv /\ s \in Seq(Data) /\ Len(s) \in Nat /\ Size(o) = Len(s)
  BY ChainNow DEF IInvExact
<1>2. CASE Shrink(o, n)
  <2>1. n <= Len(s) /\ ChainOf(o)' = SubSeq(s, 1, n)
    BY <1>1, <1>2, ShrinkChains
  <2> HIDE DEF s
  <2>2. Len(SubSeq(s, 1, n)) = n /\ \A i \in 1 .. n : SubSeq(s, 1, n)[i] = s[i]
    BY <1>1, <2>1
  <2>3. QED
    BY <2>1, <2>2 DEF s
<1>3. CASE Grow(o, n)
  <2> DEFINE more == n - Size(o)
  <2>1. PICK m \in Seq(Data) : ChainOf(o)' = s \o m /\ Len(m) = Cardinality(Rest(more)) + 1
    BY <1>1, <1>3, GrowChains
  <2>2. more \in Nat /\ more > 0 /\ ~RunsOut(more)
    BY <1>1, <1>3 DEF Grow
  <2>3. Cardinality(Rest(more)) = more - 1
    BY <2>2, AllocatesExactly
  <2>4. Len(m) = n - Len(s)
    BY <1>1, <2>1, <2>2, <2>3
  <2> HIDE DEF s
  <2>5. Len(s \o m) = n /\ \A i \in 1 .. n : i <= Len(s) => (s \o m)[i] = s[i]
    BY <1>1, <2>1, <2>4
  <2>6. QED
    BY <2>1, <2>5 DEF s
<1>4. QED
  BY <1>2, <1>3

\* On volumes with a trusted free_count that is not the lowest free cluster a
\* resize that returns true leaves exactly the clusters asked for, the ones
\* the owner had first (File::truncate).
THEOREM ResizeAlwaysExact == TrustedHints /\ NoLowestHint => (Spec => ResizeExact)
<1> SUFFICES ASSUME TrustedHints, NoLowestHint PROVE Spec => ResizeExact
  OBVIOUS
<1> DEFINE Exact ==
      \A o \in Owner, n \in 0 .. MaxRequest :
          Shrink(o, n) \/ Grow(o, n) =>
            LET old == readClusChains(fat, fst[o])
                new == readClusChains(fat', fst'[o])
            IN  /\ Len(new) = n
                /\ \A i \in 1 .. Min({n, Len(old)}) : new[i] = old[i]
<1>1. Init => IInvExact
  BY ExactInit
<1>2. IInvExact /\ [Next]_vars => [Exact]_vars
  <2>1. SUFFICES ASSUME IInvExact, NEW o \in Owner, NEW n \in 0 .. MaxRequest,
                        Shrink(o, n) \/ Grow(o, n)
                 PROVE  /\ Len(ChainOf(o)') = n
                        /\ \A i \in 1 .. Min({n, Len(ChainOf(o))}) :
                              ChainOf(o)'[i] = ChainOf(o)[i]
    BY DEF ChainOf
  <2>2. n \in Nat /\ Len(ChainOf(o)) \in Nat
    BY <2>1, ChainNow DEF IInvExact
  <2>3. /\ Len(ChainOf(o)') = n
        /\ \A i \in 1 .. n : i <= Len(ChainOf(o)) => ChainOf(o)'[i] = ChainOf(o)[i]
    BY <2>1, <2>2, ResizeChains
  <2>4. /\ Min({n, Len(ChainOf(o))}) \in Nat /\ Min({n, Len(ChainOf(o))}) <= n
        /\ Min({n, Len(ChainOf(o))}) <= Len(ChainOf(o))
    <3>1. {n, Len(ChainOf(o))} \in SUBSET Nat /\ {n, Len(ChainOf(o))} # {}
      BY <2>2
    <3>2. /\ Min({n, Len(ChainOf(o))}) \in {n, Len(ChainOf(o))}
          /\ \A y \in {n, Len(ChainOf(o))} : Min({n, Len(ChainOf(o))}) <= y
      BY <3>1, MinProperty
    <3>3. QED
      BY <2>2, <3>2
  <2>5. QED
    BY <2>2, <2>3, <2>4
<1>3. QED
  BY <1>1, <1>2, ExactNext, PTL DEF Spec, ResizeExact

-----------------------------------------------------------------------------
(***************************************************************************)
(* The cached count follows the table.                                     *)
(***************************************************************************)

\* u32 arithmetic moves the counter by what is added, modulo its width.
LEMMA AvailMoves ==
    ASSUME NEW a \in Counts, NEW n \in Int
    PROVE  (AvailPlus(a, n) - a) % Word = n % Word
<1>1. Word \in Nat \ {0} /\ a \in Int /\ a # Unknown
  BY CountTypes, SizesAssumption DEF Counts, Unknown
<1>2. AvailPlus(a, n) = (a + n) % Word
  BY <1>1 DEF AvailPlus
<1> DEFINE k == a - n
<1>3. k \in Int /\ k + n = a /\ a - k = n
  BY <1>1
<1> HIDE DEF k
<1>4. (((a + n) % Word) - (k + n)) % Word = (a - k) % Word
  BY <1>1, <1>3, WrapKeepsDistance
<1>5. QED
  BY <1>2, <1>3, <1>4

\* The count a call works with: the one kept, or the first.
LEMMA CountIsCount ==
    ASSUME TypeOK
    PROVE  availClusCnt \in Counts /\ (avail # Unknown => availClusCnt = avail)
BY CountTypes DEF availClusCnt, TypeOK, Counts

\* On volumes with a trusted free_count that is not the lowest free cluster
\* every step but a shrink moves the cached count by the clusters that change
\* hands, wherever on the volume they are.
THEOREM CountAlwaysFollows == TrustedHints /\ NoLowestHint => (Spec => AvailFollows)
<1> SUFFICES ASSUME TrustedHints, NoLowestHint PROVE Spec => AvailFollows
  OBVIOUS
<1> DEFINE Moved ==
      (avail' - availClusCnt) % Word
          = (Cardinality(Free(fat')) - Cardinality(Free(fat))) % Word
<1> DEFINE Follows ==
      avail' # Unknown /\ ~ (\E o \in Owner, n \in 0 .. MaxRequest : Shrink(o, n)) => Moved
<1>1. Init => IInvExact
  BY ExactInit
<1>2. IInvExact /\ [Next]_vars => [Follows]_vars
  <2>1. SUFFICES ASSUME IInvExact, Next, avail' # Unknown,
                        ~ \E o \in Owner, n \in 0 .. MaxRequest : Shrink(o, n)
                 PROVE  Moved
    BY DEF vars
  <2>2. IInv /\ TypeOK
    BY <2>1 DEF IInvExact, IInv
  <2>3. IsFiniteSet(Free(fat)) /\ Free(fat) \in SUBSET Entry /\ Cardinality(Free(fat)) \in Nat
    <3>1. Free(fat) \in SUBSET Entry
      BY Numbers DEF Free
    <3>2. IsFiniteSet(Entry)
      BY FS_Interval, SizesAssumption DEF Entry
    <3>3. QED
      BY <3>1, <3>2, FS_Subset, FS_CardinalityType
  <2>4. availClusCnt \in Counts /\ (avail # Unknown => availClusCnt = avail)
    BY <2>2, CountIsCount
  <2>5. avail' = availClusCnt /\ fat' = fat => Moved
    <3>1. availClusCnt - availClusCnt = Cardinality(Free(fat)) - Cardinality(Free(fat))
      BY <2>3, <2>4 DEF Counts
    <3>2. QED
      BY <3>1
  <2>6. ASSUME NEW o \in Owner, NEW n \in 0 .. MaxRequest, Grow(o, n)
        PROVE  Moved
    <3> DEFINE more == n - Size(o)
               new == {First(more)} \cup Rest(more)
    <3>1. n \in Nat
      OBVIOUS
    <3>2. more \in Nat /\ more > 0 /\ ~RunsOut(more) /\ avail' = AvailPlus(availClusCnt, -more)
      BY <2>6, <3>1, SizeType DEF Grow
    <3>3. IsFiniteSet(Rest(more)) /\ Cardinality(Rest(more)) = more - 1
      BY <2>1, <3>2, AllocatesExactly
    <3>4. NewClusters(fat, First(more), Rest(more))
      BY <2>2, <2>6, <3>1, GrowsByFree
    <3>5. \A c \in Entry : fat'[c] = 0 <=> fat[c] = 0 /\ c \notin new
      BY <2>2, <2>6, <3>1, GrowChains
    <3> HIDE DEF more
    <3>6. IsFiniteSet(new) /\ Cardinality(new) = more
      <4>1. First(more) \notin Rest(more)
        BY <3>4 DEF NewClusters
      <4>2. QED
        BY <3>2, <3>3, <4>1, FS_AddElement
    <3>7. new \in SUBSET Free(fat)
      BY <3>4, Numbers DEF NewClusters, Free
    <3> HIDE DEF new
    <3>8. Free(fat') = Free(fat) \ new
      BY <3>5, Numbers DEF Free
    <3>9. Cardinality(Free(fat')) - Cardinality(Free(fat)) = -more
      <4>1. Cardinality(Free(fat) \ new) = Cardinality(Free(fat)) - Cardinality(Free(fat) \cap new)
        BY <2>3, FS_Difference
      <4>2. Free(fat) \cap new = new
        BY <3>7
      <4>3. Cardinality(Free(fat')) = Cardinality(Free(fat)) - more
        BY <3>6, <3>8, <4>1, <4>2
      <4>4. QED
        BY <2>3, <3>2, <4>3
    <3>10. -more \in Int
      BY <3>2
    <3>11. (AvailPlus(availClusCnt, -more) - availClusCnt) % Word = (-more) % Word
      BY <2>4, <3>10, AvailMoves
    <3>12. QED
      BY <3>2, <3>9, <3>11
  <2>7. ASSUME NEW o \in Owner, FreeClus(o)
        PROVE  Moved
    <3> DEFINE gone == Clusters(fat, fst[o])
    <3>1. avail' = AvailPlus(avail, Cardinality(gone))
      BY <2>7 DEF FreeClus
    <3>2. \A c \in Entry : fat'[c] = 0 <=> fat[c] = 0 \/ c \in gone
      BY <2>2, <2>7, FreeChains
    <3>3. \A c \in gone : c \in Data /\ c \in Entry /\ fat[c] # 0
      BY <2>2, ChainUsed
    <3>4. Cardinality(gone) \in Nat /\ IsFiniteSet(gone)
      <4>1. IsFiniteSet(Entry) /\ gone \in SUBSET Entry
        BY <3>3, FS_Interval, SizesAssumption DEF Entry
      <4>2. QED
        BY <4>1, FS_Subset, FS_CardinalityType
    <3> HIDE DEF gone
    <3>5. Free(fat') = Free(fat) \cup gone /\ Free(fat) \cap gone = {}
      BY <3>2, <3>3, Numbers DEF Free
    <3>6. Cardinality(Free(fat')) - Cardinality(Free(fat)) = Cardinality(gone)
      <4>1. Cardinality(Free(fat) \cup gone)
              = Cardinality(Free(fat)) + Cardinality(gone) - Cardinality(Free(fat) \cap gone)
        BY <2>3, <3>4, FS_Union
      <4>2. Cardinality(Free(fat) \cap gone) = 0
        BY <3>5, FS_EmptySet
      <4>3. QED
        BY <2>3, <3>4, <3>5, <4>1, <4>2
    <3>7. avail # Unknown
      BY <2>1, <3>1 DEF AvailPlus
    <3>8. (AvailPlus(availClusCnt, Cardinality(gone)) - availClusCnt) % Word
              = Cardinality(gone) % Word
      BY <2>4, <3>4, AvailMoves
    <3>9. QED
      BY <2>4, <3>1, <3>6, <3>7, <3>8
  <2>8. ASSUME NEW o \in Owner, NEW q \in Owner, ExchangeMetaData(o, q)
        PROVE  Moved
    BY <2>1, <2>4, <2>5, <2>8 DEF ExchangeMetaData
  <2>9. ASSUME NEW o \in Owner, NEW n \in 0 .. MaxRequest, GrowRefused(o, n)
        PROVE  Moved
    BY <2>5, <2>9 DEF GrowRefused
  <2>10. ASSUME NEW o \in Owner, NEW n \in 0 .. MaxRequest, GrowAborts(o, n)
         PROVE  Moved
    BY <2>1, <2>4, <2>5, <2>10 DEF GrowAborts
  <2>11. CASE Statfs
    BY <2>5, <2>11 DEF Statfs
  <2>12. CASE Remount
    BY <2>1, <2>12 DEF Remount
  <2>13. QED
    BY <2>1, <2>6, <2>7, <2>8, <2>9, <2>10, <2>11, <2>12 DEF Next
<1>3. QED
  BY <1>1, <1>2, ExactNext, PTL DEF Spec, AvailFollows
=============================================================================
