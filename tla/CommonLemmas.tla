---------------------------- MODULE CommonLemmas ----------------------------
(***************************************************************************)
(* Facts that the proofs about several components rest on: numbers in the  *)
(* form the provers use, and the lists of keys of an LRUCacheMap.          *)
(***************************************************************************)
EXTENDS LruCacheMap, FiniteSetsExt, FiniteSetTheorems, SequenceTheorems,
        WellFoundedInduction, TLAPS

-----------------------------------------------------------------------------
(***************************************************************************)
(* Numbers: minimum, induction, order and division.                        *)
(***************************************************************************)
\* A non-empty set of natural numbers has a least element (Min in
\* FatTable and FileObjects, where the code takes the first free cluster or
\* entry).
LEMMA LeastElement ==
    ASSUME NEW S \in SUBSET Nat, S # {}
    PROVE  \E x \in S : \A y \in S : x <= y
<1>1. \E x \in S : \A y \in S : ~ (<<y, x>> \in OpToRel(<, Nat))
  BY WFMin, NatLessThanWellFounded
<1>2. \A x, y \in Nat : y < x => <<y, x>> \in OpToRel(<, Nat)
  BY Zenon DEF OpToRel
<1>3. PICK x \in S : \A y \in S : ~ (<<y, x>> \in OpToRel(<, Nat))
  BY <1>1
<1>4. \A y \in S : ~ (y < x)
  BY <1>2, <1>3
<1> QED
  BY <1>4

\* The operator Min of the community modules returns that element.
LEMMA MinProperty ==
    ASSUME NEW S \in SUBSET Nat, S # {}
    PROVE  Min(S) \in S /\ \A y \in S : Min(S) <= y
BY LeastElement DEF Min

\* Induction over the length of a walk, as a statement about sets.
LEMMA NatInduct ==
    ASSUME NEW S \in SUBSET Nat, 0 \in S, \A n \in S : n + 1 \in S
    PROVE  S = Nat
<1>1. SUFFICES ASSUME Nat \ S # {} PROVE FALSE
  OBVIOUS
<1>2. PICK x \in Nat \ S : \A y \in Nat \ S : x <= y
  BY <1>1, LeastElement
<1>3. x # 0 /\ x - 1 \in Nat
  BY <1>2
<1>4. x - 1 \in S
  BY <1>2, <1>3
<1> QED
  BY <1>2, <1>3, <1>4

-----------------------------------------------------------------------------
(***************************************************************************)
(* Finite sets of numbers in their order, as the scans of the table and of *)
(* the directories meet them.                                              *)
(***************************************************************************)
Enumerates(s, S) ==
    /\ s \in [1 .. Cardinality(S) -> S]
    /\ \A i, j \in 1 .. Cardinality(S) : i < j => s[i] < s[j]
    /\ \A x \in S : \E i \in 1 .. Cardinality(S) : s[i] = x

\* Every finite set of numbers has such an enumeration.
LEMMA Enumeration ==
    ASSUME NEW S \in SUBSET Nat, IsFiniteSet(S)
    PROVE  \E s : Enumerates(s, S)
<1> DEFINE Done == {n \in Nat : \A T \in SUBSET S :
                                  Cardinality(T) = n => \E s : Enumerates(s, T)}
<1>1. \A T \in SUBSET S : IsFiniteSet(T) /\ Cardinality(T) \in Nat
  BY FS_Subset, FS_CardinalityType
<1>2. 0 \in Done
  <2>1. SUFFICES ASSUME NEW T \in SUBSET S, Cardinality(T) = 0
                 PROVE  \E s : Enumerates(s, T)
    OBVIOUS
  <2>2. T = {}
    BY <1>1, <2>1, FS_EmptySet
  <2>3. Enumerates([i \in {} |-> 0], T)
    BY <2>1, <2>2 DEF Enumerates
  <2>4. QED
    BY <2>3
<1>3. ASSUME NEW n \in Done
      PROVE  n + 1 \in Done
  <2>1. SUFFICES ASSUME NEW T \in SUBSET S, Cardinality(T) = n + 1
                 PROVE  \E s : Enumerates(s, T)
    OBVIOUS
  <2>2. T # {}
    <3>1. n + 1 # 0 /\ Cardinality({}) = 0
      BY FS_EmptySet
    <3>2. QED
      BY <2>1, <3>1
  <2>3. PICK x \in T : \A y \in T : x <= y
    BY <2>2, LeastElement
  <2> DEFINE R == T \ {x}
  <2>4. Cardinality(R) = n
    BY <1>1, <2>1, <2>3, FS_RemoveElement
  <2>5. R \in SUBSET S
    OBVIOUS
  <2>6. PICK r : Enumerates(r, R)
    BY <2>4, <2>5
  <2> DEFINE s == [i \in 1 .. n + 1 |-> IF i = 1 THEN x ELSE r[i - 1]]
  <2>7. /\ r \in [1 .. n -> R] /\ \A i, j \in 1 .. n : i < j => r[i] < r[j]
        /\ \A y \in R : \E i \in 1 .. n : r[i] = y
    BY <2>4, <2>6 DEF Enumerates
  <2>8. ASSUME NEW i \in 2 .. n + 1
        PROVE  s[i] = r[i - 1] /\ s[i] \in T /\ x < s[i] /\ i - 1 \in 1 .. n
    <3>1. i - 1 \in 1 .. n /\ s[i] = r[i - 1] /\ r[i - 1] \in R
      BY <2>7
    <3>2. r[i - 1] \in T /\ r[i - 1] # x
      BY <3>1
    <3>3. x <= r[i - 1] /\ x \in Nat /\ r[i - 1] \in Nat
      BY <2>3, <3>2
    <3>4. QED
      BY <3>1, <3>2, <3>3
  <2>9. s[1] = x
    OBVIOUS
  <2>10. \A i \in 1 .. n : s[i + 1] = r[i] /\ i + 1 \in 1 .. n + 1
    OBVIOUS
  <2>11. DOMAIN s = 1 .. n + 1
    OBVIOUS
  <2> HIDE DEF s
  <2>12. \A i \in 1 .. n + 1 : i = 1 \/ i \in 2 .. n + 1
    OBVIOUS
  <2>13. s \in [1 .. n + 1 -> T]
    BY <2>3, <2>8, <2>9, <2>12 DEF s
  <2>14. ASSUME NEW i \in 1 .. n + 1, NEW j \in 1 .. n + 1, i < j
         PROVE  s[i] < s[j]
    <3>1. j \in 2 .. n + 1
      BY <2>14
    <3>2. CASE i = 1
      BY <2>8, <2>9, <3>1, <3>2
    <3>3. CASE i \in 2 .. n + 1
      <4>1. i - 1 < j - 1
        BY <2>14
      <4>2. QED
        BY <2>7, <2>8, <3>1, <3>3, <4>1
    <3>4. QED
      BY <2>12, <3>2, <3>3
  <2>15. ASSUME NEW y \in T
         PROVE  \E i \in 1 .. n + 1 : s[i] = y
    <3>1. CASE y = x
      <4>1. 1 \in 1 .. n + 1
        OBVIOUS
      <4>2. QED
        BY <2>9, <3>1, <4>1
    <3>2. CASE y # x
      <4>1. PICK i \in 1 .. n : r[i] = y
        BY <2>7, <3>2
      <4>2. QED
        BY <2>10, <4>1
    <3>3. QED
      BY <3>1, <3>2
  <2>16. Enumerates(s, T)
    BY <2>1, <2>13, <2>14, <2>15 DEF Enumerates
  <2>17. QED
    BY <2>16
<1>4. Done = Nat
  <2> HIDE DEF Done
  <2>1. Done \in SUBSET Nat
    BY DEF Done
  <2>2. QED
    BY <1>2, <1>3, <2>1, NatInduct
<1>5. S \in SUBSET S /\ Cardinality(S) \in Nat
  BY <1>1
<1>6. QED
  BY <1>4, <1>5

\* The image of an injective function on 1 .. n has n elements.
LEMMA CountImage ==
    ASSUME NEW n \in Nat, NEW s, NEW S,
           \A i \in 1 .. n : s[i] \in S,
           \A i, j \in 1 .. n : s[i] = s[j] => i = j,
           \A x \in S : \E i \in 1 .. n : s[i] = x
    PROVE  IsFiniteSet(S) /\ Cardinality(S) = n
<1> DEFINE b == [i \in 1 .. n |-> s[i]]
<1>1. b \in Bijection(1 .. n, S)
  BY DEF Bijection, Injection, Surjection, IsInjective
<1>2. ExistsBijection(1 .. n, S)
  BY <1>1 DEF ExistsBijection
<1>3. IsFiniteSet(1 .. n)
  BY FS_Interval
<1>4. QED
  BY <1>2, <1>3, FS_Bijection, FS_CountingElements

\* The elements of which fewer than w are smaller are the w first ones, as
\* FAT::allocClus takes them.
LEMMA FirstOnes ==
    ASSUME NEW S \in SUBSET Nat, IsFiniteSet(S), NEW w \in Nat, w <= Cardinality(S)
    PROVE  Cardinality({c \in S : Cardinality({d \in S : d < c}) < w}) = w
<1> DEFINE n == Cardinality(S)
           below(c) == {d \in S : d < c}
<1>1. PICK s : Enumerates(s, S)
  BY Enumeration
<1>2. n \in Nat
  BY FS_CardinalityType
<1>3. /\ \A i \in 1 .. n : s[i] \in S /\ s[i] \in Nat
      /\ \A i, j \in 1 .. n : i < j => s[i] < s[j]
      /\ \A x \in S : \E i \in 1 .. n : s[i] = x
  BY <1>1 DEF Enumerates
<1> HIDE DEF n
<1>4. \A i, j \in 1 .. n : s[i] = s[j] => i = j
  BY <1>2, <1>3
<1>5. ASSUME NEW i \in 1 .. n
      PROVE  Cardinality(below(s[i])) = i - 1
  <2>1. i - 1 \in Nat /\ \A j \in 1 .. i - 1 : j \in 1 .. n /\ j < i
    BY <1>2
  <2>2. \A j \in 1 .. i - 1 : s[j] \in below(s[i])
    BY <1>3, <2>1
  <2>3. \A j, k \in 1 .. i - 1 : s[j] = s[k] => j = k
    BY <1>4, <2>1
  <2>4. ASSUME NEW x \in below(s[i])
        PROVE  \E j \in 1 .. i - 1 : s[j] = x
    <3>1. PICK j \in 1 .. n : s[j] = x
      BY <1>3
    <3>2. j < i
      BY <1>2, <1>3, <3>1
    <3>3. QED
      BY <2>1, <3>1, <3>2
  <2> HIDE DEF below
  <2>5. QED
    BY <2>1, <2>2, <2>3, <2>4, CountImage
<1> DEFINE T == {c \in S : Cardinality(below(c)) < w}
<1> HIDE DEF below
<1>6. \A i \in 1 .. w : i \in 1 .. n /\ i - 1 < w
  BY <1>2 DEF n
<1>7. \A i \in 1 .. w : s[i] \in T
  BY <1>3, <1>5, <1>6
<1>8. \A i, j \in 1 .. w : s[i] = s[j] => i = j
  BY <1>4, <1>6
<1>9. ASSUME NEW x \in T
      PROVE  \E i \in 1 .. w : s[i] = x
  <2>1. PICK i \in 1 .. n : s[i] = x
    BY <1>3
  <2>2. i - 1 < w
    BY <1>5, <2>1
  <2>3. QED
    BY <1>2, <2>1, <2>2
<1>10. Cardinality(T) = w
  <2> HIDE DEF T
  <2>1. QED
    BY <1>7, <1>8, <1>9, CountImage
<1>11. QED
  BY <1>10 DEF below

-----------------------------------------------------------------------------
(***************************************************************************)
(* Quotients and remainders, which carry offsets to sectors and clusters.  *)
(***************************************************************************)
\* Products keep the order.
LEMMA MulMono ==
    ASSUME NEW d \in Nat, NEW a \in Int, NEW b \in Int, a <= b
    PROVE  d * a <= d * b
OBVIOUS

\* Quotient and remainder, as the solvers know them.
LEMMA DivModIs ==
    ASSUME NEW d \in Nat \ {0}, NEW a \in Nat
    PROVE  /\ a \div d \in Nat /\ a % d \in 0 .. d - 1
           /\ a = d * (a \div d) + (a % d)
OBVIOUS
\* Quotient and remainder of an integer.
LEMMA DivModOfInt ==
    ASSUME NEW d \in Nat \ {0}, NEW a \in Int
    PROVE  /\ a \div d \in Int /\ a % d \in 0 .. d - 1
           /\ a = d * (a \div d) + (a % d)
OBVIOUS

\* A position has one quotient and one remainder: two bytes of a file do not
\* share a byte of a sector.
LEMMA DivModUnique ==
    ASSUME NEW d \in Nat \ {0},
           NEW q \in Int, NEW r \in 0 .. d - 1, NEW p \in Int, NEW s \in 0 .. d - 1,
           d * q + r = d * p + s
    PROVE  q = p /\ r = s
<1>1. ~(q < p)
  <2> SUFFICES ASSUME q + 1 <= p
               PROVE  FALSE
    OBVIOUS
  <2>1. d * (q + 1) <= d * p
    BY MulMono
  <2>2. d * (q + 1) = d * q + d
    OBVIOUS
  <2>3. QED
    BY <2>1, <2>2
<1>2. ~(p < q)
  <2> SUFFICES ASSUME p + 1 <= q
               PROVE  FALSE
    OBVIOUS
  <2>1. d * (p + 1) <= d * q
    BY MulMono
  <2>2. d * (p + 1) = d * p + d
    OBVIOUS
  <2>3. QED
    BY <2>1, <2>2
<1>3. QED
  BY <1>1, <1>2

\* Quotient and remainder of a sum written that way.
LEMMA DivModOf ==
    ASSUME NEW d \in Nat \ {0}, NEW q \in Int, NEW r \in 0 .. d - 1
    PROVE  (d * q + r) \div d = q /\ (d * q + r) % d = r
<1> DEFINE a == d * q + r
<1>1. a \in Int
  OBVIOUS
<1>2. a \div d \in Int /\ a % d \in 0 .. d - 1 /\ a = d * (a \div d) + (a % d)
  BY <1>1, DivModOfInt
<1>3. d * q + r = d * (a \div d) + (a % d)
  BY <1>2
<1> HIDE DEF a
<1>4. q = a \div d /\ r = a % d
  BY <1>2, <1>3, DivModUnique
<1>5. QED
  BY <1>4 DEF a

\* A quotient is below a bound when the position is below as many units: the
\* sectors of a chain hold its bytes and no others (File::read, File::write).
LEMMA DivLess ==
    ASSUME NEW d \in Nat \ {0}, NEW a \in Nat, NEW l \in Nat
    PROVE  a \div d < l <=> a < d * l
<1>1. a \div d \in Nat /\ a % d \in 0 .. d - 1 /\ a = d * (a \div d) + (a % d)
  BY DivModIs
<1> DEFINE q == a \div d
           r == a % d
<1> HIDE DEF q, r
<1>2. q \in Nat /\ r \in 0 .. d - 1 /\ a = d * q + r
  BY <1>1 DEF q, r
<1>3. ASSUME q < l
      PROVE  a < d * l
  <2>1. d * (q + 1) <= d * l
    BY <1>2, <1>3, MulMono
  <2>2. d * (q + 1) = d * q + d
    BY <1>2
  <2>3. QED
    BY <1>2, <2>1, <2>2
<1>4. ASSUME l <= q
      PROVE  d * l <= a
  <2>1. d * l <= d * q
    BY <1>2, <1>4, MulMono
  <2>2. QED
    BY <1>2, <2>1
<1>5. QED
  BY <1>2, <1>3, <1>4 DEF q

\* Dividing twice is dividing by the product: the sector of an offset and then
\* its cluster, or the cluster at once (File::read, File::write).
LEMMA DivTwice ==
    ASSUME NEW d \in Nat \ {0}, NEW e \in Nat \ {0}, NEW o \in Nat
    PROVE  /\ d * e \in Nat \ {0}
           /\ (o \div d) \div e = o \div (d * e)
           /\ ((o \div d) % e) * d + (o % d) = o % (d * e)
<1>1. /\ o \div d \in Nat /\ o % d \in 0 .. d - 1
      /\ o = d * (o \div d) + (o % d)
  BY DivModIs
<1> DEFINE n == o \div d
           b == o % d
           q == n \div e
           r == n % e
<1>2. q \in Nat /\ r \in 0 .. e - 1 /\ n = e * q + r
  BY <1>1, DivModIs
<1> HIDE DEF q, r
<1>3. n \in Nat /\ b \in 0 .. d - 1 /\ o = d * n + b
  BY <1>1
<1> HIDE DEF n, b
<1>4. d * n = d * (e * q) + d * r
  BY <1>2, <1>3
<1>5. d * (e * q) = (d * e) * q
  BY <1>2
<1>6. d * e \in Nat \ {0}
  <2>1. d * 1 <= d * e
    BY MulMono
  <2>2. QED
    BY <2>1
<1>7. d * r \in Nat /\ d * r + d <= d * e
  <2>1. d * (r + 1) <= d * e /\ d * r \in Nat
    BY <1>2, MulMono
  <2>2. d * (r + 1) = d * r + d
    BY <1>2
  <2>3. QED
    BY <2>1, <2>2
<1> DEFINE c == d * e
           s == d * r + b
<1>8. c \in Nat \ {0} /\ s \in 0 .. c - 1 /\ o = c * q + s
  BY <1>2, <1>3, <1>4, <1>5, <1>6, <1>7
<1>9. s = r * d + b
  BY <1>2, <1>3
<1> HIDE DEF c, s
<1>10. o \div c = q /\ o % c = s
  BY <1>2, <1>8, DivModOf
<1>11. QED
  BY <1>6, <1>9, <1>10 DEF c, q, r, n, b

\* A counter that wraps keeps its distance from another number, whatever is
\* added to both (FAT::inc_avail_cnt, FAT::dec_avail_cnt).
LEMMA WrapKeepsDistance ==
    ASSUME NEW d \in Nat \ {0}, NEW a \in Int, NEW b \in Int, NEW n \in Int
    PROVE  (((a + n) % d) - (b + n)) % d = (a - b) % d
<1> DEFINE x == a + n
           y == a - b
           q == x \div d
           u == x % d
           p == y \div d
           r == y % d
<1>1. x \in Int /\ y \in Int /\ x - (b + n) = y
  OBVIOUS
<1> HIDE DEF x, y
<1>2. q \in Int /\ u \in 0 .. d - 1 /\ x = d * q + u
  BY <1>1, DivModOfInt
<1>3. p \in Int /\ r \in 0 .. d - 1 /\ y = d * p + r
  BY <1>1, DivModOfInt
<1> HIDE DEF q, u, p, r
<1>4. d * p - d * q = d * (p - q) /\ p - q \in Int
  BY <1>2, <1>3
<1>5. u - (b + n) = d * (p - q) + r
  BY <1>1, <1>2, <1>3, <1>4
<1>6. (d * (p - q) + r) % d = r
  BY <1>3, <1>4, DivModOf
<1>7. QED
  BY <1>5, <1>6 DEF r, u, x, y

-----------------------------------------------------------------------------
(***************************************************************************)
(* What the operations of LRUCacheMap do to the list of keys, for lists of *)
(* any length over any set of keys.                                        *)
(***************************************************************************)
\* The first element of a list is the one it was put in front of, the others
\* move up by one (push_front in LRUCacheMap::put).
LEMMA InFrontOf ==
    ASSUME NEW S, NEW list \in Seq(S), NEW k \in S
    PROVE  /\ <<k>> \o list \in Seq(S)
           /\ Len(<<k>> \o list) = Len(list) + 1
           /\ \A i \in 1 .. Len(list) + 1 :
                (<<k>> \o list)[i] = IF i = 1 THEN k ELSE list[i - 1]
<1>1. <<k>> \in Seq(S) /\ Len(<<k>>) = 1 /\ <<k>>[1] = k
  OBVIOUS
<1>2. Len(list) \in Nat
  BY LenProperties
<1>3. QED
  BY <1>1, <1>2, ConcatProperties

\* Erasing the entry the map points at closes the gap it leaves and keeps the
\* order of the others (erase in LRUCacheMap::put and remove).
LEMMA DropKnown ==
    ASSUME NEW S, NEW list \in Seq(S), NEW k, contains(list, k)
    PROVE  \E p \in 1 .. Len(list) :
              /\ list[p] = k
              /\ Drop(list, k) \in Seq(S)
              /\ Len(Drop(list, k)) = Len(list) - 1
              /\ \A i \in 1 .. Len(list) - 1 :
                    Drop(list, k)[i] = IF i < p THEN list[i] ELSE list[i + 1]
<1> DEFINE p == iteratorOf(list, k)
           front == SubSeq(list, 1, p - 1)
           back == SubSeq(list, p + 1, Len(list))
<1>1. Len(list) \in Nat /\ DOMAIN list = 1 .. Len(list)
  BY LenProperties
<1>2. p \in 1 .. Len(list) /\ list[p] = k
  BY <1>1 DEF contains, ToSet, iteratorOf
<1>3. \A i \in 1 .. Len(list) : list[i] \in S
  BY ElementOfSeq
<1> HIDE DEF p
<1>4. /\ front \in Seq(S) /\ Len(front) = p - 1
      /\ \A i \in 1 .. p - 1 : front[i] = list[i]
  <2>1. \A i \in 1 .. p - 1 : list[i] \in S
    BY <1>1, <1>2, <1>3
  <2>2. QED
    BY <1>1, <1>2, <2>1, SubSeqProperties
<1>5. /\ back \in Seq(S) /\ Len(back) = Len(list) - p
      /\ \A i \in 1 .. Len(list) - p : back[i] = list[p + i]
  <2>1. \A i \in p + 1 .. Len(list) : list[i] \in S
    BY <1>1, <1>2, <1>3
  <2>2. /\ back \in Seq(S)
        /\ Len(back) = IF p + 1 <= Len(list) THEN Len(list) - (p + 1) + 1 ELSE 0
        /\ \A i \in 1 .. Len(list) - (p + 1) + 1 : back[i] = list[p + 1 + i - 1]
    BY <1>1, <1>2, <2>1, SubSeqProperties
  <2>3. \A i \in 1 .. Len(list) - p :
           i \in 1 .. Len(list) - (p + 1) + 1 /\ p + 1 + i - 1 = p + i
    BY <1>1, <1>2
  <2>4. \A i \in 1 .. Len(list) - p : back[i] = list[p + i]
    BY <2>2, <2>3
  <2>5. Len(back) = Len(list) - p
    BY <1>1, <1>2, <2>2
  <2>6. QED
    BY <2>2, <2>4, <2>5
<1>6. Drop(list, k) = front \o back
  BY DEF Drop, RemoveAt, p
<1> HIDE DEF front, back
<1>7. /\ front \o back \in Seq(S)
      /\ Len(front \o back) = Len(list) - 1
      /\ \A i \in 1 .. Len(list) - 1 :
            (front \o back)[i] = IF i <= p - 1 THEN front[i] ELSE back[i - (p - 1)]
  <2>1. /\ front \o back \in Seq(S)
        /\ Len(front \o back) = Len(front) + Len(back)
        /\ \A i \in 1 .. Len(front) + Len(back) :
              (front \o back)[i] = IF i <= Len(front) THEN front[i] ELSE back[i - Len(front)]
    BY <1>4, <1>5, ConcatProperties
  <2>2. Len(front) + Len(back) = Len(list) - 1 /\ Len(front) = p - 1
    BY <1>1, <1>2, <1>4, <1>5
  <2>3. QED
    BY <2>1, <2>2
<1>8. \A i \in 1 .. Len(list) - 1 :
         (front \o back)[i] = IF i < p THEN list[i] ELSE list[i + 1]
  <2> SUFFICES ASSUME NEW i \in 1 .. Len(list) - 1
               PROVE  (front \o back)[i] = IF i < p THEN list[i] ELSE list[i + 1]
    OBVIOUS
  <2>1. CASE i < p
    BY <2>1, <1>1, <1>2, <1>4, <1>7
  <2>2. CASE ~(i < p)
    BY <2>2, <1>1, <1>2, <1>5, <1>7
  <2>3. QED
    BY <2>1, <2>2
<1>9. QED
  BY <1>2, <1>6, <1>7, <1>8

\* Of a list without repetitions the key is gone and every other one stays:
\* the map and the list agree after an erase (LRUCacheMap::remove).
LEMMA DropResult ==
    ASSUME NEW S, NEW list \in Seq(S), NEW k, IsInjective(list)
    PROVE  /\ Drop(list, k) \in Seq(S)
           /\ IsInjective(Drop(list, k))
           /\ ToSet(Drop(list, k)) = ToSet(list) \ {k}
           /\ Len(Drop(list, k)) <= Len(list)
           /\ contains(list, k) => Len(Drop(list, k)) = Len(list) - 1
<1>1. Len(list) \in Nat /\ DOMAIN list = 1 .. Len(list)
  BY LenProperties
<1> DEFINE d == Drop(list, k)
<1> HIDE DEF d
<1>2. CASE ~contains(list, k)
  <2>1. d = list /\ k \notin ToSet(list)
    BY <1>2 DEF contains, Drop, d
  <2>2. ToSet(list) = ToSet(list) \ {k}
    BY <2>1
  <2>3. Drop(list, k) = list
    BY <2>1 DEF d
  <2>4. Drop(list, k) \in Seq(S)
    BY <2>3
  <2>5. IsInjective(Drop(list, k))
    BY <2>3
  <2>6. ToSet(Drop(list, k)) = ToSet(list) \ {k}
    BY <2>2, <2>3
  <2>7. Len(Drop(list, k)) <= Len(list)
    BY <1>1, <2>3
  <2>8. QED
    BY <1>2, <2>4, <2>5, <2>6, <2>7
<1>3. CASE contains(list, k)
  <2>1. PICK p \in 1 .. Len(list) :
           /\ list[p] = k
           /\ d \in Seq(S)
           /\ Len(d) = Len(list) - 1
           /\ \A i \in 1 .. Len(list) - 1 : d[i] = IF i < p THEN list[i] ELSE list[i + 1]
    <3>1. \E p \in 1 .. Len(list) :
              /\ list[p] = k
              /\ Drop(list, k) \in Seq(S)
              /\ Len(Drop(list, k)) = Len(list) - 1
              /\ \A i \in 1 .. Len(list) - 1 :
                    Drop(list, k)[i] = IF i < p THEN list[i] ELSE list[i + 1]
      BY <1>3, DropKnown
    <3>2. QED
      BY <3>1 DEF d
  <2>2. DOMAIN d = 1 .. Len(list) - 1
    BY <2>1, LenProperties
  <2>3. IsInjective(d)
    <3> SUFFICES ASSUME NEW i \in 1 .. Len(list) - 1, NEW j \in 1 .. Len(list) - 1, d[i] = d[j]
                 PROVE  i = j
      BY <2>2 DEF IsInjective
    <3>1. \A x, y \in 1 .. Len(list) : list[x] = list[y] => x = y
      BY <1>1 DEF IsInjective
    <3>2. /\ d[i] = IF i < p THEN list[i] ELSE list[i + 1]
          /\ d[j] = IF j < p THEN list[j] ELSE list[j + 1]
      BY <2>1
    <3>3. i \in 1 .. Len(list) /\ i + 1 \in 1 .. Len(list) /\ j \in 1 .. Len(list) /\ j + 1 \in 1 .. Len(list)
      BY <1>1
    <3> DEFINE x == IF i < p THEN i ELSE i + 1
               y == IF j < p THEN j ELSE j + 1
    <3>4. x \in 1 .. Len(list) /\ y \in 1 .. Len(list) /\ d[i] = list[x] /\ d[j] = list[y]
      BY <3>2, <3>3
    <3>5. x = y
      BY <3>1, <3>4
    <3>6. QED
      BY <1>1, <3>5
  <2>4. \A i \in 1 .. Len(list) - 1 : d[i] \in ToSet(list) \ {k}
    <3> SUFFICES ASSUME NEW i \in 1 .. Len(list) - 1
                 PROVE  d[i] \in ToSet(list) \ {k}
      OBVIOUS
    <3>1. PICK x \in 1 .. Len(list) : d[i] = list[x] /\ x # p
      BY <1>1, <2>1
    <3>2. QED
      BY <1>1, <2>1, <3>1 DEF ToSet, IsInjective
  <2>5. \A q \in ToSet(list) \ {k} : \E i \in 1 .. Len(list) - 1 : d[i] = q
    <3> SUFFICES ASSUME NEW q \in ToSet(list) \ {k}
                 PROVE  \E i \in 1 .. Len(list) - 1 : d[i] = q
      OBVIOUS
    <3>1. PICK x \in 1 .. Len(list) : list[x] = q /\ x # p
      BY <1>1, <2>1 DEF ToSet
    <3>2. CASE x < p
      BY <1>1, <2>1, <3>1, <3>2
    <3>3. CASE x > p
      <4>1. x - 1 \in 1 .. Len(list) - 1 /\ ~(x - 1 < p) /\ x - 1 + 1 = x
        BY <1>1, <3>3
      <4>2. QED
        BY <2>1, <3>1, <4>1
    <3>4. QED
      BY <3>1, <3>2, <3>3
  <2>6. ToSet(d) = ToSet(list) \ {k}
    BY <2>2, <2>4, <2>5 DEF ToSet
  <2>7. QED
    BY <1>1, <2>1, <2>3, <2>6 DEF d
<1>4. QED
  BY <1>2, <1>3

\* A key that is not in the list may be put in front of it
\* (LRUCacheMap::put after the erase).
LEMMA InFrontResult ==
    ASSUME NEW S, NEW list \in Seq(S), NEW k \in S, IsInjective(list), k \notin ToSet(list)
    PROVE  /\ <<k>> \o list \in Seq(S)
           /\ Len(<<k>> \o list) = Len(list) + 1
           /\ IsInjective(<<k>> \o list)
           /\ ToSet(<<k>> \o list) = ToSet(list) \cup {k}
<1> DEFINE g == <<k>> \o list
<1>1. Len(list) \in Nat /\ DOMAIN list = 1 .. Len(list)
  BY LenProperties
<1>2. /\ g \in Seq(S) /\ Len(g) = Len(list) + 1
      /\ \A i \in 1 .. Len(list) + 1 : g[i] = IF i = 1 THEN k ELSE list[i - 1]
  BY InFrontOf
<1> HIDE DEF g
<1>3. DOMAIN g = 1 .. Len(list) + 1
  BY <1>2, LenProperties
<1>4. g[1] = k /\ \A i \in 1 .. Len(list) : g[i + 1] = list[i] /\ i + 1 \in 1 .. Len(list) + 1
  <2>1. \A i \in 1 .. Len(list) : i + 1 \in 1 .. Len(list) + 1 /\ i + 1 # 1 /\ i + 1 - 1 = i
    BY <1>1
  <2>2. QED
    BY <1>1, <1>2, <2>1
<1>5. \A j \in 1 .. Len(list) + 1 : j = 1 \/ \E i \in 1 .. Len(list) : j = i + 1
  BY <1>1
<1>6. ToSet(g) = ToSet(list) \cup {k}
  <2>1. \A x : x \in ToSet(g) <=> \E j \in 1 .. Len(list) + 1 : x = g[j]
    BY <1>3 DEF ToSet
  <2>2. \A x : x \in ToSet(list) <=> \E i \in 1 .. Len(list) : x = list[i]
    BY <1>1 DEF ToSet
  <2>3. 1 \in 1 .. Len(list) + 1
    BY <1>1
  <2>4. k \in ToSet(g)
    BY <1>4, <2>1, <2>3
  <2>5. ToSet(list) \subseteq ToSet(g)
    BY <1>4, <2>1, <2>2
  <2>6. ASSUME NEW j \in 1 .. Len(list) + 1
        PROVE  g[j] \in ToSet(list) \cup {k}
    BY <1>4, <1>5, <2>2
  <2>7. QED
    BY <2>1, <2>4, <2>5, <2>6
<1>7. IsInjective(g)
  <2>1. \A i \in 1 .. Len(list) : list[i] # k
    BY <1>1 DEF ToSet
  <2>2. \A i, j \in 1 .. Len(list) : list[i] = list[j] => i = j
    BY <1>1 DEF IsInjective
  <2>3. \A x, y \in 1 .. Len(list) + 1 : g[x] = g[y] => x = y
    BY <1>4, <1>5, <2>1, <2>2
  <2>4. QED
    BY <1>3, <2>3 DEF IsInjective
<1>8. QED
  BY <1>2, <1>6, <1>7 DEF g

\* Of a list without repetitions the entry at the back is gone after its
\* erase, and only that (the eviction of LRUCacheMap::put).
LEMMA FrontResult ==
    ASSUME NEW S, NEW list \in Seq(S), Len(list) > 0, IsInjective(list)
    PROVE  /\ Front(list) \in Seq(S)
           /\ Len(Front(list)) = Len(list) - 1
           /\ IsInjective(Front(list))
           /\ ToSet(Front(list)) = ToSet(list) \ {Last(list)}
           /\ \A i \in 1 .. Len(list) - 1 : Front(list)[i] = list[i]
<1> DEFINE n == Len(list)
           f == Front(list)
<1>1. n \in Nat /\ n > 0 /\ DOMAIN list = 1 .. n
  BY LenProperties
<1> HIDE DEF n
<1>2. \A i \in 1 .. n - 1 : list[i] \in S
  <2>1. list \in [1 .. n -> S]
    BY LenProperties DEF n
  <2>2. QED
    BY <1>1, <2>1
<1>3. /\ f \in Seq(S)
      /\ Len(f) = IF 1 <= n - 1 THEN n - 1 - 1 + 1 ELSE 0
      /\ \A i \in 1 .. n - 1 - 1 + 1 : f[i] = list[1 + i - 1]
  <2>1. n - 1 \in Int
    BY <1>1
  <2>2. QED
    BY <1>2, <2>1, SubSeqProperties DEF Front, n
<1> HIDE DEF f
<1>4. Len(f) = n - 1 /\ \A i \in 1 .. n - 1 : f[i] = list[i]
  <2>1. \A i \in 1 .. n - 1 : i \in 1 .. n - 1 - 1 + 1 /\ 1 + i - 1 = i
    BY <1>1
  <2>2. Len(f) = n - 1
    BY <1>1, <1>3
  <2>3. QED
    BY <1>3, <2>1, <2>2
<1>5. DOMAIN f = 1 .. n - 1
  BY <1>3, <1>4, LenProperties
<1>6. \A x, y \in 1 .. n : list[x] = list[y] => x = y
  BY <1>1 DEF IsInjective
<1>7. \A i \in 1 .. n - 1 : i \in 1 .. n /\ i # n
  BY <1>1
<1>8. IsInjective(f)
  BY <1>4, <1>5, <1>6, <1>7 DEF IsInjective
<1>9. ToSet(f) = ToSet(list) \ {Last(list)}
  <2>1. \A x : x \in ToSet(f) <=> \E i \in 1 .. n - 1 : x = f[i]
    BY <1>5 DEF ToSet
  <2>2. \A x : x \in ToSet(list) <=> \E i \in 1 .. n : x = list[i]
    BY <1>1 DEF ToSet
  <2>3. n \in 1 .. n /\ Last(list) = list[n]
    BY <1>1 DEF Last, n
  <2>4. ASSUME NEW i \in 1 .. n - 1
        PROVE  f[i] \in ToSet(list) \ {Last(list)}
    BY <1>4, <1>6, <1>7, <2>2, <2>3
  <2>5. ASSUME NEW i \in 1 .. n, list[i] # Last(list)
        PROVE  list[i] \in ToSet(f)
    <3>1. i \in 1 .. n - 1
      BY <1>1, <2>3, <2>5
    <3>2. QED
      BY <1>4, <2>1, <3>1
  <2>6. QED
    BY <2>1, <2>2, <2>4, <2>5
<1>10. QED
  BY <1>3, <1>4, <1>8, <1>9 DEF f, n

\* A list without repetitions holds as many keys as it is long: what
\* LRUCacheMap::put compares with max_size_ is the size of the map.
LEMMA SizeOfList ==
    ASSUME NEW S, NEW list \in Seq(S), IsInjective(list)
    PROVE  IsFiniteSet(ToSet(list)) /\ Cardinality(ToSet(list)) = Len(list)
<1>1. Len(list) \in Nat /\ DOMAIN list = 1 .. Len(list)
  BY LenProperties
<1>2. list \in [1 .. Len(list) -> ToSet(list)]
  <2>1. list \in [1 .. Len(list) -> S]
    BY LenProperties
  <2>2. \A i \in 1 .. Len(list) : list[i] \in ToSet(list)
    BY <1>1 DEF ToSet
  <2>3. QED
    BY <2>1, <2>2
<1>3. list \in Bijection(1 .. Len(list), ToSet(list))
  <2>1. \A q \in ToSet(list) : \E i \in 1 .. Len(list) : list[i] = q
    BY <1>1 DEF ToSet
  <2>2. QED
    BY <1>2, <2>1 DEF Bijection, Injection, Surjection
<1>4. ExistsBijection(1 .. Len(list), ToSet(list))
  BY <1>3 DEF ExistsBijection
<1>5. IsFiniteSet(1 .. Len(list)) /\ Cardinality(1 .. Len(list)) = Len(list)
  BY <1>1, FS_Interval
<1>6. QED
  BY <1>4, <1>5, FS_Bijection

-----------------------------------------------------------------------------
\* q was used after r: it is nearer to the front.
Nearer(list, q, r) == \E i, j \in 1 .. Len(list) : i < j /\ list[i] = q /\ list[j] = r

\* Erasing an entry keeps the order of the others.
LEMMA DropOrder ==
    ASSUME NEW S, NEW list \in Seq(S), NEW k, NEW q, NEW r, Nearer(Drop(list, k), q, r)
    PROVE  Nearer(list, q, r)
<1>1. CASE ~contains(list, k)
  BY <1>1 DEF Drop
<1>2. CASE contains(list, k)
  <2> DEFINE d == Drop(list, k)
  <2> HIDE DEF d
  <2>1. Len(list) \in Nat
    BY LenProperties
  <2>2. PICK p \in 1 .. Len(list) :
           /\ list[p] = k
           /\ d \in Seq(S)
           /\ Len(d) = Len(list) - 1
           /\ \A i \in 1 .. Len(list) - 1 : d[i] = IF i < p THEN list[i] ELSE list[i + 1]
    <3>1. \E p \in 1 .. Len(list) :
              /\ list[p] = k
              /\ Drop(list, k) \in Seq(S)
              /\ Len(Drop(list, k)) = Len(list) - 1
              /\ \A i \in 1 .. Len(list) - 1 :
                    Drop(list, k)[i] = IF i < p THEN list[i] ELSE list[i + 1]
      BY <1>2, DropKnown
    <3>2. QED
      BY <3>1 DEF d
  <2>3. PICK i, j \in 1 .. Len(list) - 1 : i < j /\ d[i] = q /\ d[j] = r
    <3>1. \E i, j \in 1 .. Len(d) : i < j /\ d[i] = q /\ d[j] = r
      BY DEF Nearer, d
    <3>2. QED
      BY <2>2, <3>1
  <2> DEFINE x == IF i < p THEN i ELSE i + 1
             y == IF j < p THEN j ELSE j + 1
  <2>4. x \in 1 .. Len(list) /\ y \in 1 .. Len(list) /\ x < y
    BY <2>1, <2>3
  <2>5. list[x] = q /\ list[y] = r
    BY <2>2, <2>3
  <2> HIDE DEF x, y
  <2>6. QED
    BY <2>4, <2>5 DEF Nearer
<1>3. QED
  BY <1>1, <1>2

\* A key put in front is ahead of all others, whose order is kept.
LEMMA InFrontOrder ==
    ASSUME NEW S, NEW list \in Seq(S), NEW k \in S, NEW q, NEW r, Nearer(<<k>> \o list, q, r)
    PROVE  r \in ToSet(list) /\ (q = k \/ Nearer(list, q, r))
<1> DEFINE g == <<k>> \o list
<1>1. Len(list) \in Nat /\ DOMAIN list = 1 .. Len(list)
  BY LenProperties
<1>2. /\ Len(g) = Len(list) + 1
      /\ \A i \in 1 .. Len(list) + 1 : g[i] = IF i = 1 THEN k ELSE list[i - 1]
  BY InFrontOf
<1> HIDE DEF g
<1>3. PICK i, j \in 1 .. Len(list) + 1 : i < j /\ g[i] = q /\ g[j] = r
  <2>1. \E i, j \in 1 .. Len(g) : i < j /\ g[i] = q /\ g[j] = r
    BY DEF Nearer, g
  <2>2. QED
    BY <1>2, <2>1
<1>4. j - 1 \in 1 .. Len(list) /\ list[j - 1] = r
  BY <1>1, <1>2, <1>3
<1>5. r \in ToSet(list)
  BY <1>1, <1>4 DEF ToSet
<1>6. CASE i = 1
  BY <1>2, <1>3, <1>5, <1>6
<1>7. CASE i # 1
  <2>1. i - 1 \in 1 .. Len(list) /\ list[i - 1] = q /\ i - 1 < j - 1
    BY <1>1, <1>2, <1>3, <1>7
  <2>2. Nearer(list, q, r)
    BY <1>4, <2>1 DEF Nearer
  <2>3. QED
    BY <1>5, <2>2
<1>8. QED
  BY <1>6, <1>7

\* Erasing the entry at the back keeps the order, and every entry that stays
\* was ahead of it: the one evicted is the one used longest ago.
LEMMA FrontOrder ==
    ASSUME NEW S, NEW list \in Seq(S), Len(list) > 0, IsInjective(list)
    PROVE  /\ \A q, r : Nearer(Front(list), q, r) => Nearer(list, q, r)
           /\ \A q \in ToSet(Front(list)) : Nearer(list, q, Last(list))
<1> DEFINE f == Front(list)
<1>1. Len(list) \in Nat
  BY LenProperties
<1>2. /\ f \in Seq(S) /\ Len(f) = Len(list) - 1
      /\ \A i \in 1 .. Len(list) - 1 : f[i] = list[i]
  BY FrontResult
<1> HIDE DEF f
<1>3. DOMAIN f = 1 .. Len(list) - 1
  BY <1>2, LenProperties
<1>4. \A i \in 1 .. Len(list) - 1 : i \in 1 .. Len(list) /\ i < Len(list)
  BY <1>1
<1>5. \A q, r : Nearer(f, q, r) => Nearer(list, q, r)
  BY <1>2, <1>4 DEF Nearer
<1>6. ASSUME NEW q \in ToSet(f)
      PROVE  Nearer(list, q, Last(list))
  <2>1. PICK i \in 1 .. Len(list) - 1 : q = f[i]
    BY <1>3 DEF ToSet
  <2>2. i \in 1 .. Len(list) /\ i < Len(list) /\ list[i] = q
    BY <1>2, <1>4, <2>1
  <2>3. Len(list) \in 1 .. Len(list) /\ list[Len(list)] = Last(list)
    BY <1>1 DEF Last
  <2>4. QED
    BY <2>2, <2>3 DEF Nearer
<1>7. QED
  BY <1>5, <1>6 DEF f

-----------------------------------------------------------------------------
\* The list put makes of a list before it looks at the size, and get of one
\* that holds the key.
Grown(list, k) == <<k>> \o Drop(list, k)

\* Moving a key to the front adds no other key, repeats none and keeps the
\* order of the others (LRUCacheMap::put, LRUCacheMap::get).
LEMMA GrownResult ==
    ASSUME NEW S, NEW list \in Seq(S), IsInjective(list), NEW k \in S
    PROVE  /\ Grown(list, k) \in Seq(S) /\ IsInjective(Grown(list, k))
           /\ ToSet(Grown(list, k)) = ToSet(list) \cup {k}
           /\ Len(Grown(list, k)) = Len(Drop(list, k)) + 1
           /\ Len(Grown(list, k)) > 0 /\ Grown(list, k)[1] = k
           /\ \A q, r : Nearer(Grown(list, k), q, r) => r # k /\ (q = k \/ Nearer(list, q, r))
<1> DEFINE d == Drop(list, k)
           g == Grown(list, k)
<1>1. /\ d \in Seq(S) /\ IsInjective(d) /\ ToSet(d) = ToSet(list) \ {k}
  BY DropResult
<1>2. \A q, r : Nearer(d, q, r) => Nearer(list, q, r)
  BY DropOrder
<1> HIDE DEF d, g
<1>3. g = <<k>> \o d
  BY DEF d, g, Grown
<1>4. /\ g \in Seq(S) /\ Len(g) = Len(d) + 1 /\ IsInjective(g) /\ ToSet(g) = ToSet(d) \cup {k}
  <2>1. k \notin ToSet(d)
    BY <1>1
  <2>2. /\ <<k>> \o d \in Seq(S) /\ Len(<<k>> \o d) = Len(d) + 1
        /\ IsInjective(<<k>> \o d) /\ ToSet(<<k>> \o d) = ToSet(d) \cup {k}
    BY <1>1, <2>1, InFrontResult
  <2>3. QED
    BY <1>3, <2>2
<1>5. Len(d) \in Nat
  BY <1>1, LenProperties
<1>6. g[1] = k
  <2>1. 1 \in 1 .. Len(d) + 1
    BY <1>5
  <2>2. QED
    BY <1>1, <1>3, <2>1, InFrontOf
<1>7. ASSUME NEW q, NEW r, Nearer(g, q, r)
      PROVE  r # k /\ (q = k \/ Nearer(list, q, r))
  <2>1. r \in ToSet(d) /\ (q = k \/ Nearer(d, q, r))
    BY <1>1, <1>3, <1>7, InFrontOrder
  <2>2. QED
    BY <1>1, <1>2, <2>1
<1>8. ToSet(g) = ToSet(list) \cup {k}
  BY <1>1, <1>4
<1>9. Len(g) > 0
  BY <1>4, <1>5
<1>10. QED
  BY <1>4, <1>6, <1>7, <1>8, <1>9 DEF d, g

\* LRUCacheMap::put: the key is cached, nothing but it is new, the size stays
\* within max_size_ and no key is there twice; when a key is evicted the
\* cache is full of keys that were used after it.
LEMMA PutResult ==
    ASSUME NEW S, NEW list \in Seq(S), IsInjective(list), NEW k \in S,
           NEW max \in Nat \ {0}, Len(list) <= max
    PROVE  /\ put(list, k, max) \in Seq(S) /\ IsInjective(put(list, k, max))
           /\ Len(put(list, k, max)) <= max
           /\ k \in ToSet(put(list, k, max))
           /\ ToSet(put(list, k, max)) \subseteq ToSet(list) \cup {k}
           /\ \A q, r : Nearer(put(list, k, max), q, r) => r # k /\ (q = k \/ Nearer(list, q, r))
           /\ \A q \in evictedBy(list, k, max) :
                 /\ q # k
                 /\ Cardinality(ToSet(put(list, k, max))) = max
                 /\ \A r \in ToSet(put(list, k, max)) : r = k \/ Nearer(list, r, q)
<1> DEFINE g == Grown(list, k)
           new == put(list, k, max)
<1>1. /\ g \in Seq(S) /\ IsInjective(g)
      /\ ToSet(g) = ToSet(list) \cup {k}
      /\ Len(g) = Len(Drop(list, k)) + 1
      /\ Len(g) > 0 /\ g[1] = k
      /\ \A q, r : Nearer(g, q, r) => r # k /\ (q = k \/ Nearer(list, q, r))
  BY GrownResult
<1>2. /\ Len(list) \in Nat /\ Len(g) \in Nat
      /\ Len(g) <= max + 1
  <2>1. Len(list) \in Nat /\ Len(g) \in Nat /\ Len(Drop(list, k)) \in Nat
    BY <1>1, DropResult, LenProperties
  <2>2. Len(Drop(list, k)) <= Len(list)
    BY DropResult
  <2>3. QED
    BY <1>1, <2>1, <2>2
<1>3. new = IF Len(g) > max THEN Front(g) ELSE g
  BY DEF put, Grown
<1> HIDE DEF g, new
<1>4. CASE ~(Len(g) > max)
  <2>1. new = g
    BY <1>3, <1>4
  <2>2. ToSet(list) \ ToSet(new) = {}
    BY <1>1, <2>1
  <2>3. evictedBy(list, k, max) = {}
    BY <2>2 DEF evictedBy, new
  <2>4. Len(new) <= max
    BY <1>2, <1>4, <2>1
  <2>5. QED
    BY <1>1, <2>1, <2>3, <2>4 DEF new
<1>5. CASE Len(g) > max
  <2>1. new = Front(g) /\ Len(g) = max + 1
    BY <1>2, <1>3, <1>5
  <2>2. /\ new \in Seq(S) /\ Len(new) = max /\ IsInjective(new)
        /\ ToSet(new) = ToSet(g) \ {Last(g)}
    <3>1. Len(g) > 0 /\ max + 1 - 1 = max
      BY <2>1
    <3>2. QED
      BY <1>1, <2>1, <3>1, FrontResult
  <2>3. /\ \A q, r : Nearer(new, q, r) => Nearer(g, q, r)
        /\ \A q \in ToSet(new) : Nearer(g, q, Last(g))
    BY <1>1, <2>1, FrontOrder
  <2>4. k # Last(g)
    <3>1. 1 \in 1 .. Len(g) /\ Len(g) \in 1 .. Len(g) /\ 1 # Len(g)
      BY <2>1
    <3>2. DOMAIN g = 1 .. Len(g)
      BY <1>1, LenProperties
    <3>3. QED
      BY <1>1, <3>1, <3>2 DEF IsInjective, Last
  <2>5. evictedBy(list, k, max) \subseteq {Last(g)}
    BY <1>1, <2>2, <2>4 DEF evictedBy, new
  <2>6. Cardinality(ToSet(new)) = max
    BY <2>2, SizeOfList
  <2>7. \A r \in ToSet(new) : r = k \/ Nearer(list, r, Last(g))
    BY <1>1, <2>3
  <2>8. k \in ToSet(new) /\ ToSet(new) \subseteq ToSet(list) \cup {k}
    BY <1>1, <2>2, <2>4
  <2>9. \A q, r : Nearer(new, q, r) => r # k /\ (q = k \/ Nearer(list, q, r))
    BY <1>1, <2>3
  <2>10. \A q \in evictedBy(list, k, max) :
           /\ q # k /\ Cardinality(ToSet(new)) = max
           /\ \A r \in ToSet(new) : r = k \/ Nearer(list, r, q)
    BY <2>4, <2>5, <2>6, <2>7
  <2>11. Len(new) <= max
    BY <2>2
  <2>12. QED
    BY <2>2, <2>8, <2>9, <2>10, <2>11 DEF new
<1>6. QED
  BY <1>4, <1>5

\* LRUCacheMap::get: the same keys stay, the one that is found goes to the
\* front and the others keep their order.
LEMMA GetResult ==
    ASSUME NEW S, NEW list \in Seq(S), IsInjective(list), NEW k \in S
    PROVE  /\ get(list, k) \in Seq(S) /\ IsInjective(get(list, k))
           /\ Len(get(list, k)) = Len(list)
           /\ ToSet(get(list, k)) = ToSet(list)
           /\ contains(list, k) =>
                 \A q, r : Nearer(get(list, k), q, r) => r # k /\ (q = k \/ Nearer(list, q, r))
<1>1. CASE ~contains(list, k)
  BY <1>1 DEF get
<1>2. CASE contains(list, k)
  <2> DEFINE g == Grown(list, k)
  <2>1. /\ g \in Seq(S) /\ IsInjective(g)
        /\ ToSet(g) = ToSet(list) \cup {k}
        /\ Len(g) = Len(Drop(list, k)) + 1
        /\ \A q, r : Nearer(g, q, r) => r # k /\ (q = k \/ Nearer(list, q, r))
    BY GrownResult
  <2>2. Len(list) \in Nat /\ Len(Drop(list, k)) = Len(list) - 1
    BY <1>2, DropResult, LenProperties
  <2>3. get(list, k) = g
    BY <1>2 DEF get, Grown
  <2> HIDE DEF g
  <2>4. Len(g) = Len(list)
    BY <2>1, <2>2
  <2>5. ToSet(g) = ToSet(list)
    BY <1>2, <2>1 DEF contains
  <2>6. QED
    BY <2>1, <2>3, <2>4, <2>5
<1>3. QED
  BY <1>1, <1>2
=============================================================================
