---------------------------- MODULE LruUseProofs ----------------------------
(***************************************************************************)
(* What a caller of an LRUCacheMap may rely on, for every set of keys and  *)
(* every max_size_.                                                        *)
(***************************************************************************)
EXTENDS LruUse, CommonLemmas

\* The history and the list agree: whatever is nearer to the front than a key
\* was used after that key.
UsedSince == \A q \in Key, r \in Key : Nearer(list, q, r) => q \in others[r]

FiniteSince == \A k \in Key : IsFiniteSet(others[k])

\* A key that is known but no longer cached was evicted, and by then max_size_
\* others had been used: NeverEarly turned round.
IInv == UseTyped /\ NoneStale /\ NeverEarly /\ UsedSince /\ FiniteSince

\* A use of a key adds it to the history of every other key.
LEMMA NotedTyped ==
    ASSUME UseTyped, FiniteSince, NEW k \in Key
    PROVE  /\ Noted(k) \in [Key -> SUBSET Key]
           /\ \A q \in Key : IsFiniteSet(Noted(k)[q])
           /\ Noted(k)[k] = {}
           /\ \A q \in Key : q # k => Noted(k)[q] = others[q] \cup {k}
<1>1. /\ Noted(k) \in [Key -> SUBSET Key]
      /\ Noted(k)[k] = {}
      /\ \A q \in Key : q # k => Noted(k)[q] = others[q] \cup {k}
  BY DEF Noted, UseTyped
<1>2. \A q \in Key : IsFiniteSet(others[q] \cup {k})
  BY FS_AddElement DEF FiniteSince
<1>3. IsFiniteSet({})
  BY FS_EmptySet
<1>4. QED
  BY <1>1, <1>2, <1>3

\* A key used again keeps every promise that was made for it, and adds to the
\* uses the other keys have seen (put and get of LRUCacheMap).
LEMMA NotedPromises ==
    ASSUME IInv, NEW k \in Key, NEW new \in Seq(Key), k \in ToSet(new),
           \A q, r : Nearer(new, q, r) => r # k /\ (q = k \/ Nearer(list, q, r)),
           \A q \in known : q \in ToSet(list) \ ToSet(new) =>
                 ToSet(new) \subseteq Noted(k)[q] /\ Cardinality(ToSet(new)) = MaxSize
    PROVE  /\ \A q \in Key, r \in Key : Nearer(new, q, r) => q \in Noted(k)[r]
           /\ \A q \in known \cup {k} : Cardinality(Noted(k)[q]) < MaxSize => q \in ToSet(new)
<1> USE DEF IInv
<1>1. /\ \A q \in Key : IsFiniteSet(Noted(k)[q])
      /\ \A q \in Key : q # k => Noted(k)[q] = others[q] \cup {k}
  BY NotedTyped
<1>2. \A q \in Key, r \in Key : Nearer(new, q, r) => q \in Noted(k)[r]
  BY <1>1 DEF UsedSince
<1>3. ASSUME NEW q \in known, q # k, q \notin ToSet(new)
      PROVE  ~(Cardinality(Noted(k)[q]) < MaxSize)
  <2>1. q \in Key /\ MaxSize \in Nat
    BY LruAssumption DEF UseTyped
  <2>2. IsFiniteSet(Noted(k)[q])
    BY <1>1, <2>1
  <2>3. Cardinality(Noted(k)[q]) \in Nat
    BY <2>2, FS_CardinalityType
  <2>4. CASE q \in ToSet(list)
    <3>1. ToSet(new) \subseteq Noted(k)[q] /\ Cardinality(ToSet(new)) = MaxSize
      BY <1>3, <2>4
    <3>2. Cardinality(ToSet(new)) <= Cardinality(Noted(k)[q])
      BY <2>2, <3>1, FS_Subset
    <3>3. QED
      BY <2>1, <2>3, <3>1, <3>2
  <2>5. CASE q \notin ToSet(list)
    <3>1. ~(Cardinality(others[q]) < MaxSize)
      BY <2>5 DEF NeverEarly, contains
    <3>2. others[q] \subseteq Noted(k)[q]
      BY <1>1, <1>3, <2>1
    <3>3. Cardinality(others[q]) <= Cardinality(Noted(k)[q]) /\ IsFiniteSet(others[q])
      BY <2>2, <3>2, FS_Subset
    <3>4. Cardinality(others[q]) \in Nat
      BY <3>3, FS_CardinalityType
    <3>5. QED
      BY <2>1, <2>3, <3>1, <3>3, <3>4
  <2>6. QED
    BY <2>4, <2>5
<1>4. QED
  BY <1>2, <1>3

\* The empty cache keeps every promise.
LEMMA InitIInv == UseInit => IInv
<1> SUFFICES ASSUME UseInit PROVE IInv
  OBVIOUS
<1> USE DEF UseInit
<1>1. UseTyped
  BY LruAssumption, EmptySeq DEF UseTyped
<1>2. DOMAIN list = {} /\ Len(list) = 0
  OBVIOUS
<1>3. NoneStale
  BY <1>2 DEF NoneStale, IsInjective, ToSet
<1>4. NeverEarly /\ UsedSince
  BY <1>2 DEF NeverEarly, UsedSince, Nearer
<1>5. FiniteSince
  BY FS_EmptySet DEF FiniteSince
<1>6. QED
  BY <1>1, <1>3, <1>4, <1>5 DEF IInv

\* put keeps the invariant: a key it evicts has seen max_size_ others used.
LEMMA PutIInv ==
    ASSUME IInv, NEW k \in Key, PutKey(k)
    PROVE  IInv'
<1> USE DEF IInv
<1> DEFINE new == put(list, k, MaxSize)
<1>1. list \in Seq(Key) /\ IsInjective(list) /\ Len(list) <= MaxSize
  BY DEF UseTyped, NoneStale
<1>2. /\ new \in Seq(Key) /\ IsInjective(new) /\ Len(new) <= MaxSize
      /\ k \in ToSet(new) /\ ToSet(new) \subseteq ToSet(list) \cup {k}
      /\ \A q, r : Nearer(new, q, r) => r # k /\ (q = k \/ Nearer(list, q, r))
      /\ \A q \in evictedBy(list, k, MaxSize) :
            /\ q # k
            /\ Cardinality(ToSet(new)) = MaxSize
            /\ \A r \in ToSet(new) : r = k \/ Nearer(list, r, q)
  BY <1>1, LruAssumption, PutResult
<1>3. evictedBy(list, k, MaxSize) = ToSet(list) \ ToSet(new)
  BY DEF evictedBy
<1> HIDE DEF new
<1>4. list' = new /\ known' = known \cup {k} /\ others' = Noted(k)
  BY DEF PutKey, new
<1>5. /\ Noted(k) \in [Key -> SUBSET Key]
      /\ \A q \in Key : IsFiniteSet(Noted(k)[q])
      /\ \A q \in Key : q # k => Noted(k)[q] = others[q] \cup {k}
  BY NotedTyped
<1>6. \A q \in known : q \in ToSet(list) \ ToSet(new) =>
          ToSet(new) \subseteq Noted(k)[q] /\ Cardinality(ToSet(new)) = MaxSize
  <2> SUFFICES ASSUME NEW q \in known, q \in ToSet(list) \ ToSet(new)
               PROVE  ToSet(new) \subseteq Noted(k)[q] /\ Cardinality(ToSet(new)) = MaxSize
    OBVIOUS
  <2>1. /\ q # k /\ Cardinality(ToSet(new)) = MaxSize
        /\ \A r \in ToSet(new) : r = k \/ Nearer(list, r, q)
    BY <1>2, <1>3
  <2>2. q \in Key /\ ToSet(new) \subseteq Key
    BY <1>2 DEF UseTyped, NoneStale
  <2>3. \A r \in ToSet(new) : r = k \/ r \in others[q]
    BY <2>1, <2>2 DEF UsedSince
  <2>4. QED
    BY <1>5, <2>1, <2>2, <2>3
<1>7. /\ \A q \in Key, r \in Key : Nearer(new, q, r) => q \in Noted(k)[r]
      /\ \A q \in known \cup {k} : Cardinality(Noted(k)[q]) < MaxSize => q \in ToSet(new)
  BY <1>2, <1>6, NotedPromises
<1>8. UseTyped'
  BY <1>2, <1>4, <1>5 DEF UseTyped
<1>9. NoneStale'
  BY <1>2, <1>4 DEF NoneStale
<1>10. NeverEarly' /\ UsedSince' /\ FiniteSince'
  BY <1>4, <1>5, <1>7 DEF NeverEarly, UsedSince, FiniteSince, contains
<1>11. QED
  BY <1>8, <1>9, <1>10

\* get keeps the invariant: it evicts nothing.
LEMMA GetIInv ==
    ASSUME IInv, NEW k \in Key, GetKey(k)
    PROVE  IInv'
<1> USE DEF IInv
<1> DEFINE new == get(list, k)
<1>1. list \in Seq(Key) /\ IsInjective(list) /\ contains(list, k)
  BY DEF UseTyped, NoneStale, GetKey
<1>2. /\ new \in Seq(Key) /\ IsInjective(new) /\ Len(new) = Len(list)
      /\ ToSet(new) = ToSet(list)
      /\ \A q, r : Nearer(new, q, r) => r # k /\ (q = k \/ Nearer(list, q, r))
  BY <1>1, GetResult
<1> HIDE DEF new
<1>3. list' = new /\ known' = known /\ others' = Noted(k)
  BY DEF GetKey, new
<1>4. /\ Noted(k) \in [Key -> SUBSET Key]
      /\ \A q \in Key : IsFiniteSet(Noted(k)[q])
  BY NotedTyped
<1>5. k \in ToSet(new)
  BY <1>1, <1>2 DEF contains
<1>6. /\ \A q \in Key, r \in Key : Nearer(new, q, r) => q \in Noted(k)[r]
      /\ \A q \in known \cup {k} : Cardinality(Noted(k)[q]) < MaxSize => q \in ToSet(new)
  BY <1>2, <1>5, NotedPromises
<1>7. UseTyped'
  BY <1>2, <1>3, <1>4 DEF UseTyped
<1>8. NoneStale'
  BY <1>2, <1>3 DEF NoneStale
<1>9. NeverEarly' /\ UsedSince' /\ FiniteSince'
  BY <1>3, <1>4, <1>6 DEF NeverEarly, UsedSince, FiniteSince, contains
<1>10. QED
  BY <1>7, <1>8, <1>9

\* remove keeps the invariant: nothing but the key itself leaves the cache.
LEMMA RemoveIInv ==
    ASSUME IInv, NEW k \in Key, RemoveKey(k)
    PROVE  IInv'
<1> USE DEF IInv
<1> DEFINE new == Drop(list, k)
<1>1. list \in Seq(Key) /\ IsInjective(list) /\ Len(list) <= MaxSize
  BY DEF UseTyped, NoneStale
<1>2. /\ new \in Seq(Key) /\ IsInjective(new) /\ Len(new) <= Len(list)
      /\ ToSet(new) = ToSet(list) \ {k}
  BY <1>1, DropResult
<1>3. \A q, r : Nearer(new, q, r) => Nearer(list, q, r)
  BY <1>1, DropOrder
<1> HIDE DEF new
<1>4. list' = new /\ known' = known \ {k} /\ others' = others
  BY DEF RemoveKey, remove, new
<1>5. Len(new) \in Nat /\ Len(list) \in Nat /\ MaxSize \in Nat
  BY <1>1, <1>2, LenProperties, LruAssumption
<1>6. UseTyped'
  <2>1. Len(new) <= MaxSize
    BY <1>1, <1>2, <1>5
  <2>2. QED
    BY <1>2, <1>4, <2>1 DEF UseTyped
<1>7. NoneStale'
  BY <1>2, <1>4 DEF NoneStale
<1>8. NeverEarly'
  BY <1>2, <1>4 DEF NeverEarly, contains
<1>9. UsedSince' /\ FiniteSince'
  BY <1>3, <1>4 DEF UsedSince, FiniteSince
<1>10. QED
  BY <1>6, <1>7, <1>8, <1>9

\* Every step keeps the invariant.
LEMMA NextIInv == IInv /\ [UseNext]_useVars => IInv'
<1> SUFFICES ASSUME IInv, [UseNext]_useVars
             PROVE  IInv'
  OBVIOUS
<1>1. ASSUME NEW k \in Key, PutKey(k) PROVE IInv'
  BY <1>1, PutIInv
<1>2. ASSUME NEW k \in Key, GetKey(k) PROVE IInv'
  BY <1>2, GetIInv
<1>3. ASSUME NEW k \in Key, RemoveKey(k) PROVE IInv'
  BY <1>3, RemoveIInv
<1>4. CASE ClearAll
  <2>1. list' = <<>> /\ known' = {} /\ others' = others
    BY <1>4 DEF ClearAll
  <2>2. DOMAIN list' = {} /\ Len(list') = 0
    BY <2>1
  <2>3. UseTyped'
    BY <2>1, <2>2, LruAssumption, EmptySeq DEF UseTyped, IInv
  <2>4. NoneStale' /\ NeverEarly' /\ UsedSince' /\ FiniteSince'
    BY <2>1, <2>2 DEF IInv, NoneStale, IsInjective, ToSet, NeverEarly, UsedSince, Nearer, FiniteSince
  <2>5. QED
    BY <2>3, <2>4 DEF IInv
<1>5. CASE UNCHANGED useVars
  BY <1>5 DEF useVars, IInv, UseTyped, NoneStale, NeverEarly, UsedSince, FiniteSince, Nearer, contains
<1>6. QED
  BY <1>1, <1>2, <1>3, <1>4, <1>5 DEF UseNext

\* The invariant holds of every run.
THEOREM IInvAlways == UseSpec => []IInv
<1>1. UseInit => IInv
  BY InitIInv
<1>2. IInv /\ [UseNext]_useVars => IInv'
  BY NextIInv
<1>3. QED
  BY <1>1, <1>2, PTL DEF UseSpec

\* The cache never holds more than max_size_ entries, whatever is called
\* (LRUCacheMap::put).
THEOREM TypeCorrect == UseSpec => []UseTyped
<1>1. IInv => UseTyped
  BY DEF IInv
<1>2. QED
  BY <1>1, IInvAlways, PTL

\* A key is in the cache once at most, and never after its removal: no caller
\* gets an object from the map that destroyed itself (LRUCacheMap::remove).
THEOREM NothingStale == UseSpec => []NoneStale
<1>1. IInv => NoneStale
  BY DEF IInv
<1>2. QED
  BY <1>1, IInvAlways, PTL

\* Objects a caller looked up stay cached until max_size_ other keys have been
\* used: for any max_size_, so for the sectors and for the 20 files.
THEOREM NothingEarly == UseSpec => []NeverEarly
<1>1. IInv => NeverEarly
  BY DEF IInv
<1>2. QED
  BY <1>1, IInvAlways, PTL
=============================================================================
