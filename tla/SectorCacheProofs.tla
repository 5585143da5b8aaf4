------------------------- MODULE SectorCacheProofs --------------------------
(***************************************************************************)
(* The cache of sectors over the file driver, for every device whose byte  *)
(* offsets fit into 32 bits, every size of the cache, any number of        *)
(* sectors held by a call, and calls that read a number they still hold    *)
(* again before a cache full of others: it never has two objects of one    *)
(* sector, what it drops without writing is on the disk already, and it    *)
(* implements the block device of BlockDevice.                             *)
(***************************************************************************)
EXTENDS SectorCache, CommonLemmas

\* The device is not larger than what u32 byte offsets reach (sec_num *
\* sec_sz_ in LinuxFileDriver); SectorWrap.cfg shows what happens beyond.
NoWrap == DeviceSectors <= AddressSpan

\* A call reads a number it holds again before CACHED_SECTOR_NUM others were
\* read; SectorReread.cfg shows what happens to one that waits longer.
Patient == MaxBetween < CacheSize

\* No offset wraps then, and every sector of the device is in range.
LEMMA OffsetsFit ==
    ASSUME NoWrap, NEW n \in Sector
    PROVE  inRange(n) /\ offsetOf(n) = n
<1>1. n \in Nat /\ n < AddressSpan /\ n + 1 <= AddressSpan /\ AddressSpan \in Nat \ {0}
  BY DeviceAssumption DEF NoWrap, Sector
<1>2. n % AddressSpan = n
  BY <1>1
<1>3. (n + 1) % AddressSpan <= DeviceSectors
  <2>1. CASE n + 1 < AddressSpan
    <3>1. (n + 1) % AddressSpan = n + 1
      BY <1>1, <2>1
    <3>2. QED
      BY <3>1, DeviceAssumption DEF Sector
  <2>2. CASE n + 1 = AddressSpan
    <3>1. (n + 1) % AddressSpan = 0
      BY <1>1, <2>2
    <3>2. QED
      BY <3>1, DeviceAssumption
  <2>3. QED
    BY <1>1, <2>1, <2>2
<1>4. QED
  BY <1>2, <1>3 DEF inRange, offsetOf

\* Writing sectors back changes those sectors and no other
\* (LinuxFileDriver::writeSectorValue).
LEMMA WrittenIs ==
    ASSUME NoWrap, NEW d, NEW S \in SUBSET Sector, NEW v
    PROVE  written(d, S, v) = [p \in Sector |-> IF p \in S THEN v[p] ELSE d[p]]
<1>1. \A p \in Sector : {n \in S : inRange(n) /\ offsetOf(n) = p} = IF p \in S THEN {p} ELSE {}
  BY OffsetsFit
<1>2. \A p \in Sector : (CHOOSE n \in {p} : TRUE) = p
  OBVIOUS
<1>3. ASSUME NEW p \in Sector
      PROVE  (LET from == {n \in S : inRange(n) /\ offsetOf(n) = p}
              IN  IF from = {} THEN d[p] ELSE v[CHOOSE n \in from : TRUE])
             = IF p \in S THEN v[p] ELSE d[p]
  <2>1. CASE p \in S
    <3>1. {n \in S : inRange(n) /\ offsetOf(n) = p} = {p}
      BY <1>1, <2>1
    <3>2. QED
      BY <1>2, <2>1, <3>1
  <2>2. CASE p \notin S
    <3>1. {n \in S : inRange(n) /\ offsetOf(n) = p} = {}
      BY <1>1, <2>2
    <3>2. QED
      BY <2>2, <3>1
  <2>3. QED
    BY <2>1, <2>2
<1>4. QED
  BY <1>3 DEF written

\* The case of cached objects (an eviction, Sector::sync, clear).
LEMMA WrittenBack ==
    ASSUME NoWrap, NEW S \in SUBSET Sector
    PROVE  written(disk, S, value) = [p \in Sector |-> IF p \in S THEN value[p] ELSE disk[p]]
  BY WrittenIs

-----------------------------------------------------------------------------
\* The list of cached numbers repeats none, and what a call holds without
\* being an orphan is cached.
Listed == IsInjective(lru) /\ held \subseteq Cached

\* The history and the recency order agree: what is nearer to the front than a
\* held number was read after it, and a number whose object was evicted from
\* under a call has seen a cache full of others.
Recency ==
    /\ \A n \in held, m \in Sector : Nearer(lru, m, n) => m \in since[n]
    /\ \A x \in orphan : Cardinality(since[x.sec]) >= CacheSize

\* OneObject and CleanIsStable together are inductive, with the recency of what
\* is held: an eviction writes nothing for a clean object, and does not reach
\* the disk under an orphan.
IInv == TypeOK /\ Listed /\ OneObject /\ CleanIsStable /\ Recency

\* Sets of sectors are finite, and a larger one has no fewer members.
LEMMA SectorSets ==
    ASSUME NEW S \in SUBSET Sector, NEW T \in SUBSET S
    PROVE  /\ IsFiniteSet(S) /\ Cardinality(S) \in Nat /\ Cardinality(T) \in Nat
           /\ Cardinality(T) <= Cardinality(S)
<1>1. IsFiniteSet(Sector)
  <2>1. 0 \in Int /\ DeviceSectors - 1 \in Int
    BY DeviceAssumption
  <2>2. QED
    BY <2>1, FS_Interval DEF Sector
<1>2. IsFiniteSet(S)
  BY <1>1, FS_Subset
<1>3. IsFiniteSet(T) /\ Cardinality(T) <= Cardinality(S)
  BY <1>2, FS_Subset
<1>4. QED
  BY <1>2, <1>3, FS_CardinalityType

\* A read of n starts the history of n anew and adds n to that of every other
\* number that is held.
LEMMA ReadNowIs ==
    ASSUME TypeOK, NEW n \in Sector
    PROVE  /\ ReadNow(n) \in [Sector -> SUBSET Sector]
           /\ \A m \in held : m # n => ReadNow(n)[m] = since[m] \cup {n}
           /\ \A x \in orphan : x.sec # n => ReadNow(n)[x.sec] = since[x.sec] \cup {n}
<1>1. ReadNow(n) \in [Sector -> SUBSET Sector]
  BY DEF ReadNow, TypeOK
<1>2. \A m \in Sector : m # n /\ m \in HeldNumbers => ReadNow(n)[m] = since[m] \cup {n}
  BY DEF ReadNow
<1>3. held \subseteq Sector /\ held \subseteq HeldNumbers
  BY DEF TypeOK, HeldNumbers
<1>4. \A x \in orphan : x.sec \in Sector /\ x.sec \in HeldNumbers
  BY DEF TypeOK, HeldNumbers
<1>5. QED
  BY <1>1, <1>2, <1>3, <1>4

\* Forgetting the history of a number that is no longer held.
LEMMA ForgetIs ==
    ASSUME TypeOK, NEW n \in Sector
    PROVE  /\ Forget(n) \in [Sector -> SUBSET Sector]
           /\ \A m \in Sector : m # n => Forget(n)[m] = since[m]
  BY DEF Forget, TypeOK

\* readSector never misses on a number of which a call still holds an object:
\* by then too many others would have been read for the call to be patient.
LEMMA MissIsFresh ==
    ASSUME Patient, IInv, NEW n \in Sector, ReadMiss(n)
    PROVE  \A x \in orphan : x.sec # n
<1> SUFFICES ASSUME NEW x \in orphan, x.sec = n PROVE FALSE
  OBVIOUS
<1>1. n \in HeldNumbers
  BY DEF HeldNumbers
<1>2. Cardinality(since[n]) <= MaxBetween
  BY <1>1 DEF ReadMiss, MayRead
<1>3. Cardinality(since[n]) >= CacheSize
  BY DEF IInv, Recency
<1>4. Cardinality(since[n]) \in Nat
  BY SectorSets DEF IInv, TypeOK
<1>5. QED
  BY <1>2, <1>3, <1>4, DeviceAssumption DEF Patient

\* A new process finds an empty cache.
LEMMA InitIInv == Init => IInv
<1> SUFFICES ASSUME Init PROVE IInv
  OBVIOUS
<1>1. PICK w \in Value : disk = [n \in Sector |-> w]
  BY DEF Init
<1>2. Cached = {} /\ Len(lru) = 0 /\ lru \in Seq(Sector) /\ DOMAIN lru = {}
  BY EmptySeq DEF Init, Cached, ToSet
<1>3. TypeOK
  BY <1>1, <1>2, DeviceAssumption DEF Init, TypeOK
<1>4. OneObject
  BY <1>2 DEF Init, OneObject
<1>5. CleanIsStable
  BY <1>2 DEF Init, CleanIsStable
<1>6. Listed
  BY <1>2 DEF Init, Listed, IsInjective
<1>7. Recency
  BY DEF Init, Recency
<1>8. QED
  BY <1>3, <1>4, <1>5, <1>6, <1>7 DEF IInv

\* Only sectors of the device are cached.
LEMMA CachedSectors == TypeOK => Cached \subseteq Sector
<1> SUFFICES ASSUME TypeOK PROVE Cached \subseteq Sector
  OBVIOUS
<1>1. lru \in Seq(Sector) /\ DOMAIN lru = 1 .. Len(lru)
  BY LenProperties DEF TypeOK
<1>2. \A i \in 1 .. Len(lru) : lru[i] \in Sector
  BY <1>1, ElementOfSeq
<1>3. QED
  BY <1>1, <1>2 DEF Cached, ToSet

\* readSector on a number that is cached only moves it to the front.
LEMMA ReadHitKeeps ==
    ASSUME IInv, NEW n \in Sector, ReadHit(n)
    PROVE  IInv' /\ Cached' = Cached
<1> USE DEF IInv
<1>1. lru \in Seq(Sector) /\ IsInjective(lru) /\ n \in Cached
  BY DEF TypeOK, OneObject, Listed, ReadHit, contains, Cached
<1>2. /\ lru' \in Seq(Sector) /\ IsInjective(lru') /\ Len(lru') = Len(lru)
      /\ ToSet(lru') = ToSet(lru)
      /\ \A q, r : Nearer(lru', q, r) => r # n /\ (q = n \/ Nearer(lru, q, r))
  <2>1. lru' = get(lru, n) /\ contains(lru, n)
    BY DEF ReadHit
  <2>2. QED
    BY <1>1, <2>1, GetResult
<1>3. Cached' = Cached
  BY <1>2 DEF Cached
<1>4. /\ held' = held \cup {n} /\ orphan' = orphan /\ since' = ReadNow(n)
      /\ ReadNow(n) \in [Sector -> SUBSET Sector]
      /\ \A m \in held : m # n => ReadNow(n)[m] = since[m] \cup {n}
      /\ \A x \in orphan : x.sec # n => ReadNow(n)[x.sec] = since[x.sec] \cup {n}
  BY ReadNowIs DEF ReadHit
<1>5. TypeOK'
  BY <1>2, <1>4 DEF TypeOK, ReadHit
<1>6. OneObject' /\ Listed'
  BY <1>1, <1>2, <1>3, <1>4 DEF OneObject, Listed
<1>7. CleanIsStable'
  BY <1>3 DEF CleanIsStable, ReadHit
<1>8. Recency'
  <2>1. \A m \in held', q \in Sector : Nearer(lru', q, m) => q \in since'[m]
    BY <1>2, <1>4 DEF Recency
  <2>2. \A x \in orphan : x.sec # n /\ x.sec \in Sector
    BY <1>1 DEF OneObject, TypeOK
  <2>3. ASSUME NEW x \in orphan PROVE Cardinality(since'[x.sec]) >= CacheSize
    <3>1. since[x.sec] \subseteq since'[x.sec] /\ since'[x.sec] \subseteq Sector
      BY <1>4, <2>2 DEF TypeOK
    <3>2. /\ Cardinality(since[x.sec]) \in Nat /\ Cardinality(since'[x.sec]) \in Nat
          /\ Cardinality(since[x.sec]) <= Cardinality(since'[x.sec])
      BY <3>1, SectorSets
    <3>3. QED
      BY <3>2, DeviceAssumption DEF Recency
  <2>4. QED
    BY <1>4, <2>1, <2>3 DEF Recency
<1>9. QED
  BY <1>3, <1>5, <1>6, <1>7, <1>8

\* What a miss does to the list of cached numbers: the sectors evicted were
\* cached, and the one that is read is not among them.
LEMMA MissEvicts ==
    ASSUME IInv, NEW n \in Sector, ReadMiss(n), NEW out, out = evictedBy(lru, n, CacheSize)
    PROVE  /\ lru' \in Seq(Sector) /\ Len(lru') <= CacheSize /\ IsInjective(lru')
           /\ n \notin Cached /\ out \subseteq Cached
           /\ Cached' = (Cached \ out) \cup {n}
           /\ \A q, r : Nearer(lru', q, r) => r # n /\ (q = n \/ Nearer(lru, q, r))
           /\ \A m \in out : /\ Cardinality(Cached') = CacheSize
                             /\ \A r \in Cached' : r = n \/ Nearer(lru, r, m)
<1>1. lru \in Seq(Sector) /\ IsInjective(lru) /\ Len(lru) <= CacheSize
  BY DEF IInv, TypeOK, OneObject, Listed
<1>2. lru' = put(lru, n, CacheSize) /\ n \notin ToSet(lru)
  BY DEF ReadMiss, contains
<1>3. /\ lru' \in Seq(Sector) /\ Len(lru') <= CacheSize /\ IsInjective(lru')
      /\ n \in ToSet(lru') /\ ToSet(lru') \subseteq ToSet(lru) \cup {n}
      /\ \A q, r : Nearer(lru', q, r) => r # n /\ (q = n \/ Nearer(lru, q, r))
      /\ \A m \in out : /\ Cardinality(ToSet(lru')) = CacheSize
                        /\ \A r \in ToSet(lru') : r = n \/ Nearer(lru, r, m)
  <2>1. CacheSize \in Nat \ {0}
    BY DeviceAssumption
  <2>2. QED
    BY <1>1, <1>2, <2>1, PutResult
<1>4. out = ToSet(lru) \ ToSet(lru')
  BY <1>2 DEF evictedBy
<1>5. QED
  BY <1>2, <1>3, <1>4 DEF Cached

\* readSector on a miss: the object that leaves the cache is written back
\* when it is dirty, unless a call holds it; it lives on as an orphan then,
\* and its number is not cached.
LEMMA ReadMissKeeps ==
    ASSUME NoWrap, Patient, IInv, NEW n \in Sector, ReadMiss(n)
    PROVE  IInv'
<1> USE DEF IInv
<1> DEFINE out == evictedBy(lru, n, CacheSize)
           gone == (out \ held) \cap dirty
           left == {[sec |-> m, val |-> value[m], dirty |-> m \in dirty] : m \in out \cap held}
<1>1. /\ lru' \in Seq(Sector) /\ Len(lru') <= CacheSize /\ IsInjective(lru')
      /\ n \notin Cached /\ out \subseteq Cached
      /\ Cached' = (Cached \ out) \cup {n}
      /\ \A q, r : Nearer(lru', q, r) => r # n /\ (q = n \/ Nearer(lru, q, r))
      /\ \A m \in out : /\ Cardinality(Cached') = CacheSize
                        /\ \A r \in Cached' : r = n \/ Nearer(lru, r, m)
  BY MissEvicts
<1>2. /\ value' = [value EXCEPT ![n] = disk[n]]
      /\ disk' = written(disk, gone, value)
      /\ dirty' = dirty \ (out \cup {n})
      /\ orphan' = orphan \cup left
      /\ held' = (held \ out) \cup {n}
      /\ latest' = n /\ since' = ReadNow(n)
      /\ \A x \in orphan : x.sec # n
  BY OffsetsFit, MissIsFresh DEF ReadMiss
<1> HIDE DEF out
<1>3. Cached \subseteq Sector /\ out \subseteq Sector
  BY <1>1, CachedSectors
<1>4. disk' = [p \in Sector |-> IF p \in gone THEN value[p] ELSE disk[p]]
  <2>1. gone \in SUBSET Sector
    BY <1>3
  <2>2. QED
    BY <1>2, <2>1, WrittenBack
<1>5. \A x \in left : /\ x.sec \in out \cap held /\ x.val = value[x.sec]
                      /\ x.dirty \in BOOLEAN /\ (x.dirty <=> x.sec \in dirty)
  <2> SUFFICES ASSUME NEW m \in out \cap held,
                      NEW x, x = [sec |-> m, val |-> value[m], dirty |-> m \in dirty]
               PROVE  /\ x.sec \in out \cap held /\ x.val = value[x.sec]
                      /\ x.dirty \in BOOLEAN /\ (x.dirty <=> x.sec \in dirty)
    OBVIOUS
  <2>1. x.sec = m /\ x.val = value[m] /\ x.dirty = (m \in dirty)
    OBVIOUS
  <2>2. x.sec \in out \cap held /\ x.val = value[x.sec]
    BY <2>1
  <2>3. x.dirty \in BOOLEAN
    BY <2>1, (m \in dirty) \in BOOLEAN, Zenon
  <2>4. x.dirty <=> x.sec \in dirty
    BY <2>1, Zenon
  <2>5. QED
    BY <2>2, <2>3, <2>4
<1> HIDE DEF left, gone
<1>6. TypeOK'
  <2>1. disk' \in [Sector -> Value] /\ value' \in [Sector -> Value]
    BY <1>2, <1>4 DEF TypeOK
  <2>2. \A x \in orphan' : x.sec \in Sector /\ x.val \in Value /\ x.dirty \in BOOLEAN
    BY <1>2, <1>3, <1>5 DEF TypeOK
  <2>3. QED
    BY <1>1, <1>2, <2>1, <2>2, ReadNowIs DEF TypeOK
<1>7. OneObject' /\ Listed'
  <2>1. held' \subseteq Cached'
    BY <1>1, <1>2 DEF OneObject, Listed
  <2>2. \A x \in orphan' : x.sec \notin Cached'
    BY <1>1, <1>2, <1>5 DEF OneObject, Listed
  <2>3. \A x, y \in left : x.sec = y.sec => x = y
    BY DEF left
  <2>4. \A x \in left, y \in orphan : x.sec # y.sec
    BY <1>1, <1>5 DEF OneObject, Listed
  <2>5. \A x, y \in orphan' : x.sec = y.sec => x = y
    BY <1>2, <2>3, <2>4 DEF OneObject, Listed
  <2>6. QED
    BY <1>1, <2>1, <2>2, <2>5 DEF OneObject, Listed
<1>8. CleanIsStable'
  <2>1. ASSUME NEW p \in Cached' \ dirty'
        PROVE  value'[p] = disk'[p]
    <3>1. CASE p = n
      BY <1>1, <1>2, <1>4, <3>1 DEF TypeOK, gone
    <3>2. CASE p # n
      <4>1. p \in Cached \ dirty /\ p \notin out
        BY <1>1, <1>2, <2>1, <3>2
      <4>2. p \in Sector /\ p \notin gone
        BY <1>3, <4>1 DEF gone
      <4>3. QED
        BY <1>2, <1>4, <3>2, <4>1, <4>2 DEF TypeOK, CleanIsStable
    <3>3. QED
      BY <3>1, <3>2
  <2>2. ASSUME NEW x \in orphan, ~x.dirty
        PROVE  x.val = disk'[x.sec]
    <3>1. x.sec \in Sector /\ x.sec \notin gone
      BY <1>1 DEF TypeOK, OneObject, Listed, gone
    <3>2. QED
      BY <1>4, <2>2, <3>1 DEF CleanIsStable
  <2>3. ASSUME NEW x \in left, ~x.dirty
        PROVE  x.val = disk'[x.sec]
    <3>1. x.sec \in Sector /\ x.sec \notin gone /\ x.sec \in Cached \ dirty
      BY <1>1, <1>3, <1>5, <2>3 DEF gone
    <3>2. QED
      BY <1>4, <1>5, <3>1 DEF CleanIsStable
  <2>4. QED
    BY <1>2, <2>1, <2>2, <2>3 DEF CleanIsStable
<1>9. Recency'
  <2>1. /\ \A m \in held : m # n => since'[m] = since[m] \cup {n}
        /\ \A x \in orphan : x.sec # n => since'[x.sec] = since[x.sec] \cup {n}
    BY <1>2, ReadNowIs
  <2>2. \A m \in held', k \in Sector : Nearer(lru', k, m) => k \in since'[m]
    BY <1>1, <1>2, <2>1 DEF Recency
  <2>3. ASSUME NEW x \in orphan PROVE Cardinality(since'[x.sec]) >= CacheSize
    <3>1. since[x.sec] \subseteq since'[x.sec] /\ since'[x.sec] \subseteq Sector
      BY <1>2, <1>6, <2>1 DEF TypeOK
    <3>2. /\ Cardinality(since[x.sec]) \in Nat /\ Cardinality(since'[x.sec]) \in Nat
          /\ Cardinality(since[x.sec]) <= Cardinality(since'[x.sec])
      BY <3>1, SectorSets
    <3>3. QED
      BY <3>2, DeviceAssumption DEF Recency
  <2>4. ASSUME NEW x \in left PROVE Cardinality(since'[x.sec]) >= CacheSize
    <3> DEFINE m == x.sec
    <3>1. m \in out /\ m \in held /\ m # n /\ m \in Sector
      BY <1>1, <1>3, <1>5
    <3>2. Cardinality(Cached') = CacheSize /\ \A k \in Cached' : k = n \/ Nearer(lru, k, m)
      BY <1>1, <3>1
    <3>3. Cached' \subseteq Sector
      BY <1>1, <1>3
    <3>4. Cached' \subseteq since'[m] /\ since'[m] \subseteq Sector
      BY <1>6, <2>1, <3>1, <3>2, <3>3 DEF Recency, TypeOK
    <3>5. /\ Cardinality(since'[m]) \in Nat /\ Cardinality(Cached') \in Nat
          /\ Cardinality(Cached') <= Cardinality(since'[m])
      BY <3>4, SectorSets
    <3>6. QED
      BY <3>2, <3>5
  <2>5. QED
    BY <1>2, <2>2, <2>3, <2>4 DEF Recency
<1>10. QED
  BY <1>6, <1>7, <1>8, <1>9

\* A store through write_ptr makes the object dirty.
LEMMA WriteSectorKeeps ==
    ASSUME IInv, NEW v \in Value, WriteSector(v)
    PROVE  IInv' /\ latest \in Cached /\ latest \in Sector
<1> USE DEF IInv
<1>1. latest \in Cached /\ latest \in Sector
  BY DEF TypeOK, OneObject, Listed, WriteSector
<1>2. Cached' = Cached /\ lru' = lru
  BY DEF WriteSector, Cached
<1>3. TypeOK'
  BY <1>1, <1>2 DEF TypeOK, WriteSector
<1>4. OneObject' /\ Listed' /\ Recency'
  BY <1>2 DEF OneObject, Listed, Recency, WriteSector
<1>5. CleanIsStable'
  BY <1>1, <1>2 DEF CleanIsStable, WriteSector, TypeOK
<1>6. QED
  BY <1>1, <1>3, <1>4, <1>5

\* Sector::sync writes the object and no other.
LEMMA SyncSectorKeeps ==
    ASSUME NoWrap, IInv, SyncSector
    PROVE  /\ IInv' /\ latest \in Cached /\ latest \in Sector
           /\ disk' = [p \in Sector |-> IF p = latest THEN value[p] ELSE disk[p]]
<1> USE DEF IInv
<1>1. latest \in Cached /\ latest \in Sector
  BY DEF TypeOK, OneObject, Listed, SyncSector
<1>2. Cached' = Cached /\ lru' = lru
  BY DEF SyncSector, Cached
<1>3. disk' = [p \in Sector |-> IF p \in {latest} THEN value[p] ELSE disk[p]]
  <2>1. disk' = written(disk, {latest}, value)
    BY DEF SyncSector
  <2>2. {latest} \in SUBSET Sector
    BY <1>1
  <2>3. QED
    BY <2>1, <2>2, WrittenBack
<1>4. TypeOK'
  BY <1>1, <1>2, <1>3 DEF TypeOK, SyncSector
<1>5. OneObject' /\ Listed' /\ Recency'
  BY <1>2 DEF OneObject, Listed, Recency, SyncSector
<1>6. CleanIsStable'
  <2>1. \A p \in Cached : p \in Sector
    BY CachedSectors
  <2>2. \A p \in Cached' \ dirty' : value'[p] = disk'[p]
    BY <1>2, <1>3, <2>1 DEF CleanIsStable, SyncSector
  <2>3. \A x \in orphan : x.sec # latest /\ x.sec \in Sector
    BY <1>1 DEF OneObject, TypeOK
  <2>4. \A x \in orphan' : x.dirty \/ x.val = disk'[x.sec]
    BY <1>3, <2>3 DEF CleanIsStable, SyncSector
  <2>5. QED
    BY <2>2, <2>4 DEF CleanIsStable
<1>7. QED
  BY <1>1, <1>3, <1>4, <1>5, <1>6

\* A shared_ptr to a cached object goes: nothing is destroyed.
LEMMA ReleaseKeeps ==
    ASSUME IInv, NEW n \in Sector, Release(n)
    PROVE  IInv' /\ Cached' = Cached
<1> USE DEF IInv
<1>1. Cached' = Cached /\ lru' = lru
  BY DEF Release, Cached
<1>2. /\ held' = held \ {n} /\ orphan' = orphan /\ since' = Forget(n)
      /\ Forget(n) \in [Sector -> SUBSET Sector]
      /\ \A m \in Sector : m # n => Forget(n)[m] = since[m]
  BY ForgetIs DEF Release
<1>3. TypeOK'
  BY <1>1, <1>2 DEF TypeOK, Release
<1>4. OneObject' /\ Listed'
  BY <1>1, <1>2 DEF OneObject, Listed
<1>5. CleanIsStable'
  BY <1>1 DEF CleanIsStable, Release
<1>6. Recency'
  <2>1. \A x \in orphan : x.sec # n /\ x.sec \in Sector
    BY DEF Release, OneObject, Listed, TypeOK
  <2>2. \A m \in held' : m \in held /\ m # n /\ m \in Sector
    BY <1>2 DEF TypeOK
  <2>3. QED
    BY <1>1, <1>2, <2>1, <2>2 DEF Recency
<1>7. QED
  BY <1>1, <1>3, <1>4, <1>5, <1>6

\* ~Sector of an object the cache dropped: its number is not cached and no
\* other object has it, so only current contents reach the disk.
LEMMA ReleaseOrphanKeeps ==
    ASSUME NoWrap, IInv, NEW x \in orphan, ReleaseOrphan(x)
    PROVE  /\ IInv' /\ Cached' = Cached
           /\ x.sec \in Sector /\ disk' = [disk EXCEPT ![x.sec] = x.val]
<1> USE DEF IInv
<1>1. Cached' = Cached /\ lru' = lru
  BY DEF ReleaseOrphan, Cached
<1>2. x.sec \in Sector /\ x.val \in Value /\ x.dirty \in BOOLEAN /\ x.sec \notin Cached
  BY DEF TypeOK, OneObject
<1>3. disk' = [disk EXCEPT ![x.sec] = x.val]
  <2>1. CASE x.dirty
    <3> DEFINE w == [value EXCEPT ![x.sec] = x.val]
    <3>1. disk' = written(disk, {x.sec}, w)
      BY <2>1 DEF ReleaseOrphan
    <3>2. w[x.sec] = x.val
      BY <1>2 DEF TypeOK
    <3> HIDE DEF w
    <3>3. disk' = [p \in Sector |-> IF p \in {x.sec} THEN w[p] ELSE disk[p]]
      <4>1. {x.sec} \in SUBSET Sector
        BY <1>2
      <4>2. QED
        BY <3>1, <4>1, WrittenIs
    <3>4. QED
      BY <1>2, <3>2, <3>3 DEF TypeOK
  <2>2. CASE ~x.dirty
    BY <1>2, <2>2 DEF ReleaseOrphan, CleanIsStable, TypeOK
  <2>3. QED
    BY <2>1, <2>2
<1>4. TypeOK'
  BY <1>1, <1>2, <1>3, ForgetIs DEF TypeOK, ReleaseOrphan
<1>5. OneObject' /\ Listed'
  BY <1>1 DEF OneObject, Listed, ReleaseOrphan
<1>6. CleanIsStable'
  <2>1. \A p \in Cached : p # x.sec /\ p \in Sector
    BY <1>2, CachedSectors
  <2>2. \A p \in Cached' \ dirty' : value'[p] = disk'[p]
    BY <1>1, <1>2, <1>3, <2>1 DEF CleanIsStable, ReleaseOrphan, TypeOK
  <2>3. \A y \in orphan' : y.sec \in Sector /\ y.sec # x.sec
    BY DEF OneObject, TypeOK, ReleaseOrphan
  <2>4. \A y \in orphan' : y.dirty \/ y.val = disk'[y.sec]
    BY <1>2, <1>3, <2>3 DEF CleanIsStable, ReleaseOrphan, TypeOK
  <2>5. QED
    BY <2>2, <2>4 DEF CleanIsStable
<1>7. Recency'
  <2>1. since' = Forget(x.sec) /\ \A m \in Sector : m # x.sec => Forget(x.sec)[m] = since[m]
    BY <1>2, ForgetIs DEF ReleaseOrphan
  <2>2. \A m \in held' : m \in held /\ m # x.sec /\ m \in Sector
    BY <1>2 DEF ReleaseOrphan, Listed, TypeOK
  <2>3. \A y \in orphan' : y \in orphan /\ y.sec # x.sec /\ y.sec \in Sector
    BY DEF ReleaseOrphan, OneObject, TypeOK
  <2>4. QED
    BY <1>1, <2>1, <2>2, <2>3 DEF Recency
<1>8. QED
  BY <1>1, <1>2, <1>3, <1>4, <1>5, <1>6, <1>7

\* An empty cache has nothing that could be stale (clear, and a crash).
LEMMA EmptyKeeps ==
    ASSUME IInv, lru' = <<>>, dirty' = {}, held' = {}, orphan' = {}, latest' = None,
           value' = value, disk' \in [Sector -> Value], since' \in [Sector -> SUBSET Sector]
    PROVE  IInv' /\ Cached' = {}
<1> USE DEF IInv
<1>1. Cached' = {} /\ Len(lru') = 0 /\ lru' \in Seq(Sector) /\ DOMAIN lru' = {}
  BY EmptySeq DEF Cached, ToSet
<1>2. TypeOK'
  BY <1>1, DeviceAssumption DEF TypeOK
<1>3. OneObject' /\ Listed' /\ Recency'
  BY <1>1 DEF OneObject, Listed, Recency, IsInjective
<1>4. CleanIsStable'
  BY <1>1 DEF CleanIsStable
<1>5. QED
  BY <1>1, <1>2, <1>3, <1>4

\* CacheManager::clear writes every dirty object.
LEMMA ClearKeeps ==
    ASSUME NoWrap, IInv, Clear
    PROVE  /\ IInv' /\ Cached' = {}
           /\ disk' = [p \in Sector |-> IF p \in Cached \cap dirty THEN value[p] ELSE disk[p]]
<1>1. disk' = [p \in Sector |-> IF p \in Cached \cap dirty THEN value[p] ELSE disk[p]]
  <2>1. disk' = written(disk, Cached \cap dirty, value)
    BY DEF Clear
  <2>2. Cached \cap dirty \in SUBSET Sector
    BY DEF IInv, TypeOK
  <2>3. QED
    BY <2>1, <2>2, WrittenBack
<1>2. disk' \in [Sector -> Value]
  BY <1>1 DEF IInv, TypeOK
<1>3. QED
  BY <1>1, <1>2, EmptyKeeps DEF Clear, IInv, TypeOK

\* Every step keeps the invariant.
LEMMA NextIInv == NoWrap /\ Patient /\ IInv /\ [Next]_vars => IInv'
<1> SUFFICES ASSUME NoWrap, Patient, IInv, [Next]_vars
             PROVE  IInv'
  OBVIOUS
<1>1. ASSUME NEW n \in Sector, ReadHit(n) PROVE IInv'
  BY <1>1, ReadHitKeeps
<1>2. ASSUME NEW n \in Sector, ReadMiss(n) PROVE IInv'
  BY <1>2, ReadMissKeeps
<1>3. ASSUME NEW n \in Sector, Release(n) PROVE IInv'
  BY <1>3, ReleaseKeeps
<1>4. ASSUME NEW v \in Value, WriteSector(v) PROVE IInv'
  BY <1>4, WriteSectorKeeps
<1>5. CASE SyncSector
  BY <1>5, SyncSectorKeeps
<1>6. ASSUME NEW x \in orphan, ReleaseOrphan(x) PROVE IInv'
  BY <1>6, ReleaseOrphanKeeps
<1>7. CASE Clear
  BY <1>7, ClearKeeps
<1>8. CASE Crash
  <2>1. disk' \in [Sector -> Value] /\ since' \in [Sector -> SUBSET Sector]
    BY <1>8 DEF Crash, IInv, TypeOK
  <2>2. QED
    BY <1>8, <2>1, EmptyKeeps DEF Crash
<1>9. CASE UNCHANGED vars
  BY <1>9 DEF vars, IInv, TypeOK, OneObject, Listed, CleanIsStable, Recency, Cached
<1>10. QED
  BY <1>1, <1>2, <1>3, <1>4, <1>5, <1>6, <1>7, <1>8, <1>9 DEF Next

\* The invariant holds of every run on a device that fits the offsets.
THEOREM IInvAlways == NoWrap /\ Patient => (Spec => []IInv)
<1> SUFFICES ASSUME NoWrap, Patient PROVE Spec => []IInv
  OBVIOUS
<1>1. Init => IInv
  BY InitIInv
<1>2. IInv /\ [Next]_vars => IInv'
  BY NextIInv
<1>3. QED
  BY <1>1, <1>2, PTL DEF Spec

\* The cache holds CACHED_SECTOR_NUM objects at most, all of sectors of the
\* device (CacheManager::readSector).
THEOREM TypeCorrect == NoWrap /\ Patient => (Spec => []TypeOK)
<1> SUFFICES ASSUME NoWrap, Patient PROVE Spec => []TypeOK
  OBVIOUS
<1>1. IInv => TypeOK
  BY DEF IInv
<1>2. Spec => []IInv
  BY IInvAlways
<1>3. QED
  BY <1>1, <1>2, PTL

\* No number ever has two live objects, in the cache or held by a call, though
\* readSector looks at the map only: the recency order keeps a number cached
\* for a call that reads it again before CACHED_SECTOR_NUM others were read.
THEOREM OneObjectAlways == NoWrap /\ Patient => (Spec => []OneObject)
<1> SUFFICES ASSUME NoWrap, Patient PROVE Spec => []OneObject
  OBVIOUS
<1>1. IInv => OneObject
  BY DEF IInv
<1>2. Spec => []IInv
  BY IInvAlways
<1>3. QED
  BY <1>1, <1>2, PTL

\* An object that is not dirty, and so is dropped without a write, has the
\* contents of the disk (Sector::~Sector).
THEOREM CleanAlwaysStable == NoWrap /\ Patient => (Spec => []CleanIsStable)
<1> SUFFICES ASSUME NoWrap, Patient PROVE Spec => []CleanIsStable
  OBVIOUS
<1>1. IInv => CleanIsStable
  BY DEF IInv
<1>2. Spec => []IInv
  BY IInvAlways
<1>3. QED
  BY <1>1, <1>2, PTL

-----------------------------------------------------------------------------
\* The contents of a sector: those of its object in the cache, those of the
\* one object outside, or those of the disk.
LEMMA CurrentIs ==
    ASSUME IInv, NEW n \in Sector
    PROVE  /\ n \in Cached => Current(n) = value[n]
           /\ \A x \in orphan : x.sec = n => Current(n) = x.val
           /\ n \notin Cached /\ (\A x \in orphan : x.sec # n) => Current(n) = disk[n]
           /\ Current(n) \in Value
<1> USE DEF IInv
<1>1. n \in Cached => Current(n) = value[n]
  BY DEF Current
<1>2. ASSUME NEW x \in orphan, x.sec = n
      PROVE  Current(n) = x.val
  <2>1. n \notin Cached
    BY <1>2 DEF OneObject
  <2>2. (CHOOSE y \in orphan : y.sec = n) = x
    BY <1>2 DEF OneObject
  <2>3. QED
    BY <1>2, <2>1, <2>2 DEF Current
<1>3. n \notin Cached /\ (\A x \in orphan : x.sec # n) => Current(n) = disk[n]
  BY DEF Current
<1>4. Current(n) \in Value
  BY <1>1, <1>2, <1>3 DEF TypeOK
<1>5. QED
  BY <1>1, <1>2, <1>3, <1>4

\* What clear writes, with what was there, is the current contents.
LEMMA ClearWritesCurrent ==
    ASSUME NoWrap, IInv, Clear, NEW n \in Sector
    PROVE  disk'[n] = Current(n)
<1>1. disk'[n] = IF n \in Cached \cap dirty THEN value[n] ELSE disk[n]
  BY ClearKeeps
<1>2. orphan = {}
  BY DEF Clear
<1>3. CASE n \in Cached
  BY <1>1, <1>3, CurrentIs DEF IInv, CleanIsStable
<1>4. CASE n \notin Cached
  BY <1>1, <1>2, <1>4, CurrentIs
<1>5. QED
  BY <1>3, <1>4

\* After flush the file holds the current contents of every sector
\* (FAT32fs::flush, CacheManager::clear).
THEOREM FlushDurable == NoWrap /\ Patient => (Spec => FlushIsDurable)
<1> SUFFICES ASSUME NoWrap, Patient PROVE Spec => FlushIsDurable
  OBVIOUS
<1>1. IInv /\ [Next]_vars => [Clear => \A n \in Sector : disk'[n] = Current(n)]_vars
  BY ClearWritesCurrent
<1>2. Spec => []IInv
  BY IInvAlways
<1>3. QED
  BY <1>1, <1>2, PTL DEF Spec, FlushIsDurable

-----------------------------------------------------------------------------
\* A step that changes no contents and brings the disk up to date in the
\* sectors of S is one of the device's.
LEMMA PersistStep ==
    ASSUME \A n \in Sector : Current(n)' = Current(n),
           NEW S \in SUBSET Sector,
           disk' = [n \in Sector |-> IF n \in S THEN Current(n) ELSE disk[n]],
           latest' \in Sector \cup {None}
    PROVE  Device!Persist
<1>1. [n \in Sector |-> Current(n)]' = [n \in Sector |-> Current(n)]
  OBVIOUS
<1>2. disk' = [n \in Sector |-> IF n \in S THEN [m \in Sector |-> Current(m)][n] ELSE disk[n]]
  OBVIOUS
<1>3. QED
  BY <1>1, <1>2 DEF Device!Persist

\* A step that leaves the disk as it was.
LEMMA QuietStep ==
    ASSUME TypeOK, \A n \in Sector : Current(n)' = Current(n), disk' = disk,
           latest' \in Sector \cup {None}
    PROVE  Device!Persist
<1>1. disk' = [n \in Sector |-> IF n \in {} THEN Current(n) ELSE disk[n]]
  BY DEF TypeOK
<1>2. {} \in SUBSET Sector
  OBVIOUS
<1>3. QED
  BY <1>1, <1>2, PersistStep

\* A miss reads what is current from the disk, and moves what it evicts to the
\* disk or out of the cache, as it is.
LEMMA ReadMissMaps ==
    ASSUME NoWrap, Patient, IInv, NEW n \in Sector, ReadMiss(n)
    PROVE  Device!Persist
<1> DEFINE out == evictedBy(lru, n, CacheSize)
           gone == (out \ held) \cap dirty
           left == {[sec |-> m, val |-> value[m], dirty |-> m \in dirty] : m \in out \cap held}
<1>1. /\ n \notin Cached /\ out \subseteq Cached
      /\ Cached' = (Cached \ out) \cup {n}
  BY MissEvicts
<1>2. /\ value' = [value EXCEPT ![n] = disk[n]]
      /\ disk' = written(disk, gone, value)
      /\ orphan' = orphan \cup left
      /\ latest' = n
      /\ \A x \in orphan : x.sec # n
  BY OffsetsFit, MissIsFresh DEF ReadMiss
<1> HIDE DEF out
<1>3. \A x \in left : x.sec \in out \cap held /\ x.val = value[x.sec]
  OBVIOUS
<1>4. \A m \in out \cap held : \E x \in left : x.sec = m
  <2> SUFFICES ASSUME NEW m \in out \cap held
               PROVE  \E x \in left : x.sec = m
    OBVIOUS
  <2> DEFINE x == [sec |-> m, val |-> value[m], dirty |-> m \in dirty]
  <2>1. x \in left /\ x.sec = m
    OBVIOUS
  <2>2. QED
    BY <2>1
<1> HIDE DEF left
<1>5. disk' = [p \in Sector |-> IF p \in gone THEN value[p] ELSE disk[p]]
  <2>1. gone \in SUBSET Sector
    BY <1>1, CachedSectors DEF IInv
  <2>2. QED
    BY <1>2, <2>1, WrittenBack
<1>6. IInv'
  BY ReadMissKeeps
<1>7. ASSUME NEW p \in Sector
      PROVE  Current(p)' = Current(p)
  <2>1. /\ p \in Cached => Current(p) = value[p]
        /\ \A x \in orphan : x.sec = p => Current(p) = x.val
        /\ p \notin Cached /\ (\A x \in orphan : x.sec # p) => Current(p) = disk[p]
    BY CurrentIs
  <2>2. /\ p \in Cached' => Current(p)' = value'[p]
        /\ \A x \in orphan' : x.sec = p => Current(p)' = x.val
        /\ p \notin Cached' /\ (\A x \in orphan' : x.sec # p) => Current(p)' = disk'[p]
    <3>1. /\ p \in Cached' => Current(p)' = value'[p]
          /\ \A x \in orphan' : x.sec = p => Current(p)' = x.val
      BY <1>6 DEF IInv, OneObject, Current
    <3>2. p \notin Cached' /\ (\A x \in orphan' : x.sec # p) => Current(p)' = disk'[p]
      BY DEF Current
    <3>3. QED
      BY <3>1, <3>2
  <2>3. CASE p = n
    <3>1. Current(p) = disk[n]
      BY <1>1, <1>2, <2>1, <2>3
    <3>2. Current(p)' = disk[n]
      BY <1>1, <1>2, <2>2, <2>3 DEF IInv, TypeOK
    <3>3. QED
      BY <3>1, <3>2
  <2>4. CASE p \in Cached \ out
    <3>1. p \in Cached' /\ p # n
      BY <1>1, <2>4
    <3>2. value'[p] = value[p]
      BY <1>2, <3>1 DEF IInv, TypeOK
    <3>3. QED
      BY <2>1, <2>2, <2>4, <3>1, <3>2
  <2>5. CASE p \in out \cap held
    <3>1. PICK x \in left : x.sec = p
      BY <1>4, <2>5
    <3>2. x \in orphan' /\ x.val = value[p]
      BY <1>2, <1>3, <3>1
    <3>3. QED
      BY <1>1, <2>1, <2>2, <2>5, <3>1, <3>2
  <2>6. CASE p \in out \ held
    <3>1. p \notin Cached' /\ p \in Cached
      BY <1>1, <2>6
    <3>2. \A x \in orphan' : x.sec # p
      BY <1>2, <1>3, <2>6, <3>1 DEF IInv, OneObject
    <3>3. Current(p)' = disk'[p] /\ Current(p) = value[p]
      BY <2>1, <2>2, <3>1, <3>2
    <3>4. disk'[p] = value[p]
      BY <1>5, <2>6, <3>1 DEF IInv, CleanIsStable
    <3>5. QED
      BY <3>3, <3>4
  <2>7. CASE p \notin Cached /\ p # n
    <3>1. p \notin Cached' /\ p \notin out
      BY <1>1, <2>7
    <3>2. CASE \E x \in orphan : x.sec = p
      BY <1>2, <2>1, <2>2, <3>2
    <3>3. CASE \A x \in orphan : x.sec # p
      <4>1. \A x \in orphan' : x.sec # p
        BY <1>2, <1>3, <3>1, <3>3
      <4>2. disk'[p] = disk[p]
        BY <1>5, <3>1
      <4>3. QED
        BY <2>1, <2>2, <2>7, <3>1, <3>3, <4>1, <4>2
    <3>4. QED
      BY <3>2, <3>3
  <2>8. QED
    BY <1>1, <2>3, <2>4, <2>5, <2>6, <2>7
<1>8. disk' = [p \in Sector |-> IF p \in gone THEN Current(p) ELSE disk[p]]
  <2>1. \A p \in gone : p \in Cached
    BY <1>1
  <2>2. \A p \in Sector : p \in gone => Current(p) = value[p]
    BY <2>1, CurrentIs
  <2> HIDE DEF gone
  <2>3. QED
    BY <1>5, <2>2
<1>9. QED
  <2>1. gone \in SUBSET Sector
    BY <1>1, CachedSectors DEF IInv
  <2> HIDE DEF gone
  <2>2. QED
    BY <1>2, <1>7, <1>8, <2>1, PersistStep

\* The other calls: the contents they leave, from the contents they found.
LEMMA WriteSectorMaps ==
    ASSUME IInv, NEW v \in Value, WriteSector(v)
    PROVE  Device!Write
<1>1. latest \in Cached /\ latest \in Sector
  BY WriteSectorKeeps
<1>2. /\ value' = [value EXCEPT ![latest] = v] /\ Cached' = Cached
      /\ UNCHANGED <<disk, held, orphan, latest>>
  BY DEF WriteSector, Cached
<1>3. \A n \in Sector : Current(n)' = IF n = latest THEN v ELSE Current(n)
  BY <1>1, <1>2 DEF Current, IInv, TypeOK
<1>4. [n \in Sector |-> Current(n)]' = [[n \in Sector |-> Current(n)] EXCEPT ![latest] = v]
  BY <1>1, <1>3
<1>5. latest # None
  BY DEF WriteSector
<1>6. QED
  BY <1>2, <1>4, <1>5 DEF Device!Write

\* Sector::sync stores what the sector holds.
LEMMA SyncSectorMaps ==
    ASSUME NoWrap, IInv, SyncSector
    PROVE  Device!Persist
<1>1. /\ latest \in Cached /\ latest \in Sector
      /\ disk' = [p \in Sector |-> IF p = latest THEN value[p] ELSE disk[p]]
  BY SyncSectorKeeps
<1>2. Cached' = Cached /\ value' = value /\ orphan' = orphan /\ latest' = latest
  BY DEF SyncSector, Cached
<1>3. \A n \in Sector : Current(n)' = Current(n)
  <2> SUFFICES ASSUME NEW n \in Sector
               PROVE  Current(n)' = Current(n)
    OBVIOUS
  <2>1. CASE n = latest
    BY <1>1, <1>2, <2>1 DEF Current
  <2>2. CASE n # latest
    BY <1>1, <1>2, <2>2 DEF Current
  <2>3. QED
    BY <2>1, <2>2
<1>4. Current(latest) = value[latest]
  BY <1>1, CurrentIs
<1>5. disk' = [p \in Sector |-> IF p \in {latest} THEN Current(p) ELSE disk[p]]
  BY <1>1, <1>4
<1>6. {latest} \in SUBSET Sector /\ latest' \in Sector \cup {None}
  BY <1>1, <1>2
<1>7. QED
  BY <1>3, <1>5, <1>6, PersistStep

\* The destructor of an object outside the cache stores what it holds.
LEMMA ReleaseOrphanMaps ==
    ASSUME NoWrap, IInv, NEW x \in orphan, ReleaseOrphan(x)
    PROVE  Device!Persist
<1>1. IInv' /\ Cached' = Cached /\ x.sec \in Sector /\ disk' = [disk EXCEPT ![x.sec] = x.val]
  BY ReleaseOrphanKeeps
<1>2. value' = value /\ orphan' = orphan \ {x} /\ latest' = latest /\ disk \in [Sector -> Value]
  BY DEF ReleaseOrphan, IInv, TypeOK
<1>3. x.sec \notin Cached /\ \A y \in orphan' : y.sec # x.sec
  BY <1>2 DEF IInv, OneObject
<1>4. Current(x.sec) = x.val
  BY <1>1, CurrentIs
<1>5. ASSUME NEW n \in Sector
      PROVE  Current(n)' = Current(n)
  <2>1. CASE n = x.sec
    <3>1. Current(n)' = disk'[n]
      BY <1>1, <1>3, <2>1 DEF Current
    <3>2. QED
      BY <1>1, <1>2, <1>4, <2>1, <3>1
  <2>2. CASE n # x.sec /\ n \in Cached
    BY <1>1, <1>2, <2>2 DEF Current
  <2>3. CASE n # x.sec /\ n \notin Cached /\ \E y \in orphan : y.sec = n
    <3>1. PICK y \in orphan : y.sec = n
      BY <2>3
    <3>2. y \in orphan'
      BY <1>2, <2>3, <3>1
    <3>3. Current(n) = y.val
      BY <3>1, CurrentIs
    <3>4. Current(n)' = y.val
      BY <1>1, <3>1, <3>2 DEF IInv, OneObject, Current
    <3>5. QED
      BY <3>3, <3>4
  <2>4. CASE n # x.sec /\ n \notin Cached /\ \A y \in orphan : y.sec # n
    <3>1. \A y \in orphan' : y.sec # n
      BY <1>2, <2>4
    <3>2. disk'[n] = disk[n]
      BY <1>1, <1>2, <2>4
    <3>3. QED
      BY <1>1, <2>4, <3>1, <3>2 DEF Current
  <2>5. QED
    BY <2>1, <2>2, <2>3, <2>4
<1>6. disk' = [n \in Sector |-> IF n \in {x.sec} THEN Current(n) ELSE disk[n]]
  BY <1>1, <1>2, <1>4
<1>7. {x.sec} \in SUBSET Sector /\ latest' \in Sector \cup {None}
  BY <1>1, <1>2 DEF IInv, TypeOK
<1>8. QED
  BY <1>5, <1>6, <1>7, PersistStep

\* clear stores everything; what was read from an object is now read from the
\* disk.
LEMMA ClearMaps ==
    ASSUME NoWrap, IInv, Clear
    PROVE  Device!Persist
<1>1. Cached' = {} /\ orphan' = {} /\ latest' = None
  BY ClearKeeps DEF Clear
<1>2. \A n \in Sector : disk'[n] = Current(n)
  BY ClearWritesCurrent
<1>3. \A n \in Sector : Current(n)' = disk'[n]
  BY <1>1 DEF Current
<1>4. disk' = [n \in Sector |-> IF n \in Sector THEN Current(n) ELSE disk[n]]
  <2>1. disk' \in [Sector -> Value]
    BY ClearKeeps DEF IInv, TypeOK
  <2>2. QED
    BY <1>2, <2>1
<1>5. QED
  BY <1>1, <1>2, <1>3, <1>4, PersistStep

\* A crash leaves what is on the disk.
LEMMA CrashMaps ==
    ASSUME IInv, Crash
    PROVE  Device!Crash
<1>1. Cached' = {} /\ orphan' = {} /\ latest' = None /\ disk' = disk
  BY DEF Crash, Cached, ToSet
<1>2. \A n \in Sector : Current(n)' = disk[n]
  BY <1>1 DEF Current
<1>3. [n \in Sector |-> Current(n)]' = disk
  BY <1>2 DEF IInv, TypeOK
<1>4. QED
  BY <1>1, <1>3 DEF Device!Crash

\* Every step of the cache is a step of the device, or none.
LEMMA NextMaps ==
    ASSUME NoWrap, Patient, IInv, [Next]_vars
    PROVE  [Device!Next]_(Device!vars)
<1>1. ASSUME NEW n \in Sector, ReadHit(n) PROVE Device!Persist
  <2>1. Cached' = Cached /\ value' = value /\ disk' = disk /\ orphan' = orphan /\ latest' = n
    BY <1>1, ReadHitKeeps DEF ReadHit
  <2>2. \A m \in Sector : Current(m)' = Current(m)
    BY <2>1 DEF Current
  <2>3. QED
    BY <2>1, <2>2, QuietStep DEF IInv
<1>2. ASSUME NEW n \in Sector, ReadMiss(n) PROVE Device!Persist
  BY <1>2, ReadMissMaps
<1>3. ASSUME NEW n \in Sector, Release(n) PROVE Device!Persist
  <2>1. /\ Cached' = Cached /\ value' = value /\ disk' = disk /\ orphan' = orphan
        /\ latest' \in Sector \cup {None}
    BY <1>3, ReleaseKeeps DEF Release, IInv, TypeOK
  <2>2. \A m \in Sector : Current(m)' = Current(m)
    BY <2>1 DEF Current
  <2>3. QED
    BY <2>1, <2>2, QuietStep DEF IInv
<1>4. ASSUME NEW v \in Value, WriteSector(v) PROVE Device!Write
  BY <1>4, WriteSectorMaps
<1>5. CASE SyncSector
  BY <1>5, SyncSectorMaps DEF Device!Next
<1>6. ASSUME NEW x \in orphan, ReleaseOrphan(x) PROVE Device!Persist
  BY <1>6, ReleaseOrphanMaps
<1>7. CASE Clear
  BY <1>7, ClearMaps DEF Device!Next
<1>8. CASE Crash
  BY <1>8, CrashMaps DEF Device!Next
<1>9. CASE UNCHANGED vars
  BY <1>9 DEF vars, Device!vars, Current, Cached
<1>10. QED
  BY <1>1, <1>2, <1>3, <1>4, <1>5, <1>6, <1>7, <1>8, <1>9 DEF Next, Device!Next

\* The cache over the driver is a block device: whatever is evicted, held,
\* synced or lost in a crash, a sector reads back what was last written to it,
\* and only current contents reach the file.
THEOREM BlockDeviceImplemented == NoWrap /\ Patient => (Spec => IsBlockDevice)
<1> SUFFICES ASSUME NoWrap, Patient PROVE Spec => IsBlockDevice
  OBVIOUS
<1>1. Init => Device!Init
  <2> SUFFICES ASSUME Init PROVE Device!Init
    OBVIOUS
  <2>1. IInv
    BY InitIInv
  <2>2. Cached = {} /\ orphan = {} /\ latest = None
    BY DEF Init, Cached, ToSet
  <2>3. \A n \in Sector : Current(n) = disk[n]
    BY <2>2 DEF Current
  <2>4. [n \in Sector |-> Current(n)] = disk /\ disk \in [Sector -> Value]
    BY <2>1, <2>3 DEF IInv, TypeOK
  <2>5. QED
    BY <2>2, <2>4 DEF Device!Init
<1>2. IInv /\ [Next]_vars => [Device!Next]_(Device!vars)
  BY NextMaps
<1>3. Spec => []IInv
  BY IInvAlways
<1>4. QED
  BY <1>1, <1>2, <1>3, PTL DEF Spec, IsBlockDevice, Device!Spec
=============================================================================
