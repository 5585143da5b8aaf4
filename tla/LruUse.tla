------------------------------- MODULE LruUse -------------------------------
(***************************************************************************)
(* Any sequence of calls on one LRUCacheMap (library/util.h), with the     *)
(* history that says which keys a caller may rely on: a handler keeps      *)
(* using File and Sector objects it looked up a few calls before.          *)
(***************************************************************************)
EXTENDS LruCacheMap, FiniteSets

CONSTANTS
    Key,
    MaxSize    \* max_size_: CACHED_SECTOR_NUM sectors, 20 files

ASSUME LruAssumption == MaxSize \in Nat \ {0}

VARIABLES
    list,      \* key_value_list_, as keys
    known,     \* keys put and not removed or cleared since
    others     \* for each of them, the other keys used after it was

useVars == <<list, known, others>>

UseInit == list = <<>> /\ known = {} /\ others = [k \in Key |-> {}]

\* A use of k makes it the most recent one.
Noted(k) == [q \in Key |-> IF q = k THEN {} ELSE others[q] \cup {k}]

PutKey(k) ==
    /\ list' = put(list, k, MaxSize)
    /\ known' = known \cup {k} /\ others' = Noted(k)

GetKey(k) ==
    /\ contains(list, k)
    /\ list' = get(list, k)
    /\ others' = Noted(k) /\ UNCHANGED known

RemoveKey(k) ==
    /\ list' = remove(list, k)
    /\ known' = known \ {k} /\ UNCHANGED others

ClearAll == list' = <<>> /\ known' = {} /\ UNCHANGED others

UseNext == (\E k \in Key : PutKey(k) \/ GetKey(k) \/ RemoveKey(k)) \/ ClearAll

UseSpec == UseInit /\ [][UseNext]_useVars

UseTyped ==
    /\ list \in Seq(Key) /\ Len(list) <= MaxSize /\ known \subseteq Key
    /\ others \in [Key -> SUBSET Key]

\* The cache never repeats a key and returns nothing that was removed: a
\* file that destroyed itself is not found again under its inode number.
NoneStale == IsInjective(list) /\ ToSet(list) \subseteq known

\* A key is not evicted before max_size_ other keys were used after it: the
\* objects a handler looked up are still the cached ones (getFileByIno,
\* CacheManager::readSector).
NeverEarly ==
    \A k \in known : Cardinality(others[k]) < MaxSize => contains(list, k)
=============================================================================
