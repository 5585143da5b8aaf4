---------------------------- MODULE LruCacheMap -----------------------------
(***************************************************************************)
(* LRUCacheMap of library/util.h: the cache of sectors and the cache of    *)
(* file objects.  key_value_list_ is a sequence of keys, most recently     *)
(* used first; caches_map_ holds the same keys and is not kept apart.      *)
(***************************************************************************)
EXTENDS Integers, Sequences, SequencesExt

\* The lookup in caches_map_ that get, put and remove begin with.
contains(list, k) == k \in ToSet(list)

\* caches_map_[k], the place of a key in the list, and the list without it.
iteratorOf(list, k) == CHOOSE i \in DOMAIN list : list[i] = k
Drop(list, k) == IF contains(list, k) THEN RemoveAt(list, iteratorOf(list, k)) ELSE list

\* Fault: the entry is not moved.
getInPlace(list, k) == list

\* get: a hit moves the entry to the front.
get(list, k) == IF contains(list, k) THEN <<k>> \o Drop(list, k) ELSE list

\* Fault: the size is compared before the entry is added.
putLate(list, k, max) ==
    LET grown == <<k>> \o Drop(list, k)
    IN  IF Len(list) > max THEN Front(grown) ELSE grown

\* put: the entry goes to the front, an older one of the same key is erased,
\* and beyond max_size_ the entry at the back is erased.
put(list, k, max) ==
    LET grown == <<k>> \o Drop(list, k)
    IN  IF Len(grown) > max THEN Front(grown) ELSE grown

\* The keys whose value put releases from the cache.
evictedBy(list, k, max) == ToSet(list) \ ToSet(put(list, k, max))

\* Fault: only the map forgets the entry.
removeNothing(list, k) == list

\* remove: the entry is erased.  (The code uses the map iterator once more
\* after erasing it; the freed node still holds the list position.)
remove(list, k) == Drop(list, k)
=============================================================================
