---------------------------- MODULE SectorCache -----------------------------
(***************************************************************************)
(* The sector cache (CacheManager, Sector) over the file driver            *)
(* (LinuxFileDriver) of library/device.cpp.                                *)
(*                                                                         *)
(* A Sector object is owned by the cache and by the shared_ptrs a call     *)
(* holds.  An object the cache has dropped while a call holds it lives on  *)
(* as an orphan; when the last owner goes the destructor writes it back.   *)
(* Contents of a sector are abstract values.                               *)
(***************************************************************************)
EXTENDS Integers, FiniteSets, LruCacheMap

CONSTANTS
    DeviceSectors,   \* device_sz_ / sec_sz_
    AddressSpan,     \* 2^32 / sec_sz_: where sec_num * sec_sz_ wraps
    Value,           \* contents of a sector
    CacheSize,       \* CACHED_SECTOR_NUM
    MaxHeld,         \* bound: sectors one call holds at a time
    MaxBetween       \* bound: other sectors a call reads before it reads again
                     \* a number it still holds; 0 in fs.cpp

ASSUME DeviceAssumption ==
    /\ DeviceSectors \in Nat \ {0} /\ AddressSpan \in Nat \ {0}
    /\ CacheSize \in Nat \ {0} /\ MaxHeld \in Nat \ {0} /\ MaxBetween \in Nat
    /\ Value # {}

Sector == 0 .. DeviceSectors - 1

VARIABLES
    disk,      \* the file behind the driver
    lru,       \* numbers of the cached sectors, most recently used first
    value,     \* value_ of the cached Sector object of every number
    dirty,     \* dirty_ of it
    held,      \* cached sectors a call holds
    orphan,    \* held Sector objects the cache has dropped
    latest,    \* sector returned by the last readSector, still untouched
    since      \* history: the others read since a held number was read last

vars == <<disk, lru, value, dirty, held, orphan, latest, since>>

Cached == ToSet(lru)
None == -1

TypeOK ==
    /\ disk \in [Sector -> Value]
    /\ lru \in Seq(Sector) /\ Len(lru) <= CacheSize
    /\ value \in [Sector -> Value]
    /\ dirty \subseteq Sector
    /\ held \subseteq Sector
    /\ \A x \in orphan : x.sec \in Sector /\ x.val \in Value /\ x.dirty \in BOOLEAN
    /\ latest \in Sector \cup {None}
    /\ since \in [Sector -> SUBSET Sector]

-----------------------------------------------------------------------------
\* LinuxFileDriver: the byte offset is computed in u32, and so is the size
\* it is compared with.
offsetOf(n) == n % AddressSpan
inRange(n) == (n + 1) % AddressSpan <= DeviceSectors

\* writeSectorValue for every sector of S, with the contents of v.
written(d, S, v) ==
    [p \in Sector |->
        LET from == {n \in S : inRange(n) /\ offsetOf(n) = p}
        IN  IF from = {} THEN d[p] ELSE v[CHOOSE n \in from : TRUE]]

Init ==
    /\ \E v \in Value : disk = [n \in Sector |-> v]
    /\ lru = <<>> /\ value = disk
    /\ dirty = {} /\ held = {} /\ orphan = {}
    /\ latest = None
    /\ since = [n \in Sector |-> {}]

Holding == Cardinality(held) + Cardinality(orphan)

HeldNumbers == held \cup {x.sec : x \in orphan}

\* What a call does before readSector(n): it keeps an object of n for a few
\* reads at most.  File::read, write, sync and selfDestruct read the number
\* they hold again with no other in between.
MayRead(n) == n \in HeldNumbers => Cardinality(since[n]) <= MaxBetween

ReadNow(n) ==
    [m \in Sector |-> IF m = n \/ m \notin HeldNumbers THEN {} ELSE since[m] \cup {n}]

Forget(n) == [since EXCEPT ![n] = {}]

\* CacheManager::readSector, the number is cached: same object, moved to the
\* front.
ReadHit(n) ==
    /\ contains(lru, n) /\ MayRead(n)
    /\ n \in held \/ Holding < MaxHeld
    /\ lru' = get(lru, n)
    /\ held' = held \cup {n} /\ latest' = n /\ since' = ReadNow(n)
    /\ UNCHANGED <<disk, value, dirty, orphan>>

\* CacheManager::readSector, a miss: a new object with the driver's data is
\* cached, and the object evicted for it is written back by its destructor
\* unless the call still holds it.
ReadMiss(n) ==
    /\ ~contains(lru, n) /\ inRange(n) /\ MayRead(n)
    /\ Holding < MaxHeld
    /\ LET out == evictedBy(lru, n, CacheSize)
       IN  /\ lru' = put(lru, n, CacheSize)
           /\ value' = [value EXCEPT ![n] = disk[offsetOf(n)]]
           /\ disk' = written(disk, (out \ held) \cap dirty, value)
           /\ dirty' = dirty \ (out \cup {n})
           /\ orphan' = orphan \cup
                {[sec |-> m, val |-> value[m], dirty |-> m \in dirty] : m \in out \cap held}
           /\ held' = (held \ out) \cup {n}
    /\ latest' = n /\ since' = ReadNow(n)

\* Fault: the object is not marked dirty.
WriteSectorClean(v) ==
    /\ latest # None /\ latest \in held
    /\ value' = [value EXCEPT ![latest] = v]
    /\ UNCHANGED <<disk, lru, dirty, held, orphan, latest, since>>

\* Sector::write_ptr marks the object dirty and hands out a pointer; the store
\* through it is part of the step, because every caller makes it before any
\* other call of the cache.
WriteSector(v) ==
    /\ latest # None /\ latest \in held
    /\ value' = [value EXCEPT ![latest] = v]
    /\ dirty' = dirty \cup {latest}
    /\ UNCHANGED <<disk, lru, held, orphan, latest, since>>

\* Sector::sync on the sector just read (File::sync).
SyncSector ==
    /\ latest # None /\ latest \in held /\ latest \in dirty
    /\ disk' = written(disk, {latest}, value)
    /\ dirty' = dirty \ {latest}
    /\ UNCHANGED <<lru, value, held, orphan, latest, since>>

\* A shared_ptr goes out of scope; the cache still owns the object.
Release(n) ==
    /\ n \in held
    /\ held' = held \ {n} /\ since' = Forget(n)
    /\ latest' = IF latest = n THEN None ELSE latest
    /\ UNCHANGED <<disk, lru, value, dirty, orphan>>

\* Fault: the destructor does not write back.
ReleaseOrphanLost(x) ==
    /\ x \in orphan
    /\ orphan' = orphan \ {x} /\ since' = Forget(x.sec)
    /\ UNCHANGED <<disk, lru, value, dirty, held, latest>>

\* The last shared_ptr to an object the cache has dropped goes: ~Sector.
ReleaseOrphan(x) ==
    /\ x \in orphan
    /\ disk' = IF x.dirty THEN written(disk, {x.sec}, [value EXCEPT ![x.sec] = x.val])
               ELSE disk
    /\ orphan' = orphan \ {x} /\ since' = Forget(x.sec)
    /\ UNCHANGED <<lru, value, dirty, held, latest>>

\* Fault: the objects are released without being written.
ClearDropped ==
    /\ held = {} /\ orphan = {}
    /\ lru' = <<>> /\ dirty' = {} /\ latest' = None
    /\ UNCHANGED <<disk, value, held, orphan, since>>

\* CacheManager::clear, called by FAT32fs::flush when no call holds a sector.
Clear ==
    /\ held = {} /\ orphan = {}
    /\ disk' = written(disk, Cached \cap dirty, value)
    /\ lru' = <<>> /\ dirty' = {} /\ latest' = None
    /\ UNCHANGED <<value, held, orphan, since>>

\* The process dies (an assertion, a signal): the kernel keeps what was handed
\* to write(2), a new process starts with an empty cache.  A loss of power is
\* not modelled: nothing is ever fsynced.
Crash ==
    /\ lru' = <<>> /\ dirty' = {} /\ held' = {} /\ orphan' = {} /\ latest' = None
    /\ since' = [n \in Sector |-> {}]
    /\ UNCHANGED <<disk, value>>

Next ==
    \/ \E n \in Sector : ReadHit(n) \/ ReadMiss(n) \/ Release(n)
    \/ \E v \in Value : WriteSector(v)
    \/ SyncSector
    \/ \E x \in orphan : ReleaseOrphan(x)
    \/ Clear
    \/ Crash

Spec == Init /\ [][Next]_vars

-----------------------------------------------------------------------------
(***************************************************************************)
(* Properties.                                                             *)
(***************************************************************************)

\* The contents of a sector as the file system sees it.
Current(n) ==
    IF n \in Cached THEN value[n]
    ELSE IF \E x \in orphan : x.sec = n THEN (CHOOSE x \in orphan : x.sec = n).val
    ELSE disk[n]

Device == INSTANCE BlockDevice
            WITH store <- [n \in Sector |-> Current(n)], stable <- disk, target <- latest

\* The cache over the driver is a block device (device.h): a sector reads
\* back what was last written to it whatever was evicted, held or synced in
\* between, and only current contents reach the file.
IsBlockDevice == Device!Spec

\* A sector whose object is clean agrees with the file: nothing that was not
\* marked dirty can be lost by an eviction that writes nothing.
CleanIsStable ==
    /\ \A n \in Cached \ dirty : value[n] = disk[n]
    /\ \A x \in orphan : x.dirty \/ x.val = disk[x.sec]

\* A number never has two live objects, one in the cache and one a call still
\* holds, or two held: each would overwrite the other's updates when it is
\* destroyed.  The cache does not prevent it (CacheManager::readSector looks
\* at the map only); what does is the recency order: a number a call holds and
\* reads again soon is still cached.
OneObject ==
    \A x \in orphan : x.sec \notin Cached /\ \A y \in orphan : y.sec = x.sec => y = x

\* FAT32fs::flush ends with every sector's current contents handed to the file
\* (to the kernel's page cache, not to the medium).
FlushIsDurable == [][Clear => \A n \in Sector : disk'[n] = Current(n)]_vars
=============================================================================
