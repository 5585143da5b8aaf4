# A verification development for fuse-fat32

fuse-fat32 is a user-space FAT32 driver: libfuse calls the handlers of
`programs/fat32_fuse.cpp`, one at a time (`fuse_session_loop`, one thread); a
handler works on `File` and `Directory` objects (`library/fs.cpp`), these on the
allocation table (`class FAT`, `library/fat32.cpp`) and on sectors behind a
write-back cache (`library/device.cpp`).

This directory holds TLA+ models of its layers, TLC configurations that check
them on small instances, and proofs, checked by TLAPS, that the properties of the
allocation table, the two caches, a directory, the tree of files, the data of files,
names and times hold for every size of the instance.

## 1. Inventory

| Component | State | Operations | What makes it correct |
|---|---|---|---|
| `FAT` (fat32.cpp 357-544) | table on the device, `avail_clus_cnt_`, `free_count_` | `availClusCnt`, `allocClus`, `freeClus`, `readClusChains`, `resize` | chains disjoint and ending, no cluster lost, a resize exact, the count equal to the table |
| `Sector`, `CacheManager`, `LinuxFileDriver` (device.cpp) | LRU list of 64 sectors, value and dirty flag of each, the file | `readSector`, `write_ptr`, `sync`, `~Sector`, `clear` | a sector reads back what was written last; a flush makes it stable |
| `LRUCacheMap` (util.h) | list and map | `put`, `get`, `remove`, `clear` | recency order, size, nothing stale |
| `Directory` (fs.cpp 332-669) | runs of 32-byte entries in the directory's chain | `crtFile`, `crtDir`, `delFile`, `lookupFile`, `lookupFileByIndex`, `isEmpty` | a table of names: runs whole, none hidden behind an end mark, a listing complete |
| `File` (fs.cpp 10-330) | metadata, position of its entry, cached chain, `is_deleted_` | `fromIno`, `read`, `write`, `truncate`, `sync`, `selfDestruct`, `exchangeMetaData`, `~File` | the metadata written belongs to the entry it goes to; data reads back |
| `FAT32fs` (fs.cpp 671-792) | cache of 20 `File` objects, FSInfo | `from`, `getFileByIno`, `addFileToCache`, `rmFileFromCacheByIno`, `flush` | one live object per inode number, none of a deleted file |
| FUSE handlers (fat32_fuse.cpp) | inode numbers the kernel holds | lookup, create, mkdir, unlink, rmdir, rename, readdir, read, write, setattr, fsync, statfs | each handler is one atomic change of the tree |
| names (fat32.cpp 29-354, util.cpp, fs.cpp 506-563) | none | `genBasisNameFromLong`, `genBasisNameFromShort`, `readShortEntryName`, `mkLongDirEntry`, `chkSum`, `toUpper`, `strip`, conversions to and from GBK | a name that was created is found, under itself; a listed name can be looked up |
| DOS time (fat32.cpp 111-175) | the stamps of a file | `unix2DosTs`, `unix2DosTs_2`, `dos2UnixTs`, `dos2UnixTs_2` | `stat` answers the instant that was given, rounded down |
| mount (fat32.cpp, fs.cpp 671-709) | FSInfo | checks of the boot sector, hint and count taken from FSInfo | the first allocation takes a free cluster |

Interaction: a handler looks a `File` up by inode number (parent's first cluster
and entry number), in the object cache or on the disk. Objects change the table
through `FAT::resize` and `freeClus`, the parent's entries through sectors.
Destructors write: evicting an object writes its metadata into its parent's
sector, evicting a sector writes it to the file. There are no threads and no
callbacks besides destructors; what is hard is long sequences of calls, state
kept in several places (count and table, object and entry, cached sector and
file, cached chain and table), inode numbers and listings that stay with the
kernel between calls, addressing, wrap-around, and a death of the process between
two write-backs. The hazards, line by line, are in `PROJECT.json`.

## 2. The modules

| Module | Models |
|---|---|
| `FatTable` | class `FAT`, and the first-cluster field of each owner of a chain; the refinement `FatTable` => `ClusterPool` |
| `ClusterPool` | abstract: owners hold sequences of clusters; extend, cut, exchange |
| `MCFatTable` | volumes for TLC |
| `LruCacheMap` | operators on recency lists |
| `LruUse` | any sequence of calls on a cache, with the history of uses |
| `SectorCache` | `device.cpp`: objects in the cache, held, orphaned; stable file; crash |
| `BlockDevice` | abstract: a store, what is stable of it, and the sector opened by the last read, the only one a write may change |
| `DirTable` | the entries of one directory, by chain and by metadata arithmetic; listings |
| `NameTable` | abstract: a finite map from names to metadata |
| `MCDirTable` | directories for TLC; the refinement `DirTable` => `NameTable` is stated in `DirTable` |
| `FileObjects` | the handlers over a tree: entries, the cache of `File` objects, destructors, open files |
| `FileTree` | abstract: a tree of names, changed by one step per call |
| `MCFileObjects` | a volume for TLC; the refinement `FileObjects` => `FileTree` is stated in `FileObjects` |
| `FileData` | `read`, `write`, `truncate` over the chain an object has cached |
| `MCFileData` | two files for TLC |
| `MCCaches`, `MCFile` | parts that share no state in one run, one after the other: the two caches; the name, times and data of a file |
| `EntryNames` | the run of entries made for a name, and how it is read back |
| `FileTimes` | packed time stamps and the handlers that set them |
| `MCEntryFields` | names and instants for TLC |
| `FatTableProofs`, `LruUseProofs`, `SectorCacheProofs`, `DirTableProofs`, `FileObjectsProofs`, `FileDataProofs`, `EntryFieldsProofs` | the theorems of section 5 |
| `CommonLemmas` | lemmas they share: least elements, enumeration and counting of finite sets, quotients and remainders; recency lists |

Each layer leaves the state of the others out: `FileObjects` gives every directory
one cluster and every name one entry, because runs and chains are in `DirTable` and
`FatTable`; `FileData` lets a resize take the lowest free clusters, because which it
takes is in `FatTable`; and none of them sees the sector cache, because it
implements `BlockDevice`: reads return what was written last.

**FatTable.** `fat` is the table (entries 0 and 1 reserved), `fst` the
`fst_clus_` of every owner (0: no cluster), `avail` the cached count, `hint` the
`free_count_` consumed by the first allocation. One action is one call with
everything it does: `Shrink`, `Grow`, `GrowRefused`, `GrowAborts` are the four
outcomes of `resize`; `FreeClus` is `selfDestruct`'s release; `ExchangeMetaData`
is rename; `Statfs` computes and keeps the count; `Remount` is an unmount and a
new `FAT` object (`FAT32fs::from` overwrites FSInfo at the first mount). The
scans are as in the code: `CountOfClusters` entries starting with entry 0, so the
last two data clusters are not `Seen`. A hint is taken unchecked, and found again
exactly if it is the lowest free entry. After a failed assertion nothing happens.

**SectorCache.** `lru`, `value` and `dirty` are the cached objects; `held` the
cached ones a call has a pointer to; `orphan` the held objects the cache has
evicted. A destructor is part of the action that drops the last owner. A call
writes through the sector it read last; `write_ptr` and the store through the pointer
are one step, because every caller stores before it calls the cache again.
`readSector` looks at its map only: of a number whose object is held but evicted it
makes a second object, as the code does. What keeps callers from it is that they read a
number they still hold again at once (the loops of `read`, `write`, `sync` and
`selfDestruct`), or not at all; the bound `MaxBetween` says after how many other
sectors they may (`since` counts them), and that there is one object to a number
(`OneObject`) follows from the recency order if these are fewer than the cache has
places (`SectorReread.cfg` has as many). `Crash` is a death of the process: what was
handed to `write(2)` stays. A loss of power is not modelled, since nothing is ever
fsynced; `FlushIsDurable` too means the kernel's page cache. Offsets are taken modulo
`AddressSpan`, the number of sectors 2^32 bytes hold.

**DirTable.** `dir` is a record of the chain and of the entries of all clusters
of the volume, so that a write to a wrong cluster is visible. `place` addresses
the n-th entry through the chain, as `readDirEntry` does; `at` as `fromIno`,
`sync` and `selfDestruct` do, from the first cluster. The operators
`crtFileInner`, `delFile`, `truncate`, `sync`, `selfDestruct` map directories to
directories and the actions compose them as the handlers do. A listing is
`OpenListing`, one `ReadListing` for each file delivered, `EndListing`; each may
be separated by other calls, where the kernel's buffer ends. `Foreign` clusters
belong to other files and never change hands: with the last cluster foreign the
directory's clusters are adjacent, with the middle one they are not.

**FileObjects.** `fs` is a record of the entries on the disk (`cell`), the clusters
in use and the cached objects; `open` holds the inode numbers of the files and
directories the kernel has open, which no handler looks at. An inode number
is the pair of a cluster and an entry number, as `getFileByIno` takes it apart, and
what a call reads of a file comes from the cached object if there is one
(`getFileByIno`), else from the entry (`fromIno`; for an entry that is not in use it
answers nothing and an assertion fails, which no action follows: `HandlesExist` says
when it may). Changes stay in the object;
`written` is `File::sync(true)` and says what becomes of a cluster that no longer
holds a directory: the bytes there are `spoiled`. The methods are operators from
record to record, and an action composes them as the handler does: `Rename` makes
the new name (for a directory a new directory, with its cluster and dots),
exchanges the metadata, syncs both and destroys the old; `MkdirRefused` deletes the
name again and lets the abandoned object write into the erased entry, which also is
what a rename of a directory does without a free cluster. `Evict` may take any
object at any time: the cache of 20 is shared with files outside of the model.
`LookUp` is every handler that only looks (lookup, getattr, readdir, an fsync
without `datasync`); `Open` of a directory makes its object (`fat32_opendir`). The kernel's own checks are guards of `Rename`: a directory
does not move below itself and replaces only a directory. `Tree` reads the state the
way the handlers do; under it the module implements `FileTree`.

**FileData.** `cached` is `clus_chain_`, absent or the chain as it was read; `data`
the bytes of every cluster. `place` gives sector and byte of each byte of a buffer,
as the loops of `read` and `write` count them. `WriteInside` and `WriteBeyond` are
the two branches of `File::write`; a write that gets no clusters writes nothing.
`Replace` is the exchange of a rename over a file. `expected` is a history variable
and the reference: each file as a sequence of bytes. A byte that no one wrote, in a
file that was extended, is `Unknown`: the code leaves there what the cluster held.

**EntryNames, FileTimes.** Conversions, as functions on bytes and units; a character
is the sequence of its bytes in GBK and one unit of UTF-16, and `iconv` is external.
`NameAssumption` says what such a sequence is: one byte of ASCII, or one from 129 to
254 and a second from 64 to 254. NUL is not a character of a name, and neither are the
units 0x0000 and 0xFFFF that stand behind a name in its last long entry.
`crtFileInner(n)` is the run written for a name, `lookupFileInner(run, n)` the loop
over it with the outcome of its assertion. In `FileTimes` an instant is a day, a
second and a hundredth; `gmtime` is external and given by the first days of months.
`mktime` takes the fields for local time, which is `Zone` ahead of the UTC they
were packed in. `MCEntryFields` types every name and gives the file every instant.

Named bounds: `MaxRequest` (clusters of one resize), `Word` (counter width),
`MaxHeld` (sectors a call holds), `Listing` (whether a listing takes part),
`MaxStamp` (changes of size and times that are told apart; the last is repeated),
`MaxKept` (open files and cached objects of dot entries, together), `Offset`,
`Length`, `NewSize` (arguments of write and setattr), `MaxLength` (characters of a
name). They bound inputs or the instance, no action is cut off by a step counter.
`AwaitDots` leaves out what section 3 shows to fail: a directory is removed while an
object of its dots is cached. `MaxBetween` is the other sectors a call reads before it
reads a number again that it holds: none in `fs.cpp`, 1 in the runs.

Definitions whose comment begins with "Fault" are not used by the specifications:
each is a wrong version of the definition that follows it, and the properties have
been seen to fail with it in place (`mutants` in `PROJECT.json`).

## 3. The runs

| Run | Instance | Shows |
|---|---|---|
| `FatTable.cfg` | 6 clusters, 4 owners (two directories), a formatted volume with a good hint and a fragmented one | `ChainsDisjoint`, `ChainsSound`, `NothingLost`, `ResizeExact`, `AvailFollows` and the refinement of `ClusterPool` |
| `Caches.cfg` | 4 sectors, cache of 2, 2 held; 4 keys, size 3 | refinement of `BlockDevice` with crashes; clean objects agree with the file; one object per number; flush is durable; no early eviction of a key, nothing stale |
| `DirTable.cfg` | 2 clusters of 4 entries for the directory, names of 2, 2 and 3 entries, dot entries, metadata of 2 values | refinement of `NameTable`; runs whole; nothing behind the end mark; `isEmpty` right; inode numbers lead to their names |
| `DirListing.cfg` | 2 clusters of 3 entries, 3 names of 2 entries or 1, no dot entries, a listing | names that stay are listed exactly once, and a listing ends |
| `FileObjects.cfg` | 3 clusters of 3 entries, 2 names, an open file or directory or a dot object | refinement of `FileTree`; every cluster has one owner; destructors write to their own entry and over no file's data; an eviction loses nothing; a file's inode number goes only in the unlink or rename of that file |
| `File.cfg` | names up to 5 of 7 characters, parts of 3 and 2 bytes, 2 units in an entry; 20 instants; 2 files on 3 clusters of 2 sectors of 2 bytes | names are found again, listed names can be looked up, times round down; a read of any part returns what was written last; a cached chain is never stale |

Why the bounds are enough. Six clusters give chains of three that are fragmented,
requests that are refused, that meet the invisible last clusters and that overrun
a wrapped count (`Word` is 8). Four sectors and a cache of two make every
combination of hit, eviction, orphan and re-read happen. Two clusters of four
entries make runs that cross a cluster, reuse of shorter and longer gaps, growth,
cuts and refusals happen; with a listing, three names at once, runs across the
cluster border, and a cut below the offset of the listing. Names of equal length
are symmetric (`Alike`), and all properties checked under the symmetry are safety
properties (`DirListing.cfg`, which checks a liveness property, has none).
In `FileObjects.cfg` three clusters are
a root, a directory and a file or a directory in it, so that moves change the parent,
a file competes with a directory for the last cluster, and mkdir and rename are
refused for want of entries and of clusters; two stamps tell an old copy of the
metadata from the current one. In `File.cfg` two bytes to a sector and two
sectors to a cluster make the shortest buffers that start in the middle of a sector,
cross a sector and a cluster and end in the middle of one (4 bytes at offsets 0, 1
and 3), and three clusters shared by two files give chains that are not adjacent and
writes that are refused. There too the widths of the parts of a name are
constants reduced to 3, 2 and 2, so that names of five characters overrun each of
them, end on them exactly, and cut a character of two bytes in its middle; the
characters are an upper and a lower case letter, one that short names do not have, a
period, a space, and two of GBK, one with a lower case letter as its second byte and
one with the erase mark as its first. The instants are at the borders of a
day, of February, of a leap year and of the bits of years; they leave out the one of
`EntryHundredths.cfg`, and `Zone` is 0.

Runs that must fail, each the shortest run of the model into a disagreement of
code and documentation (quoted in `findings`):

| Run | Property | What happens |
|---|---|---|
| `FatHint.cfg` | `ChainsDisjoint` | FSInfo's count taken as a cluster number gives a file the root directory's cluster |
| `FatUnreachable.cfg` | `ScanSuffices` | the count, wrapped below zero, admits a request that ends in the assertion marked "unreachable" (`GrowAborts`) |
| `DirScattered.cfg` | `InodeIsName` | metadata of a file looked for outside its directory |
| `FileDots.cfg` | `DataIntact` | a listed ".." outlives its directory and writes its metadata over the data of a file |
| `FileUnlinkOpen.cfg` | `HandlesExist` | a file or directory unlinked, removed or renamed while open: its inode number leads to no file |
| `EntrySpaces.cfg` | `CreatedIsFound` | a name with a space is created, and the next lookup fails the assertion on the checksum |

Further configurations, each of which TLC finds violated too. They are kept to show
what the passing runs leave out and why:

| Configuration | Property | What happens |
|---|---|---|
| `FatLowestHint.cfg` | `ResizeExact` | a hint found twice makes a chain one short |
| `FatCount.cfg` | `CountRestored` | a shrink lowers the free count |
| `FatLastClusters.cfg` | `RefusedOnlyWhenFull` | space refused with two clusters free that no scan sees |
| `SectorWrap.cfg` | `IsBlockDevice` | sector offsets wrap beyond 4 GiB |
| `SectorReread.cfg` | `OneObject` | a call that re-reads a number it holds after as many others as the cache has places makes a second object of it |
| `DirPartial.cfg` | `ListsFiles` | a listing resumed in the middle of a run delivers the tail of a name |
| `FileWrap.cfg` | `ReadsWritten` | offset and length wrap, and a write beyond the limit shrinks the file |
| `EntryHundredths.cfg` | `HundredthsKept` | an odd second without hundredths becomes a tv_nsec of a whole second |
| `EntryZone.cfg` | `SecondKept` | a time packed in UTC is read back as local time |

In `FileWrap.cfg` the model stores nothing into sectors the shortened chain does not
have; the code throws at the first of them (`readSector(sec_no).value()`).

The passing runs start from volumes these do not spoil (no hint or the number of a
free cluster in FSInfo, adjacent directory clusters) and keep to the bounds named
above. `CHECK_DEADLOCK FALSE` is set in all runs: an aborted driver stops, and a name
of `MaxLength` characters is not extended.

## 4. Fairness

The driver acts only when it is called, and nothing in the code obliges a client to
call; the loops inside a call terminate because chains end (`ChainsSound`). One
operation spans calls: a listing, which `readdir(3)` drives call by call until one
delivers nothing. `FairSpec` of `DirTable` is weak fairness of `ReadListing` and
`EndListing` together: a reader that has a listing open goes on asking. Nothing is
assumed of the other calls, which may come between any two reads, as often as they
like. `ListingEnds` then says that every open listing ends, because each read
leaves it at a larger offset and the directory is bounded by its clusters: that much
is proved (`ListingAlwaysAdvances`), for every size of the directory.

## 5. What is proved

The theorems hold for every value of the constants that satisfies the assumptions
of the modules. Some have a hypothesis besides, named below: a condition that some
configuration of section 3 drops to show what the code does without it, or that the
states to start from are in order.
Every invariant is proved the same way: an invariant `IInv` that is inductive is
found with TLC (as an invariant of the component's run), `Init => IInv` and
`IInv /\ [Next]_vars => IInv'` are proved action by action, and the property follows.

| Module | Property | Theorem | Hypothesis |
|---|---|---|---|
| `FatTableProofs` | `TypeOK` | `TypeCorrect` | |
| | `ChainsDisjoint` | `NoCrossLinks` | `TrustedHints` |
| | `ChainsSound` | `ChainsAlwaysSound` | `TrustedHints` |
| | `NothingLost` | `NothingEverLost` | `TrustedHints`, `NothingLostYet` |
| | `ResizeExact` | `ResizeAlwaysExact` | `TrustedHints`, `NoLowestHint` |
| | `AvailFollows` | `CountAlwaysFollows` | `TrustedHints`, `NoLowestHint` |
| | `RefinesPool` | `PoolImplemented` | `TrustedHints` |
| `LruUseProofs` | `UseTyped`, `NoneStale`, `NeverEarly` | `TypeCorrect`, `NothingStale`, `NothingEarly` | |
| `SectorCacheProofs` | `TypeOK`, `OneObject`, `CleanIsStable`, `FlushIsDurable`, `IsBlockDevice` | `TypeCorrect`, `OneObjectAlways`, `CleanAlwaysStable`, `FlushDurable`, `BlockDeviceImplemented` | `NoWrap`, `Patient` |
| `DirTableProofs` | `TypeOK`, `NothingBehindEnd`, `RunsWhole`, `EmptyIsEmpty`, `InodeIsName` | `TypeCorrect`, `NothingHidden`, `RunsAlwaysWhole`, `EmptyAlwaysEmpty`, `InodeAlwaysName` | `Adjacent`, `SoundImages` |
| | `OthersUntouched`, `ListsStaying`, `IsNameTable` | `OthersAlwaysUntouched`, `ListingDelivers`, `NameTableImplemented` | `Adjacent`, `SoundImages` |
| | `ListingAdvances` (in no run) | `ListingAlwaysAdvances` | `Adjacent`, `SoundImages` |
| `FileObjectsProofs` | `TypeOK`, `ClustersOwned`, `EntryOfObject`, `DataIntact`, `EvictionLosesNothing` | `TypeCorrect`, `OwnedAlways`, `ObjectsHaveTheirEntries`, `DataAlwaysIntact`, `EvictionHarmless` | `AwaitDots` |
| | `IsFileTree` | `TreeImplemented` | `AwaitDots` |
| | `InodeNumbersStay` | `NumbersAlwaysStay` | `AwaitDots` |
| `FileDataProofs` | `DataTyped`, `ChainFresh`, `ReadsWritten` | `TypeCorrect`, `ChainAlwaysFresh`, `ReadsAlwaysWritten` | `NoWrap` |
| `EntryFieldsProofs` | `PlainIsFound`, `ListedIsFound` | `PlainAlwaysFound`, `ListedAlwaysFound` | |
| | `FoundUnderNoOther` (in no run) | `FoundOnlyUnderItself` | |
| | `StatRoundsDown` | `StatAlwaysRoundsDown` | `Utc`, `OddsKept` |

**The hypotheses.** `TrustedHints`: FSInfo of a mounted volume names a free cluster
or nothing (`FatHint.cfg`). `NoLowestHint`: that cluster is not the lowest free one
the scan sees (`FatLowestHint.cfg`). `NothingLostYet`: the mounted volumes have no
used cluster outside of all chains. The volumes of `FatTable.cfg` satisfy all
three. `NoWrap` of `SectorCacheProofs`: the device is no larger than u32 offsets
reach (`SectorWrap.cfg`); of `FileDataProofs`: offset plus length stays below 2^32
(`FileWrap.cfg`). `Patient`: `MaxBetween` is less than `CacheSize`
(`SectorReread.cfg`); in the program they are 0 and 64. `AwaitDots` is a constant of
`FileObjects` (`FileDots.cfg`). `Adjacent`: the clusters other files do not
hold are adjacent, as they are for a directory that never grows and for one that
grows into the clusters behind it (`DirScattered.cfg` drops it: `sync` and
`selfDestruct` then write where the directory is not). `SoundImages`: the directories
to start from lie in those clusters, and are `Whole` as described below. Both hold in
`DirTable.cfg` and `DirListing.cfg`, with names that another driver wrote without
long entries among them. `Utc`: the driver runs where local time is UTC
(`EntryZone.cfg`). `OddsKept`: no instant has an odd second and no hundredths
(`EntryHundredths.cfg`).

**FatTable.** `ChainsDisjoint` is not inductive: it speaks of walks. `IInv` adds to
the types that the table is `WellFormed` (links lead from used entry to used data
cluster, no cluster has two predecessors, first clusters are used, distinct and
nobody's successor) and that the hint is still free (`FreeHint`), which is what
fails on volumes with a count in FSInfo. The steps are proved from what a walk
visits (a released cluster's successor is released) and from what `Link` writes
(the picked clusters are free, each but the last is linked to the next larger).
`IInv => ChainsDisjoint` follows two walks back from a shared cluster to their
heads. The recursive function `Walk` is shown to exist and to unfold before anything
is said about it.

The other theorems speak of `ChainOf(o)`, the sequence `readClusChains` returns,
and not of walks any more. `ChainExists`: from a first cluster of a well-formed table
there is a finite sequence without repetition that follows the links to an end mark,
for a walk that went on for ever would visit more clusters than there are.
`ChainReads`: `readClusChains` returns that sequence. `ShrinkChains`, `GrowChains`,
`FreeChains` and `ExchangeChains` then say what each operation does to it: cut to a
prefix, extended by the linked clusters, emptied, exchanged, the chains of the other
owners untouched. From these follow the refinement, `NothingLost` (inductive together
with `IInv`) and `ResizeExact`, which needs that an allocation takes exactly the
clusters asked for: `AllocatesExactly`, by counting the elements of a finite set of
numbers that have fewer than n below them. It fails when the scan finds the hint
again, so `IInvExact` carries `NotLowest`: free entries stay free until the hint is
consumed. `AvailFollows` counts the free data clusters before and after a step, the last
two included, and adds the arithmetic of the counter modulo its width. It leaves out
the shrinks, which move the count the wrong way (`FatCount.cfg`).

**LruUse.** `NeverEarly` becomes inductive with `UsedSince`: whatever is nearer to
the front of the list than a key was used after it. A key that falls off the end
therefore has `max_size_` keys used since. The history sets are finite.

**SectorCache.** No guard makes `OneObject` true: `readSector` makes a new object of any
number that is not in the map. It rests on `Recency`: of a held number that is
cached, whatever is nearer to the front of the list was read since that number was, and
of an orphan's number, at least `CacheSize` others were. A call that is `Patient` has
read fewer than that, so the number it reads again is cached. With it `CleanIsStable` is
inductive: an eviction writes nothing for a clean object, and the disk is not written
under an orphan. The
refinement maps a sector to the contents of its live object, or of the file when
there is none.

**DirTable.** `IInv` says that the directory is `Laid` (its chain runs over the first
of its clusters), that it is `Whole`, and what a listing has delivered. `Whole` has
four parts that need one another: the dot entries are there and stand for no name
(`DotsThere`); behind an end mark nothing is in use (`Ended`); every used entry lies
in a run, long entries and the short one of a single name, with nothing of that run
in front of it (`InRuns`); no name has two short entries (`OneRun`). The proof leaves
the disk behind first: `PlaceIs` and `AtIs` show that in adjacent clusters the
addresses of `readDirEntry` and of `fromIno`, `sync` and `selfDestruct` name the same
entry, so that from there on a directory is a sequence of entries. What the methods
do to a whole one is a lemma each: `crtFileInner` adds a run in empty entries, old
ones or new ones of a cleared cluster (`Created`); `delFile` takes one away and keeps
the others through the cut (`Deleted`); `sync` changes the metadata of one short entry
(`RunSynced`), or of an entry that is not in use and stays so (`DeadTouched`), which
is what the destructors do after `delFile`; `selfDestruct` erases one run
(`RunDestroyed`). Runs are disjoint (`RunsApart`), so the rest of the names keep place
and metadata (`Keeps`), and a handler is one step of `NameTable`. A listing keeps
`Delivering`: of the names that stay, exactly those in front of its offset are
delivered. It is preserved because such names keep their place (`Settled`), which
holds in a rename over an existing name too. Besides, a read raises the offset, which
the clusters of the volume bound, and no other call moves it (`ListingAdvances`).

**FileObjects.** `IInv` says that the record of entries, clusters and objects is
`Consistent`: first clusters differ (`Apart`), the clusters in use are those of the
root and of the entries (`UsedOwned`), a directory has a cluster with its two dot
entries (`DirsWhole`), entries lie in directories only (`EntriesInDirs`), and objects
have entries of their kind; besides, nothing is spoiled. `InodeNumbersStay` follows
action by action: each method touches only entries that are free, or that belong to the
object it is called on. The handlers are compositions of methods, and so are the proofs: what
`crtFileInner`, `crtDir`, `delFile`, `written`, `exchangeMetaData`, `selfDestruct` and
`destroyed` do to a consistent record is a lemma each. `AwaitDots` is used in one
place, where a directory is destroyed: no cached object may have its entry there.

The refinement of `FileTree` needs one more invariant, which is inductive together
with `IInv`: no name is twice in a directory (`NamesOnce`). It is the reason that a
link of the tree is known by its entry and no two entries give the same link. A call
then does one of five things to the links, a lemma each: one is changed, made, gone,
moved, or moved in the place of another (`ChangedStep`, `MadeStep`, `GoneStep`,
`MovedStep`, `ReplacedStep`); evictions, opens and listings leave all as they are
(`SameStep`). That a moved directory does not end up below itself is the kernel's
check (`below`), taken from its definition as the smallest closed set of directories
and not from a walk. Two names exchanged in the cache (`exchangeMetaData`) and the
entry that goes afterwards are one step of the tree, since a handler is one step.

**FileData.** `IInv` says where every byte a reader knows lies (`Placed`), which is
kept because chains are injective and apart (`ChainsApart`) and the chain an object
walks is the one in the table (`ChainFresh`). `place` is shown to name, for the k-th
byte of a buffer, sector and byte of offset + k, whatever sector and cluster the call
starts in: quotients and remainders of two nested divisions. A write therefore
changes exactly the bytes it names, of one file.

**EntryNames.** The theorems are about `NameSpec`, which types a name character by
character; all that is kept is that a name is not empty and made of characters, and the
rest of the proof is in the functions. What they compute by a fold or a recursion is
had by induction over a set of lengths. `ShortReads` and `ShortRegained` show that the
basis name which `lookupFileInner` builds again from the short name it read is the one
`crtFileInner` wrote, if the name is `Plain`, so that both take the same checksum.
`EntryRead` shows that the entry of one part gives back that part, whether it fills the
entry, ends on its last unit, or leaves room for the end mark and the fill, and
`LongReads` that the parts, put together from the last entry to the first, are the name.
So the run answers a lookup of that name, and of no other (`PlainRun`,
`FoundUnderNoOther`). `RoundTrip` shows that decoding what `utf8ToGbk` wrote gives the
characters back: a byte is the second of a character or the first of one, whatever byte
it is. Of a name another driver stored, `KanjiRead` undoes the mark that stands for an
erased first byte, and `toUpper` leaves it alone, since it is in upper case and second
bytes are not converted: it is found under the name a listing gave it (`ListedRun`).

**FileTimes.** The theorem is about `TimeSpec`, the handlers alone; the run steps them
beside the names. `IInv` says that the entry holds the stamps of the instants given
last, so that the whole of the proof is in the functions: `YearsAre` and `MonthsAre`
give the lengths of years and months, `YearsReach` counts the leap years up to 2107
(31, since 2100 is none), `GmtimeIs` shows that every day has a year, a month and a day
of the month that lead back to it, `DateIs` and `TimeIs` that the fields do not overlap,
and `ExactIs` that the byte for the odd second and the hundredths restores both.

**Only model-checked.** Liveness (`ListingEnds`) and fairness, which are out of the
prover's reach; what a listing's end rests on besides is `ListingAdvances`. Every
invariant and action property of a passing run has its theorem. Chains of directories
that are not adjacent: there the properties fail, as `DirScattered.cfg` shows.

## 6. Not modelled

* A crash between the layers. The table, the entries and the data reach the device
  through `SectorCache`, whose evictions follow no order the upper layers know of,
  and `fsync` syncs a file's metadata only if `datasync` is set, and neither the
  sector of its entry nor the table. Nothing in the code orders these writes, so
  short of `flush` there is no state after a crash that it promises; what it does
  promise is `FlushIsDurable`.
* Failing system calls (the code asserts or throws), and characters that GBK does
  not have: `utf8ToGbk` answers nothing and `.value()` throws, at a lookup as well as
  a create. `iconv` and `gmtime` are external, a character outside of the first plane
  of Unicode (two units of UTF-16) is left out.
* The checks of the boot sector: they run once, before there is any state, and the
  volumes the models start from satisfy them. Options and the set-up of the session.
  The handlers that refuse (`mknod`, `symlink`, `link`), and the checks of a name's
  characters or of a file's type that precede a change.
* `LRUCacheMap::remove` and the replacing branch of `put` use an iterator of an
  erased node; the models take what the build does, the node still holding the list
  position.

## 7. Plan

Done: all layers are modelled, each with its runs, and every invariant and action
property of a passing run is proved. What is left is a crash across the layers
(section 6), once the code orders its writes so that there is something to state.
