------------------------------ MODULE DirTable ------------------------------
(***************************************************************************)
(* One directory on the disk (class Directory and the metadata part of     *)
(* class File in library/fs.cpp).  A name takes a run of consecutive       *)
(* 32-byte entries, long ones followed by a short one; the entries lie in  *)
(* the clusters of the directory's chain.  The calls of Directory address  *)
(* an entry through the chain (readSector); the calls of File that find    *)
(* the metadata of an object (fromIno, sync, selfDestruct) compute sectors *)
(* from the first cluster.  Both addressings are modelled as they are.     *)
(*                                                                         *)
(* Which clusters a resize takes is the business of FatTable: here it      *)
(* takes the lowest free ones.  Text, time stamps and checksums are left   *)
(* out; the metadata of an entry is one abstract value.                    *)
(***************************************************************************)
EXTENDS Integers, Sequences, FiniteSets, SequencesExt

CONSTANTS
    Name,         \* names of files
    Needed,       \* required_entry_num of every name
    PerCluster,   \* directory entries in a cluster
    ClusterCount, \* clusters of the volume, numbered from 0
    Foreign,      \* clusters other files hold
    Dots,         \* 2 for "." and "..", 0 in the root directory
    Meta,         \* metadata: first cluster, size and times of a file
    NewMeta,      \* metadata of an entry as mkShortDirEntry makes it
    NoName,       \* name of an entry that stands for none of Name
    Images,       \* directories to start from
    Listing       \* bound: whether a listing runs beside the other calls

Cluster == 0 .. ClusterCount - 1
Cell == [mark : {"used", "deleted", "end"}, long : BOOLEAN,
         name : Name \cup {NoName}, meta : Meta]

ASSUME DirAssumption ==
    /\ Needed \in [Name -> Nat \ {0, 1}]
    /\ PerCluster \in Nat \ {0} /\ ClusterCount \in Nat \ {0}
    /\ Foreign \subseteq Cluster
    /\ Dots \in {0, 2} /\ Dots < PerCluster
    /\ NewMeta \in Meta /\ NoName \notin Name
    /\ Listing \in BOOLEAN
    /\ \A d \in Images : d.cell \in [0 .. ClusterCount * PerCluster - 1 -> Cell]

VARIABLES
    dir,      \* the directory: its chain and the entries of all clusters
    cursor,   \* offset of a listing in progress, or Closed
    listed,   \* names it has delivered
    staying   \* names that were there ever since it was opened

vars == <<dir, cursor, listed, staying>>
listing == <<cursor, listed>>
Closed == -1

-----------------------------------------------------------------------------
(***************************************************************************)
(* Entries.                                                                *)
(***************************************************************************)
Zeroed == [mark |-> "end", long |-> FALSE, name |-> NoName, meta |-> NewMeta]
Erased == [Zeroed EXCEPT !.mark = "deleted"]
Long(n) == [mark |-> "used", long |-> TRUE, name |-> n, meta |-> NewMeta]
Short(n, m) == [mark |-> "used", long |-> FALSE, name |-> n, meta |-> m]

\* Number of entries of the directory, and the entry readDirEntry returns
\* for each: the n-th of the chain.
Count(d) == Len(d.chain) * PerCluster
place(d, n) == d.chain[n \div PerCluster + 1] * PerCluster + (n % PerCluster)
entry(d, n) == d.cell[place(d, n)]

isEmptyDirEntry(e) == e.mark \in {"deleted", "end"}
Used(d, n) == ~isEmptyDirEntry(entry(d, n))
UsedEntries(d) == {n \in 0 .. Count(d) - 1 : Used(d, n)}
isShort(d, n) == Used(d, n) /\ ~entry(d, n).long
isLong(d, n) == Used(d, n) /\ entry(d, n).long

Least(S) == CHOOSE n \in S : \A m \in S : n <= m

\* The first entry of the run that ends with the short entry s.
firstOf(d, s) ==
    CHOOSE i \in 0 .. s :
        /\ i = 0 \/ ~isLong(d, i - 1)
        /\ \A j \in i .. s - 1 : isLong(d, j)

\* Directory::lookupFileInner walks the runs in front of the first end mark
\* and stops at the first one that spells the name.
Limit(d) ==
    Least({n \in 0 .. Count(d) - 1 : entry(d, n).mark = "end"} \cup {Count(d)})
Runs(d) ==
    {[start |-> firstOf(d, s), last |-> s] : s \in {n \in 0 .. Limit(d) - 1 : isShort(d, n)}}
Spells(d, r, n) ==
    /\ entry(d, r.last).name = n
    /\ r.last - r.start + 1 \in {1, Needed[n]}
    /\ \A j \in r.start .. r.last : entry(d, j).name = n
Found(d, n) == {r \in Runs(d) : Spells(d, r, n)}
lookupFileInner(d, n) ==
    LET found == Found(d, n)
    IN  CHOOSE r \in found : \A q \in found : r.start <= q.start

\* The names there are, each with the metadata of its short entry.
Table(d) ==
    LET runs == {r \in Runs(d) : entry(d, r.last).name \in Name}
        named == {r \in runs : Spells(d, r, entry(d, r.last).name)}
    IN  [n \in {entry(d, r.last).name : r \in named} |->
            entry(d, (CHOOSE r \in named : entry(d, r.last).name = n).last).meta]
Live(d) == DOMAIN Table(d)

\* Directory::isLstNonEmptyEntry and isEmpty.
isLstNonEmptyEntry(d, n) ==
    \A i \in n + 1 .. Count(d) - 1 :
        Used(d, i) => \E j \in n + 1 .. i - 1 : entry(d, j).mark = "end"
\* Fault: one more entry is skipped.
isEmptyPastFirst(d) == isLstNonEmptyEntry(d, Dots)
isEmpty(d) == isLstNonEmptyEntry(d, Dots - 1)

-----------------------------------------------------------------------------
(***************************************************************************)
(* The metadata of an object: fromIno, sync and selfDestruct start at      *)
(* sector fst_entry_num * 32 / bytes_per_sec of the first cluster, and     *)
(* iterClusChainEntry goes on to the next cluster when the sector index    *)
(* EQUALS the sectors of a cluster; started behind, it never does.         *)
(***************************************************************************)
\* Fault: the entry number is reduced to the first cluster.
atFirstCluster(d, n, k) == place(d, (n + k) % PerCluster)
at(d, n, k) ==
    IF n < PerCluster THEN place(d, n + k) ELSE d.chain[1] * PerCluster + n + k
Reach(d, n) ==
    0 .. (IF n < PerCluster THEN Count(d) ELSE ClusterCount * PerCluster - d.chain[1] * PerCluster) - n - 1

\* Steps until an entry without the long-name attribute.
span(d, n) ==
    LET stops == {k \in Reach(d, n) : ~d.cell[at(d, n, k)].long}
    IN  IF stops = {} THEN Len(d.chain) * PerCluster - n - 1 ELSE Least(stops)

\* File::fromIno: nothing when an entry on the way is empty.
fromIno(d, n) ==
    IF \E k \in 0 .. span(d, n) : isEmptyDirEntry(d.cell[at(d, n, k)])
    THEN {}
    ELSE LET e == d.cell[at(d, n, span(d, n))]
         IN  {[name |-> e.name, length |-> span(d, n) + 1, meta |-> e.meta]}

\* File::sync(true) of the object with fst_entry_num n, metadata m.
sync(d, n, m) == [d EXCEPT !.cell[at(d, n, span(d, n))].meta = m]

\* Fault: only the first entry is marked.
selfDestructFirst(d, n) == [d EXCEPT !.cell[at(d, n, 0)].mark = "deleted"]

\* The entries selfDestruct marks.
selfDestruct(d, n) ==
    LET gone == {at(d, n, k) : k \in 0 .. span(d, n)}
    IN  [d EXCEPT !.cell = [p \in DOMAIN @ |->
            IF p \in gone THEN [@[p] EXCEPT !.mark = "deleted"] ELSE @[p]]]

-----------------------------------------------------------------------------
(***************************************************************************)
(* The calls of Directory.                                                 *)
(***************************************************************************)
\* FAT::allocClus meets free clusters in their order.
Ascending(S) ==
    CHOOSE s \in [1 .. Cardinality(S) -> S] : \A i, j \in DOMAIN s : i < j => s[i] < s[j]
\* Faults: clusters of the directory itself or of other files are taken.
FreeClustersOwn(d) == Ascending(Cluster \ Foreign)
FreeClustersOthers(d) == Ascending(Cluster \ ToSet(d.chain))
FreeClusters(d) == Ascending(Cluster \ (Foreign \cup ToSet(d.chain)))

\* Directory::truncate to n entries: clusters are taken and cleared, or cut.
truncate(d, n) ==
    LET size == (n - 1) \div PerCluster + 1
        more == SubSeq(FreeClusters(d), 1, size - Len(d.chain))
    IN  IF size <= Len(d.chain) THEN [d EXCEPT !.chain = SubSeq(@, 1, size)]
        ELSE [chain |-> d.chain \o more,
              cell  |-> [p \in DOMAIN d.cell |->
                            IF p \div PerCluster \in ToSet(more) THEN Zeroed ELSE d.cell[p]]]

\* Fault: one empty entry too few is asked for.
freeEntryStartShort(d, n) ==
    LET used == UsedEntries(d)
    IN  Least({i \in 0 .. Count(d) : \A j \in i .. i + Needed[n] - 2 : j \notin used})

\* Where crtFileInner puts a run: the first empty entries that suffice, or
\* the empty entries at the end of the directory and new ones behind them.
freeEntryStart(d, n) ==
    LET used == UsedEntries(d)
    IN  Least({i \in 0 .. Count(d) : \A j \in i .. i + Needed[n] - 1 : j \notin used})
\* The entries the directory has to have for it, and whether there is space.
Wanted(d, n) == freeEntryStart(d, n) + Needed[n]
Fits(d, n) ==
    (Wanted(d, n) - 1) \div PerCluster + 1 <= Len(d.chain) + Len(FreeClusters(d))

\* Directory::crtFileInner.
crtFileInner(d, n) ==
    LET first == freeEntryStart(d, n)
        last  == first + Needed[n] - 1
        room  == IF last < Count(d) THEN d ELSE truncate(d, last + 1)
        run   == {place(room, i) : i \in first .. last - 1}
    IN  [room EXCEPT !.cell = [p \in DOMAIN @ |->
            IF p \in run THEN Long(n)
            ELSE IF p = place(room, last) THEN Short(n, NewMeta) ELSE @[p]]]

\* Fault: the end mark is set whatever is behind the run.
delFileMarksEnd(d, n) ==
    LET r   == lookupFileInner(d, n)
        run == {place(d, i) : i \in r.start .. r.last}
    IN  [d EXCEPT !.cell = [p \in DOMAIN @ |->
            IF p = place(d, r.last) THEN Zeroed ELSE IF p \in run THEN Erased ELSE @[p]]]

\* Directory::delFile: the run is erased; when nothing is behind it its last
\* entry becomes the end mark and the directory is cut behind its first.
delFile(d, n) ==
    LET r      == lookupFileInner(d, n)
        run    == {place(d, i) : i \in r.start .. r.last}
        erased == [d EXCEPT !.cell = [p \in DOMAIN @ |-> IF p \in run THEN Erased ELSE @[p]]]
    IN  IF isLstNonEmptyEntry(erased, r.last)
        THEN truncate([erased EXCEPT !.cell[place(d, r.last)] = Zeroed], r.start + 1)
        ELSE erased

-----------------------------------------------------------------------------
(***************************************************************************)
(* The handlers of fat32_fuse.cpp, as far as this directory is concerned.  *)
(***************************************************************************)
Init ==
    /\ dir \in Images
    /\ cursor = Closed /\ listed = {} /\ staying = {}

Step(d) == dir' = d /\ staying' = staying \cap Live(d) /\ UNCHANGED listing

\* create, mkdir, and the new name of a move from another directory, which
\* brings its metadata along.
Create(n, m) ==
    /\ Fits(dir, n)
    /\ LET made == crtFileInner(dir, n)
       IN  Step(IF m = NewMeta THEN made
                ELSE sync(made, freeEntryStart(dir, n), m))

\* mkdir that finds no cluster for the new directory: the name is deleted
\* again and the destructor of the object writes its metadata.
MkdirUndone(n) ==
    /\ Fits(dir, n)
    /\ Step(sync(delFile(crtFileInner(dir, n), n), freeEntryStart(dir, n), NewMeta))

\* unlink, rmdir.
Unlink(n) == Step(selfDestruct(delFile(dir, n), lookupFileInner(dir, n).start))

\* rename to another directory: the object of the old name destroys itself.  The
\* metadata exchangeMetaData writes into the old entry just before is left out:
\* the entry is erased next.
MoveOut(n) == Step(selfDestruct(dir, lookupFileInner(dir, n).start))

\* rename in this directory, to a new or an existing name: exchangeMetaData
\* writes both entries, then the object of the old name destroys itself.
Rename(n, to) ==
    /\ to # n
    /\ to \in Live(dir) \/ Fits(dir, to)
    /\ LET both == IF to \in Live(dir) THEN dir ELSE crtFileInner(dir, to)
           old  == lookupFileInner(dir, n)
           new  == lookupFileInner(both, to)
           mine == sync(both, new.start, entry(dir, old.last).meta)
       IN  Step(selfDestruct(sync(mine, old.start, entry(both, new.last).meta), old.start))

\* sync(true) of the object of a name: its destructor, or fsync.
WriteBack(n, m) == Step(sync(dir, lookupFileInner(dir, n).start, m))

\* readdir from the start.
OpenListing ==
    /\ Listing /\ cursor = Closed
    /\ cursor' = 0 /\ listed' = {} /\ staying' = Live(dir)
    /\ UNCHANGED dir

\* Directory::lookupFileByIndex for the offset the client returns with: all
\* empty entries are skipped, end marks too, and the run is read from there.
\* Fault: the offset is taken for that of the last entry delivered.
AheadAfter == {i \in cursor + 1 .. Count(dir) - 1 : Used(dir, i)}
Ahead == {i \in cursor .. Count(dir) - 1 : Used(dir, i)}
ReadEnd == Least({i \in Ahead : isShort(dir, i)})
Delivered == entry(dir, ReadEnd).name
\* Fault: the offset returned is the one the run was read from.
NextOffsetStart == Least(Ahead)
NextOffset == ReadEnd + 1
ReadListing ==
    /\ cursor # Closed /\ Ahead # {}
    /\ cursor' = NextOffset
    /\ listed' = listed \cup ({Delivered} \ {NoName})
    /\ UNCHANGED <<dir, staying>>

EndListing ==
    /\ cursor # Closed /\ Ahead = {}
    /\ cursor' = Closed /\ listed' = {} /\ staying' = {}
    /\ UNCHANGED dir

\* Names are created that lookup does not find, the others are taken away,
\* renamed and written back.
Next ==
    \/ \E n \in Name \ Live(dir) : MkdirUndone(n) \/ \E m \in Meta : Create(n, m)
    \/ \E n \in Live(dir) :
          \/ Unlink(n) \/ MoveOut(n)
          \/ \E to \in Name : Rename(n, to)
          \/ \E m \in Meta : WriteBack(n, m)
    \/ OpenListing \/ ReadListing \/ EndListing

Spec == Init /\ [][Next]_vars

\* The client that opened a listing goes on with it, whatever the others do:
\* one thread serves the calls in the order they come.  No other call has to
\* be made.
FairSpec == Spec /\ WF_vars(ReadListing \/ EndListing)

-----------------------------------------------------------------------------
(***************************************************************************)
(* Properties.                                                             *)
(***************************************************************************)
TypeOK ==
    /\ dir.chain \in Seq(Cluster) /\ dir.chain # <<>> /\ IsInjective(dir.chain)
    /\ dir.cell \in [0 .. ClusterCount * PerCluster - 1 -> Cell]
    /\ cursor \in Nat \cup {Closed}
    /\ listed \subseteq Name /\ staying \subseteq Name

\* Nothing is hidden: no entry in use lies behind an end mark, where lookup
\* and isEmpty would not find it, however runs were erased, cut off and
\* reused (delFile, crtFileInner).
NothingBehindEnd == \A n \in Limit(dir) .. Count(dir) - 1 : ~Used(dir, n)

\* Every entry in use belongs to the complete run of one name, and no name
\* has two: the checksum assertions of lookupFileInner and lookupFileByIndex
\* never see a run that lost entries or was overwritten in part.
RunsWhole ==
    /\ \A n \in Dots .. Count(dir) - 1 : Used(dir, n) =>
          \E k \in Name : \E r \in Found(dir, k) : n \in r.start .. r.last
    /\ \A k \in Name : Cardinality(Found(dir, k)) <= 1

\* rmdir and rename over a directory remove exactly the directories that
\* hold no name.
EmptyIsEmpty == isEmpty(dir) <=> Live(dir) = {}

\* An object made from an inode number (fromIno) is the object of the name
\* whose run starts there: "find the short directory entry of current file
\* in parent" (fs.cpp, sync).
InodeIsName ==
    \A n \in Live(dir) :
        LET r == lookupFileInner(dir, n)
        IN  fromIno(dir, r.start) =
                {[name |-> n, length |-> r.last - r.start + 1, meta |-> entry(dir, r.last).meta]}

\* No call on the directory writes into a cluster another file holds
\* (writeDirEntry, sync, selfDestruct).
OthersUntouched ==
    [][\A p \in DOMAIN dir.cell :
          p \div PerCluster \in Foreign => dir'.cell[p] = dir.cell[p]]_vars

\* A listing delivers every name that was there from its first call to its
\* last exactly once, whatever was created, deleted and renamed between the
\* calls (readdir).
ListsStaying ==
    [][/\ EndListing => staying \subseteq listed
       /\ ReadListing => Delivered \notin listed \cap staying]_vars

\* A listing comes to its end, though entries may be created behind its offset
\* between any two of its calls (readdir, lookupFileByIndex).
ListingEnds == (cursor # Closed) ~> (cursor = Closed)

\* A listing delivers files, never a file under the tail of its entries: the
\* offset is "the order of files in current directory" (fs.h, lookupFileByIndex).
ListsFiles == [][ReadListing => firstOf(dir, ReadEnd) = Least(Ahead)]_vars

\* Refinement: the names found, with the metadata of their short entries.
Abstract == INSTANCE NameTable WITH file <- Table(dir)

\* The entries on the disk implement the table of names: a call changes at
\* most one name, or moves the metadata of one name to another, whatever runs
\* of entries it erases, reuses, cuts off or overwrites (Directory,
\* File::sync, selfDestruct).  That it is the right name is InodeIsName.
IsNameTable == Abstract!Spec
=============================================================================
