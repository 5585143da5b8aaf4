---------------------------- MODULE FileObjects ----------------------------
(***************************************************************************)
(* The objects of class File and Directory over a tree of directories      *)
(* (library/fs.cpp, programs/fat32_fuse.cpp).  The kernel names a file by  *)
(* its inode number: the first cluster of its directory and the number of  *)
(* its entry there.  FAT32fs keeps the objects it looked up; what a call   *)
(* changes stays in the object until sync writes it into the entry, at the *)
(* latest when the object is destroyed.                                    *)
(*                                                                         *)
(* A name takes one entry and a directory one cluster: runs of entries and *)
(* chains are the business of DirTable and FatTable.  The cache of 20      *)
(* objects is shared with files outside of the model, so any object may be *)
(* evicted at any time; which one is the business of LruUse.  The size and *)
(* times of a file are one stamp, those of directories are left out.       *)
(***************************************************************************)
EXTENDS Integers, FiniteSets, Functions, FiniteSetsExt

CONSTANTS
    LastCluster,  \* clusters of the volume are 2 .. LastCluster
    SlotCount,    \* directory entries in a cluster
    Name,         \* names of files and directories
    Dot, DotDot,  \* the names "." and ".."
    NoName,       \* of an entry that is not in use
    MaxStamp,     \* bound: changes of the size and times of a file
    MaxKept,      \* bound: files and directories the kernel has open, and
                  \* cached objects of "." and "..", together
    AwaitDots     \* bound: whether a directory is removed only when the
                  \* objects of its "." and ".." have been evicted

Root == 2
Cluster == Root .. LastCluster
Slot == 0 .. SlotCount - 1
Ino == Cluster \X Slot
RootIno == <<0, 0>>
Stamp == 0 .. MaxStamp

ASSUME ObjectAssumption ==
    /\ LastCluster \in Nat /\ LastCluster > Root
    /\ SlotCount \in Nat /\ SlotCount > 2
    /\ Cardinality({Dot, DotDot, NoName}) = 3 /\ Name \cap {Dot, DotDot, NoName} = {}
    /\ MaxStamp \in Nat
    /\ MaxKept \in Nat /\ AwaitDots \in BOOLEAN

VARIABLES
    fs,    \* entries on the disk, clusters in use, cached objects
    open   \* inode numbers the kernel has files and directories open under

vars == <<fs, open>>

-----------------------------------------------------------------------------
(***************************************************************************)
(* Entries, objects, and what the calls read.                              *)
(***************************************************************************)
Object == [dir : BOOLEAN, fst : {0} \cup Cluster, stamp : Stamp]
Cell == [kind : {"empty", "entry", "bytes", "spoiled"}, name : Name \cup {Dot, DotDot, NoName},
         dir : BOOLEAN, fst : {0} \cup Cluster, stamp : Stamp]

Blank == [kind |-> "empty", name |-> NoName, dir |-> FALSE, fst |-> 0, stamp |-> 0]
Bytes == [Blank EXCEPT !.kind = "bytes"]
Entry(n, isDir, c) == [kind |-> "entry", name |-> n, dir |-> isDir, fst |-> c, stamp |-> 0]

at(s, i) == s.cell[i[1]][i[2]]
inUse(s, i) == at(s, i).kind = "entry"
Entries(s) == {i \in Ino : inUse(s, i) /\ at(s, i).name \in Name}

\* File::fromIno, and the object getFileByIno answers with.  For an entry that
\* is not in use fromIno answers nothing and the assertion of getExistFile
\* fails: HandlesExist says when a handler meets that; no action models it.
fromIno(s, i) == [dir |-> at(s, i).dir, fst |-> at(s, i).fst, stamp |-> at(s, i).stamp]
getFileByIno(s, i) ==
    IF i = RootIno THEN [dir |-> TRUE, fst |-> Root, stamp |-> 0]
    ELSE IF i \in DOMAIN s.object THEN s.object[i] ELSE fromIno(s, i)
fstClus(s, i) == getFileByIno(s, i).fst

Dirs(s) == {RootIno} \cup {i \in Entries(s) : at(s, i).dir}
Files(s) == {i \in Entries(s) : ~at(s, i).dir}

\* The names of a directory, by lookupFileInner; isEmpty looks behind the
\* first two entries.
slots(s, d) == {fstClus(s, d)} \X Slot
named(s, d) == {i \in slots(s, d) : inUse(s, i) /\ at(s, i).name \in Name}
lookupFileInner(s, d, n) == {i \in named(s, d) : at(s, i).name = n}
\* Fault: one entry too many is skipped.
isEmptyPastFirst(s, d) == \A i \in slots(s, d) : i[2] > 2 => ~inUse(s, i)
isEmpty(s, d) == \A i \in slots(s, d) : i[2] > 1 => ~inUse(s, i)

\* The first entry crtFileInner finds empty, and the cluster allocClus picks.
freeSlots(s, d) == {i \in slots(s, d) : at(s, i).kind = "empty"}
\* Fault: the number of the entry behind it is taken.
freeSlotNext(s, d) == <<fstClus(s, d), Min({SlotCount - 1, 1 + Min({i[2] : i \in freeSlots(s, d)})})>>
freeSlot(s, d) == <<fstClus(s, d), Min({i[2] : i \in freeSlots(s, d)})>>
freeClusters(s) == Cluster \ s.used
\* Fault: the scan goes on behind the last free cluster.
freeClusterPast(s) == Max(freeClusters(s)) + 1
freeCluster(s) == Min(freeClusters(s))

\* Directories in the subtree of d, for the kernel's check of a rename: they
\* are in every set of directories that has d and all that is named in it.
below(s, d) ==
    LET down(S) == \A j \in S : slots(s, j) \cap Dirs(s) \subseteq S
    IN  {e \in Dirs(s) : \A S \in SUBSET Dirs(s) : d \in S /\ down(S) => e \in S}

-----------------------------------------------------------------------------
(***************************************************************************)
(* What the methods change.                                                *)
(***************************************************************************)
\* The object gets into the cache; that of the root directory never does.
load(s, i) ==
    IF i = RootIno THEN s
    ELSE [s EXCEPT !.object = [j \in DOMAIN @ \cup {i} |-> getFileByIno(s, j)]]

\* File::sync(true): the entry gets the metadata; in a cluster that holds
\* something else the same bytes are overwritten.
synced(s, i, o) ==
    CASE inUse(s, i) -> [at(s, i) EXCEPT !.fst = o.fst, !.stamp = o.stamp]
      [] at(s, i).kind = "bytes" /\ i[1] \in s.used -> [at(s, i) EXCEPT !.kind = "spoiled"]
      [] OTHER -> at(s, i)
written(s, i, o) == [s EXCEPT !.cell[i[1]][i[2]] = synced(s, i, o)]

rmFileFromCacheByIno(s, i) == [s EXCEPT !.object = Restrict(@, DOMAIN @ \ {i})]

\* Fault: an evicted object is dropped with what it holds.
destroyedUnsynced(s, i) == rmFileFromCacheByIno(s, i)
\* An object leaves the cache and File::~File writes its metadata.
destroyed(s, i) == rmFileFromCacheByIno(written(s, i, s.object[i]), i)

\* allocClus for the first cluster of a file, freeClus for the only one.
taken(s, i, content) ==
    LET c == freeCluster(s)
    IN  [s EXCEPT !.used = @ \cup {c}, !.cell[c] = content, !.object[i].fst = c]
released(s, c) ==
    IF c = 0 THEN s
    ELSE [s EXCEPT !.used = @ \ {c}, !.cell[c] = [k \in Slot |-> Bytes]]

\* Directory::crtFileInner: the entry names no cluster until it is synced.
crtFileInner(s, d, n, isDir) ==
    LET i == freeSlot(s, d)
    IN  load([s EXCEPT !.cell[i[1]][i[2]] = Entry(n, isDir, 0)], i)

\* Directory::crtDir: a cleared cluster with "." and "..".
crtDir(s, d, n) ==
    LET c == freeCluster(s)
        dots == [k \in Slot |-> CASE k = 0 -> Entry(Dot, TRUE, c)
                                  [] k = 1 -> Entry(DotDot, TRUE, fstClus(s, d))
                                  [] OTHER -> Blank]
    IN  taken(crtFileInner(s, d, n, TRUE), freeSlot(s, d), dots)
create(s, d, n, isDir) == IF isDir THEN crtDir(s, d, n) ELSE crtFileInner(s, d, n, FALSE)
Fits(s, d, isDir) == freeSlots(s, d) # {} /\ (isDir => freeClusters(s) # {})

\* Fault: the object stays in the cache.
selfDestructCached(s, i) ==
    released([s EXCEPT !.cell[i[1]][i[2]] = Blank], fstClus(s, i))

\* Directory::delFile and File::selfDestruct: the entry is erased, the
\* cluster freed, the object leaves the cache; its destructor does nothing.
selfDestruct(s, i) ==
    rmFileFromCacheByIno(released([s EXCEPT !.cell[i[1]][i[2]] = Blank], fstClus(s, i)), i)

\* File::exchangeMetaData of the objects i and j, both synced.
exchangeMetaData(s, i, j) ==
    LET mine == s.object[i]
        other == s.object[j]
    IN  written(written([s EXCEPT !.object[i] = other, !.object[j] = mine], i, other), j, mine)

-----------------------------------------------------------------------------
(***************************************************************************)
(* The handlers.                                                           *)
(***************************************************************************)
NoObject == [i \in {} |-> 0]
Formatted == [c \in Cluster |-> [k \in Slot |-> IF c = Root THEN Blank ELSE Bytes]]

Init ==
    /\ fs = [cell |-> Formatted, used |-> {Root}, object |-> NoObject]
    /\ open = {}

Do(s) == fs' = s /\ UNCHANGED open
Kept == Cardinality(open) + Cardinality(DOMAIN fs.object \ Entries(fs))

\* What the bound AwaitDots asks of a directory that is removed.
MayGo(i) == AwaitDots /\ at(fs, i).dir => slots(fs, i) \cap DOMAIN fs.object = {}

\* lookup and getattr of a file, and readdir when it comes to it: "." and
\* ".." are listed like the others.
LookUp(i) ==
    /\ inUse(fs, i) /\ i \notin DOMAIN fs.object
    /\ i \notin Entries(fs) => Kept < MaxKept
    /\ Do(load(fs, i))

\* create and mkdir of a name that is not there: fat32_create looks it up
\* itself, for mkdir the kernel does.
Create(d, n, isDir) ==
    /\ lookupFileInner(fs, d, n) = {}
    /\ Fits(fs, d, isDir)
    /\ Do(create(load(fs, d), d, n, isDir))

\* mkdir, or rename of a directory, without a free cluster: the new name is
\* deleted again, and the object that is left writes into the erased entry.
MkdirRefused(d, n) ==
    /\ lookupFileInner(fs, d, n) = {}
    /\ freeSlots(fs, d) # {} /\ freeClusters(fs) = {}
    /\ LET made == crtFileInner(load(fs, d), d, n, TRUE)
           i == freeSlot(fs, d)
       IN  Do(written(selfDestruct(made, i), i, made.object[i]))

\* unlink and rmdir of a name that is found.
Unlink(d, i) ==
    /\ MayGo(i)
    /\ at(fs, i).dir => isEmpty(fs, i)
    /\ Do(selfDestruct(load(load(fs, d), i), i))

\* rename to a name that is there, or is made first.  The kernel does not
\* move a directory into itself and replaces only files by files and
\* directories by directories.
Rename(d, i, e, m) ==
    LET old == load(load(load(fs, d), e), i)
        isDir == at(fs, i).dir
    IN  /\ <<d, at(fs, i).name>> # <<e, m>>
        /\ isDir => e \notin below(fs, i)
        /\ \/ \E j \in lookupFileInner(fs, e, m) :
                /\ at(fs, j).dir = isDir /\ MayGo(j)
                /\ isDir => isEmpty(fs, j)
                /\ Do(selfDestruct(exchangeMetaData(load(old, j), j, i), i))
           \/ /\ lookupFileInner(fs, e, m) = {}
              /\ Fits(fs, e, isDir)
              /\ Do(selfDestruct(exchangeMetaData(create(old, e, m, isDir), freeSlot(fs, e), i), i))

\* A change of the size or times of a file, up to the bound MaxStamp.
changed(s, i) == [s EXCEPT !.object[i].stamp = Min({@ + 1, MaxStamp})]

\* write, and setattr that extends: a file without a cluster takes one first, or nothing happens.
Write(i) ==
    LET s == load(fs, i)
    IN  /\ fstClus(s, i) = 0 => freeClusters(s) # {}
        /\ Do(changed(IF fstClus(s, i) = 0 THEN taken(s, i, [k \in Slot |-> Bytes]) ELSE s, i))

\* Fault: the cluster is freed and stays in the object.
cutKeeps(s, i) == released(s, fstClus(s, i))
\* resize to no cluster.
cut(s, i) == [released(s, fstClus(s, i)) EXCEPT !.object[i].fst = 0]

\* setattr: the file is cut to nothing, or given other times.
SetSize(i) == Do(changed(cut(load(fs, i), i), i))
SetTime(i) == Do(changed(load(fs, i), i))

\* fsync syncs the metadata when datasync is set; else it is a LookUp.
Fsync(i) ==
    LET s == load(fs, i)
    IN  Do(written(s, i, s.object[i]))

Evict(i) == Do(destroyed(fs, i))

\* FAT32fs::flush when the loop ends, and the next mount: every object is
\* destroyed, each writes its own entry.
flushed(s) ==
    [s EXCEPT !.object = NoObject,
              !.cell = [c \in Cluster |-> [k \in Slot |->
                  IF <<c, k>> \in DOMAIN s.object THEN synced(s, <<c, k>>, s.object[<<c, k>>])
                  ELSE @[c][k]]]]
Remount == fs.object # NoObject /\ fs' = flushed(fs) /\ open' = {}

\* open and create keep nothing of a file; opendir makes the object.
Open(i) ==
    /\ i \notin open /\ Kept < MaxKept
    /\ open' = open \cup {i}
    /\ fs' = IF at(fs, i).dir THEN load(fs, i) ELSE fs
Close(h) == open' = open \ {h} /\ UNCHANGED fs

Next ==
    \/ \E d \in Dirs(fs) :
          \/ \E i \in slots(fs, d) : LookUp(i)
          \/ \E n \in Name :
                MkdirRefused(d, n) \/ \E isDir \in BOOLEAN : Create(d, n, isDir)
          \/ \E i \in named(fs, d) :
                Unlink(d, i) \/ \E e \in Dirs(fs), m \in Name : Rename(d, i, e, m)
    \/ \E i \in Files(fs) :
          Write(i) \/ SetSize(i) \/ SetTime(i) \/ Fsync(i)
    \/ \E i \in Entries(fs) : Open(i)
    \/ \E i \in DOMAIN fs.object : Evict(i)
    \/ \E h \in open : Close(h)
    \/ Remount

Spec == Init /\ [][Next]_vars

-----------------------------------------------------------------------------
(***************************************************************************)
(* Properties.                                                             *)
(***************************************************************************)
TypeOK ==
    /\ fs.cell \in [Cluster -> [Slot -> Cell]]
    /\ Root \in fs.used /\ fs.used \subseteq Cluster
    /\ DOMAIN fs.object \subseteq Ino /\ \A i \in DOMAIN fs.object : fs.object[i] \in Object
    /\ open \subseteq Ino /\ Cardinality(open) <= MaxKept

\* Every cluster in use is the first cluster of exactly one file, whether its
\* object or only its entry says so: none is lost and none has two owners,
\* though metadata is exchanged, objects are evicted and made again, and
\* rename makes a directory only to destroy it (resize, selfDestruct,
\* exchangeMetaData, crtDir).
ClustersOwned ==
    /\ \A i, j \in Entries(fs) : i # j /\ fstClus(fs, i) # 0 => fstClus(fs, i) # fstClus(fs, j)
    /\ fs.used = {Root} \cup ({fstClus(fs, i) : i \in Entries(fs)} \ {0})

\* What the destructor of a cached object writes goes to its own entry:
\* parent_clus_ is a cluster of a directory and the entry there is in use,
\* for a file of the same kind ("the short directory entry of current file in
\* parent", File::sync).
EntryOfObject ==
    \A i \in DOMAIN fs.object :
        /\ \E d \in Dirs(fs) : i \in slots(fs, d)
        /\ inUse(fs, i) /\ at(fs, i).dir = fs.object[i].dir

\* No metadata is written over the data of a file: parent_clus_ is the
\* "Custer number that contains the first directory entry of current file"
\* (fs.h).
DataIntact == \A c \in fs.used, k \in Slot : fs.cell[c][k].kind # "spoiled"

\* An inode number in the kernel's hands leads to an entry: "If ino is provided,
\* the directory must exist on the filesystem" (getExistFile).
HandlesExist == \A h \in open : inUse(fs, h)

\* The inode number of a file, the place of its entry, stays that of the file
\* in every call but the one that unlinks or renames this very file: no other
\* name that is made, replaced or moved, no write of an object and no eviction
\* takes the entry (crtFileInner, exchangeMetaData, selfDestruct).
InodeNumbersStay ==
    [][\A i \in Entries(fs) :
         \/ inUse(fs', i) /\ at(fs', i).name = at(fs, i).name /\ at(fs', i).dir = at(fs, i).dir
         \/ \E d \in Dirs(fs) :
                Unlink(d, i) \/ \E e \in Dirs(fs), m \in Name : Rename(d, i, e, m)]_vars

\* The tree: the names of every directory, each with the metadata of its
\* object, or of its entry when there is no object.
Tree(s) ==
    {LET o == getFileByIno(s, i)
     IN  [in |-> i[1], name |-> at(s, i).name, dir |-> o.dir, id |-> o.fst, stamp |-> o.stamp] :
        i \in Entries(s)}

\* When objects leave the cache, one by one or at the end, nothing of the tree
\* is lost: what was only in an object is in its entry (File::~File, flush).
EvictionLosesNothing ==
    [][/\ DOMAIN fs'.object \subseteq DOMAIN fs.object /\ DOMAIN fs'.object # DOMAIN fs.object
       /\ fs'.used = fs.used /\ Entries(fs') = Entries(fs)
       => Tree(fs') = Tree(fs)]_vars

\* Refinement: a file is known by its first cluster.
Abstract == INSTANCE FileTree WITH
    Id <- Cluster, RootId <- Root, NoId <- 0, tree <- Tree(fs)

\* Entries and objects together implement a tree of names, whatever is cached,
\* evicted or only on the disk when a call comes: a call makes, changes, moves or
\* removes one name, a moved file keeps its data, times and what is below it, and
\* no directory goes that holds names (fat32_create, fat32_mkdir, fat32_unlink,
\* fat32_rmdir, fat32_rename, fat32_write, fat32_setattr).
IsFileTree == Abstract!Spec
=============================================================================
