------------------------- MODULE FileObjectsProofs --------------------------
(***************************************************************************)
(* The tree of files and the cache of their objects, for volumes of any    *)
(* size, directories of any length and any set of names: clusters have one *)
(* owner, objects write to their own entries, and a file keeps its inode   *)
(* number in every call that does not name it.  The last part is the       *)
(* refinement of FileTree.                                                 *)
(*                                                                         *)
(* The methods of the code are operators on a state s; what they do to a   *)
(* consistent state is proved of the operators, and the handlers put the   *)
(* pieces together.                                                        *)
(***************************************************************************)
EXTENDS FileObjects, FiniteSetTheorems, CommonLemmas

-----------------------------------------------------------------------------
(***************************************************************************)
(* A consistent state.                                                     *)
(***************************************************************************)
Objects == UNION {[D -> Object] : D \in SUBSET Ino}
State == [cell : [Cluster -> [Slot -> Cell]], used : SUBSET Cluster, object : Objects]

\* No two files have the same first cluster, and none has that of the root.
Apart(s) ==
    /\ \A i, j \in Entries(s) : i # j /\ fstClus(s, i) # 0 => fstClus(s, i) # fstClus(s, j)
    /\ \A i \in Entries(s) : fstClus(s, i) # Root

\* The table and the files agree on the clusters in use.
UsedOwned(s) == s.used = {Root} \cup ({fstClus(s, i) : i \in Entries(s)} \ {0})

\* A directory has a cluster, and its first two entries are "." and "..".
DirsWhole(s) ==
    \A d \in Entries(s) : at(s, d).dir =>
        /\ fstClus(s, d) # 0
        /\ \A k \in {0, 1} : /\ inUse(s, <<fstClus(s, d), k>>)
                             /\ at(s, <<fstClus(s, d), k>>).name \notin Name

\* Entries in use lie in directories only.
EntriesInDirs(s) ==
    \A i \in Ino : inUse(s, i) => \E d \in Dirs(s) : i[1] = fstClus(s, d)

\* A cached object has an entry of its kind.
ObjectsHaveEntries(s) ==
    \A i \in DOMAIN s.object : inUse(s, i) /\ at(s, i).dir = s.object[i].dir

Consistent(s) ==
    /\ s \in State
    /\ Apart(s) /\ UsedOwned(s) /\ DirsWhole(s) /\ EntriesInDirs(s) /\ ObjectsHaveEntries(s)

HandlesTyped == open \subseteq Ino /\ Cardinality(open) <= MaxKept /\ IsFiniteSet(open)

Unspoiled == \A x \in Ino : at(fs, x).kind # "spoiled"

IInv == Consistent(fs) /\ Unspoiled /\ HandlesTyped

-----------------------------------------------------------------------------
(***************************************************************************)
(* Numbers, cells and metadata.                                            *)
(***************************************************************************)

\* No cluster has the number 0 that a file without data carries, and the root
\* directory is not an entry (KRootDirIno).
LEMMA Numbers ==
    /\ Cluster \subseteq Nat /\ Root \in Cluster /\ 0 \notin Cluster /\ Root # 0
    /\ Slot \subseteq Nat /\ 0 \in Slot /\ 1 \in Slot
    /\ RootIno \notin Ino
    /\ \A i \in Ino : i[1] \in Cluster /\ i[2] \in Slot /\ i = <<i[1], i[2]>>
    /\ \A c \in Cluster, k \in Slot : <<c, k>> \in Ino /\ <<c, k>>[1] = c /\ <<c, k>>[2] = k
<1>1. /\ Cluster \subseteq Nat /\ Root \in Cluster /\ 0 \notin Cluster /\ Root # 0
      /\ Slot \subseteq Nat /\ 0 \in Slot /\ 1 \in Slot
  BY ObjectAssumption DEF Cluster, Root, Slot
<1>2. RootIno \notin Ino
  BY <1>1 DEF RootIno, Ino
<1>3. QED
  BY <1>1, <1>2 DEF Ino

\* The names of "." and ".." and of an unused entry are no names of files.
LEMMA SpecialNames ==
    Dot \notin Name /\ DotDot \notin Name /\ NoName \notin Name
BY ObjectAssumption

\* A field of a cell, and of what fromIno makes of it.
LEMMA CellTyped ==
    ASSUME NEW s \in State, NEW i \in Ino
    PROVE  at(s, i) \in Cell /\ fromIno(s, i) \in Object
<1>1. at(s, i) \in Cell
  BY Numbers DEF State, at
<1>2. QED
  BY <1>1 DEF Cell, Object, fromIno

\* Cells that are erased, that hold something else, and new entries
\* (ShortDirEntry, DirRange).
LEMMA CellsMade ==
    /\ Blank \in Cell /\ Blank.kind = "empty" /\ Bytes \in Cell /\ Bytes.kind = "bytes"
    /\ \A n \in Name \cup {Dot, DotDot}, b \in BOOLEAN, c \in {0} \cup Cluster :
          /\ Entry(n, b, c) \in Cell /\ Entry(n, b, c).kind = "entry"
          /\ Entry(n, b, c).name = n /\ Entry(n, b, c).dir = b /\ Entry(n, b, c).fst = c
<1>1. 0 \in Stamp
  BY ObjectAssumption DEF Stamp
<1>2. Blank \in Cell /\ Blank.kind = "empty"
  BY <1>1 DEF Blank, Cell
<1>3. Bytes \in Cell /\ Bytes.kind = "bytes"
  BY <1>2 DEF Bytes, Blank, Cell
<1>4. QED
  BY <1>1, <1>2, <1>3 DEF Entry, Cell

\* A state is what its three parts are.
LEMMA StateParts ==
    ASSUME NEW s \in State
    PROVE  /\ s.cell \in [Cluster -> [Slot -> Cell]] /\ s.used \subseteq Cluster
           /\ DOMAIN s.object \subseteq Ino /\ s.object \in [DOMAIN s.object -> Object]
<1>1. s.cell \in [Cluster -> [Slot -> Cell]] /\ s.used \subseteq Cluster /\ s.object \in Objects
  BY DEF State
<1>2. PICK D \in SUBSET Ino : s.object \in [D -> Object]
  BY <1>1 DEF Objects
<1>3. QED
  BY <1>1, <1>2

\* What getFileByIno answers with is typed.
LEMMA MetaTyped ==
    ASSUME NEW s \in State, NEW i \in Ino
    PROVE  /\ getFileByIno(s, i) \in Object
           /\ getFileByIno(s, i) = IF i \in DOMAIN s.object THEN s.object[i] ELSE fromIno(s, i)
           /\ fstClus(s, i) \in {0} \cup Cluster
<1>1. getFileByIno(s, i) = IF i \in DOMAIN s.object THEN s.object[i] ELSE fromIno(s, i)
  BY Numbers DEF getFileByIno
<1>2. getFileByIno(s, i) \in Object
  BY <1>1, CellTyped, StateParts
<1>3. QED
  BY <1>1, <1>2 DEF fstClus, Object

\* The root directory has its cluster, and every directory of a consistent
\* state one that is in use.
LEMMA DirClusters ==
    ASSUME NEW s, Consistent(s), NEW d \in Dirs(s)
    PROVE  /\ fstClus(s, RootIno) = Root
           /\ fstClus(s, d) \in Cluster /\ fstClus(s, d) \in s.used
           /\ d # RootIno => d \in Entries(s) /\ at(s, d).dir
<1>1. fstClus(s, RootIno) = Root
  BY DEF fstClus, getFileByIno
<1>2. CASE d = RootIno
  BY <1>1, <1>2, Numbers DEF Consistent, UsedOwned
<1>3. CASE d # RootIno
  <2>1. d \in Entries(s) /\ at(s, d).dir /\ d \in Ino
    BY <1>3 DEF Dirs, Entries
  <2>2. fstClus(s, d) \in Cluster
    BY <2>1, MetaTyped DEF Consistent, DirsWhole
  <2>3. fstClus(s, d) \in s.used
    BY <2>1, <2>2, Numbers DEF Consistent, UsedOwned
  <2>4. QED
    BY <1>1, <2>1, <2>2, <2>3
<1>4. QED
  BY <1>2, <1>3

\* Two directories have different clusters.
LEMMA DirsApart ==
    ASSUME NEW s, Consistent(s), NEW d \in Dirs(s), NEW e \in Dirs(s), fstClus(s, d) = fstClus(s, e)
    PROVE  d = e
<1>1. fstClus(s, d) \in Cluster
  BY DirClusters
<1>2. d # RootIno => d \in Entries(s)
  BY DirClusters
<1>3. e # RootIno => e \in Entries(s)
  BY DirClusters
<1>4. fstClus(s, RootIno) = Root
  BY DirClusters
<1>5. QED
  BY <1>1, <1>2, <1>3, <1>4, Numbers DEF Consistent, Apart

\* A free cluster holds no entry, nor does one of a file.
LEMMA OtherClustersBare ==
    ASSUME NEW s, Consistent(s), NEW i \in Ino,
           \/ i[1] \notin s.used
           \/ \E f \in Files(s) : i[1] = fstClus(s, f)
    PROVE  ~inUse(s, i)
<1> SUFFICES ASSUME inUse(s, i) PROVE FALSE
  OBVIOUS
<1>1. PICK d \in Dirs(s) : i[1] = fstClus(s, d)
  BY DEF Consistent, EntriesInDirs
<1>2. fstClus(s, d) \in Cluster /\ fstClus(s, d) \in s.used
  BY DirClusters
<1>3. d # RootIno => d \in Entries(s) /\ at(s, d).dir
  BY DirClusters
<1>4. PICK f \in Files(s) : i[1] = fstClus(s, f)
  BY <1>1, <1>2
<1>5. f \in Entries(s) /\ ~at(s, f).dir
  BY DEF Files
<1>6. fstClus(s, RootIno) = Root
  BY DirClusters
<1>7. fstClus(s, d) = fstClus(s, f) /\ fstClus(s, d) # 0
  BY <1>1, <1>2, <1>4, Numbers
<1>8. d # RootIno
  BY <1>5, <1>6, <1>7 DEF Consistent, Apart
<1>9. d # f
  BY <1>3, <1>5, <1>8
<1>10. QED
  BY <1>3, <1>5, <1>7, <1>8, <1>9 DEF Consistent, Apart

-----------------------------------------------------------------------------
(***************************************************************************)
(* Changes that keep a state consistent, by what can be seen of it: the    *)
(* cells in use, the first clusters the objects or entries tell, and the   *)
(* clusters in use.                                                        *)
(***************************************************************************)
\* The cell of i shows the same in both states.
SameCell(s, t, i) ==
    /\ inUse(t, i) <=> inUse(s, i)
    /\ inUse(s, i) => at(t, i).name = at(s, i).name /\ at(t, i).dir = at(s, i).dir

\* Nothing but metadata is written, or the metadata of files of one kind
\* change places (File::sync, File::exchangeMetaData).
LEMMA Permuted ==
    ASSUME NEW s, Consistent(s), NEW t \in State, t.used = s.used,
           \A i \in Ino : SameCell(s, t, i),
           NEW p,
           \A i \in Entries(s) : /\ p[i] \in Entries(s) /\ p[p[i]] = i
                                 /\ at(s, p[i]).dir = at(s, i).dir
                                 /\ fstClus(t, i) = fstClus(s, p[i]),
           ObjectsHaveEntries(t)
    PROVE  Consistent(t) /\ Entries(t) = Entries(s) /\ Dirs(t) = Dirs(s)
<1>1. Entries(t) = Entries(s)
  BY DEF Entries, SameCell
<1>2. \A i \in Entries(s) : /\ i \in Ino /\ inUse(s, i)
                            /\ at(t, i).dir = at(s, i).dir
  BY DEF Entries, SameCell
<1>3. Dirs(t) = Dirs(s)
  BY <1>1, <1>2 DEF Dirs
<1>4. Apart(t)
  <2>1. ASSUME NEW i \in Entries(s), NEW j \in Entries(s), i # j, fstClus(t, i) # 0
        PROVE  fstClus(t, i) # fstClus(t, j)
    <3>1. p[i] # p[j]
      BY <2>1
    <3>2. QED
      BY <2>1, <3>1 DEF Consistent, Apart
  <2>2. \A i \in Entries(s) : fstClus(t, i) # Root
    BY DEF Consistent, Apart
  <2>3. QED
    BY <1>1, <2>1, <2>2 DEF Apart
<1>5. UsedOwned(t)
  <2>1. {fstClus(t, i) : i \in Entries(s)} = {fstClus(s, i) : i \in Entries(s)}
    <3>1. ASSUME NEW i \in Entries(s)
          PROVE  \E j \in Entries(s) : fstClus(s, i) = fstClus(t, j)
      <4>1. p[i] \in Entries(s) /\ fstClus(t, p[i]) = fstClus(s, p[p[i]])
        OBVIOUS
      <4>2. QED
        BY <4>1
    <3>2. QED
      BY <3>1
  <2>2. QED
    BY <1>1, <2>1 DEF Consistent, UsedOwned
<1>6. DirsWhole(t)
  <2> SUFFICES ASSUME NEW d \in Entries(s), at(s, d).dir
               PROVE  /\ fstClus(t, d) # 0
                      /\ \A k \in {0, 1} : /\ inUse(t, <<fstClus(t, d), k>>)
                                           /\ at(t, <<fstClus(t, d), k>>).name \notin Name
    BY <1>1, <1>2 DEF DirsWhole
  <2>1. p[d] \in Entries(s) /\ at(s, p[d]).dir /\ fstClus(t, d) = fstClus(s, p[d])
    OBVIOUS
  <2>2. fstClus(s, p[d]) # 0 /\ fstClus(s, p[d]) \in Cluster
    BY <1>2, <2>1, MetaTyped DEF Consistent, DirsWhole
  <2>3. ASSUME NEW k \in {0, 1}
        PROVE  /\ inUse(t, <<fstClus(t, d), k>>)
               /\ at(t, <<fstClus(t, d), k>>).name \notin Name
    <3> DEFINE x == <<fstClus(s, p[d]), k>>
    <3>1. x \in Ino
      BY <2>2, Numbers
    <3>2. inUse(s, x) /\ at(s, x).name \notin Name
      BY <2>1 DEF Consistent, DirsWhole
    <3> HIDE DEF x
    <3>3. inUse(t, x) /\ at(t, x).name \notin Name
      BY <3>1, <3>2 DEF SameCell
    <3>4. QED
      BY <2>1, <3>3 DEF x
  <2>4. QED
    BY <2>1, <2>2, <2>3
<1>7. EntriesInDirs(t)
  <2> SUFFICES ASSUME NEW i \in Ino, inUse(t, i)
               PROVE  \E d \in Dirs(t) : i[1] = fstClus(t, d)
    BY DEF EntriesInDirs
  <2>1. PICK d \in Dirs(s) : i[1] = fstClus(s, d)
    BY DEF Consistent, EntriesInDirs, SameCell
  <2>2. CASE d = RootIno
    BY <1>3, <2>1, <2>2 DEF fstClus, getFileByIno
  <2>3. CASE d # RootIno
    <3>1. d \in Entries(s) /\ at(s, d).dir
      BY <2>3, DirClusters
    <3>2. p[d] \in Entries(s) /\ at(s, p[d]).dir /\ fstClus(t, p[d]) = fstClus(s, d)
      BY <3>1
    <3>3. p[d] \in Dirs(s)
      BY <3>2 DEF Dirs
    <3>4. QED
      BY <1>3, <2>1, <3>2, <3>3
  <2>4. QED
    BY <2>2, <2>3
<1>8. QED
  BY <1>1, <1>3, <1>4, <1>5, <1>6, <1>7 DEF Consistent

\* The case where nothing changes its place.
LEMMA SameView ==
    ASSUME NEW s, Consistent(s), NEW t \in State, t.used = s.used,
           \A i \in Ino : SameCell(s, t, i),
           \A i \in Entries(s) : fstClus(t, i) = fstClus(s, i),
           ObjectsHaveEntries(t)
    PROVE  Consistent(t) /\ Entries(t) = Entries(s) /\ Dirs(t) = Dirs(s)
<1> DEFINE p == [i \in Ino |-> i]
<1>1. \A i \in Entries(s) : p[i] = i
  BY DEF Entries
<1> HIDE DEF p
<1>2. \A i \in Entries(s) : /\ p[i] \in Entries(s) /\ p[p[i]] = i
                            /\ at(s, p[i]).dir = at(s, i).dir
                            /\ fstClus(t, i) = fstClus(s, p[i])
  BY <1>1
<1>3. QED
  BY <1>2, Permuted

\* A file without data gets an entry (Directory::crtFile).
LEMMA FileEntered ==
    ASSUME NEW s, Consistent(s), NEW t \in State, t.used = s.used,
           NEW i \in Ino, ~inUse(s, i), NEW d \in Dirs(s), i[1] = fstClus(s, d),
           \A x \in Ino \ {i} : SameCell(s, t, x),
           inUse(t, i), at(t, i).name \in Name, ~at(t, i).dir, fstClus(t, i) = 0,
           \A x \in Entries(s) : fstClus(t, x) = fstClus(s, x),
           ObjectsHaveEntries(t)
    PROVE  Consistent(t) /\ Entries(t) = Entries(s) \cup {i}
<1>1. Entries(t) = Entries(s) \cup {i} /\ i \notin Entries(s)
  BY DEF Entries, SameCell
<1>2. \A x \in Entries(s) : x \in Ino /\ inUse(s, x) /\ x # i /\ at(t, x).dir = at(s, x).dir
  BY <1>1 DEF Entries, SameCell
<1>3. \A e \in Dirs(s) : e \in Dirs(t) /\ fstClus(t, e) = fstClus(s, e)
  BY <1>1, <1>2 DEF Dirs, fstClus, getFileByIno
<1>4. Apart(t)
  BY <1>1, <1>2, Numbers DEF Consistent, Apart
<1>5. UsedOwned(t)
  <2>1. {fstClus(t, x) : x \in Entries(t)} \ {0} = {fstClus(s, x) : x \in Entries(s)} \ {0}
    BY <1>1
  <2>2. QED
    BY <2>1 DEF Consistent, UsedOwned
<1>6. DirsWhole(t)
  <2> SUFFICES ASSUME NEW e \in Entries(s), at(s, e).dir
               PROVE  /\ fstClus(t, e) # 0
                      /\ \A k \in {0, 1} : /\ inUse(t, <<fstClus(t, e), k>>)
                                           /\ at(t, <<fstClus(t, e), k>>).name \notin Name
    BY <1>1, <1>2 DEF DirsWhole
  <2>1. fstClus(s, e) # 0 /\ fstClus(s, e) \in Cluster
    BY <1>2, MetaTyped DEF Consistent, DirsWhole
  <2>2. ASSUME NEW k \in {0, 1}
        PROVE  /\ inUse(t, <<fstClus(s, e), k>>)
               /\ at(t, <<fstClus(s, e), k>>).name \notin Name
    <3> DEFINE x == <<fstClus(s, e), k>>
    <3>1. x \in Ino
      BY <2>1, Numbers
    <3>2. inUse(s, x) /\ at(s, x).name \notin Name
      BY DEF Consistent, DirsWhole
    <3> HIDE DEF x
    <3>3. inUse(t, x) /\ at(t, x).name \notin Name
      BY <3>1, <3>2 DEF SameCell
    <3>4. QED
      BY <3>3 DEF x
  <2>3. QED
    BY <2>1, <2>2
<1>7. EntriesInDirs(t)
  <2> SUFFICES ASSUME NEW x \in Ino, inUse(t, x)
               PROVE  \E e \in Dirs(t) : x[1] = fstClus(t, e)
    BY DEF EntriesInDirs
  <2>1. PICK e \in Dirs(s) : x[1] = fstClus(s, e)
    BY DEF Consistent, EntriesInDirs, SameCell
  <2>2. QED
    BY <1>3, <2>1
<1>8. QED
  BY <1>1, <1>4, <1>5, <1>6, <1>7 DEF Consistent

\* A directory gets an entry, a cluster, and "." and ".." there
\* (Directory::crtDir).
LEMMA DirEntered ==
    ASSUME NEW s, Consistent(s), NEW t \in State,
           NEW c \in Cluster \ s.used, t.used = s.used \cup {c},
           NEW i \in Ino, ~inUse(s, i), NEW d \in Dirs(s), i[1] = fstClus(s, d),
           \A x \in Ino \ {i} : x[1] # c => SameCell(s, t, x),
           \A x \in Ino : x[1] = c => /\ inUse(t, x) <=> x[2] \in {0, 1}
                                      /\ inUse(t, x) => at(t, x).name \notin Name,
           inUse(t, i), at(t, i).name \in Name, at(t, i).dir, fstClus(t, i) = c,
           \A x \in Entries(s) : fstClus(t, x) = fstClus(s, x),
           ObjectsHaveEntries(t)
    PROVE  Consistent(t) /\ Entries(t) = Entries(s) \cup {i} /\ i[1] # c
<1>1. \A x \in Ino : x[1] = c => ~inUse(s, x)
  BY OtherClustersBare
<1>2. i[1] # c
  BY DirClusters
<1>3. Entries(t) = Entries(s) \cup {i} /\ i \notin Entries(s)
  BY <1>1, <1>2 DEF Entries, SameCell
<1>4. \A x \in Entries(s) : /\ x \in Ino /\ inUse(s, x) /\ x # i /\ x[1] # c
                            /\ at(t, x).dir = at(s, x).dir
  BY <1>1, <1>3 DEF Entries, SameCell
<1>5. \A e \in Dirs(s) : e \in Dirs(t) /\ fstClus(t, e) = fstClus(s, e)
  BY <1>3, <1>4 DEF Dirs, fstClus, getFileByIno
<1>6. i \in Dirs(t)
  BY <1>3 DEF Dirs
<1>7. c # 0 /\ c # Root /\ \A x \in Entries(s) : fstClus(s, x) # c
  BY Numbers DEF Consistent, UsedOwned
<1>8. Apart(t)
  BY <1>3, <1>4, <1>7 DEF Consistent, Apart
<1>9. UsedOwned(t)
  <2>1. {fstClus(t, x) : x \in Entries(t)} = {fstClus(s, x) : x \in Entries(s)} \cup {c}
    BY <1>3
  <2>2. QED
    BY <1>7, <2>1 DEF Consistent, UsedOwned
<1>10. DirsWhole(t)
  <2> SUFFICES ASSUME NEW e \in Entries(t), at(t, e).dir, NEW k \in {0, 1}
               PROVE  /\ fstClus(t, e) # 0
                      /\ inUse(t, <<fstClus(t, e), k>>)
                      /\ at(t, <<fstClus(t, e), k>>).name \notin Name
    BY DEF DirsWhole
  <2>1. CASE e = i
    <3>1. <<c, k>> \in Ino /\ <<c, k>>[1] = c /\ <<c, k>>[2] = k
      BY Numbers
    <3>2. QED
      BY <1>7, <2>1, <3>1
  <2>2. CASE e \in Entries(s)
    <3> DEFINE x == <<fstClus(s, e), k>>
    <3>1. at(s, e).dir /\ fstClus(s, e) # 0 /\ fstClus(s, e) \in Cluster
      BY <1>4, <2>2, MetaTyped DEF Consistent, DirsWhole
    <3>2. x \in Ino /\ inUse(s, x) /\ at(s, x).name \notin Name
      BY <2>2, <3>1, Numbers DEF Consistent, DirsWhole
    <3> HIDE DEF x
    <3>3. x # i /\ x[1] # c
      BY <1>1, <3>2
    <3>4. inUse(t, x) /\ at(t, x).name \notin Name
      BY <3>2, <3>3 DEF SameCell
    <3>5. QED
      BY <2>2, <3>1, <3>4 DEF x
  <2>3. QED
    BY <1>3, <2>1, <2>2
<1>11. EntriesInDirs(t)
  <2> SUFFICES ASSUME NEW x \in Ino, inUse(t, x)
               PROVE  \E e \in Dirs(t) : x[1] = fstClus(t, e)
    BY DEF EntriesInDirs
  <2>1. CASE x[1] = c
    BY <1>6, <2>1
  <2>2. CASE x = i
    BY <1>5, <2>2
  <2>3. CASE x[1] # c /\ x # i
    <3>1. PICK e \in Dirs(s) : x[1] = fstClus(s, e)
      BY <2>3 DEF Consistent, EntriesInDirs, SameCell
    <3>2. QED
      BY <1>5, <3>1
  <2>4. QED
    BY <2>1, <2>2, <2>3
<1>12. QED
  BY <1>2, <1>3, <1>8, <1>9, <1>10, <1>11 DEF Consistent

\* A file without data takes a free cluster (FAT::allocClus in resize).
LEMMA ClusterTaken ==
    ASSUME NEW s, Consistent(s), NEW t \in State,
           NEW c \in Cluster \ s.used, t.used = s.used \cup {c},
           NEW i \in Files(s), fstClus(s, i) = 0, fstClus(t, i) = c,
           \A x \in Ino : IF x[1] = c THEN ~inUse(t, x) ELSE SameCell(s, t, x),
           \A x \in Entries(s) \ {i} : fstClus(t, x) = fstClus(s, x),
           ObjectsHaveEntries(t)
    PROVE  Consistent(t) /\ Entries(t) = Entries(s)
<1>1. \A x \in Ino : x[1] = c => ~inUse(s, x)
  BY OtherClustersBare
<1>2. \A x \in Ino : SameCell(s, t, x)
  BY <1>1 DEF SameCell
<1>3. Entries(t) = Entries(s) /\ i \in Entries(s)
  BY <1>2 DEF Entries, Files, SameCell
<1>4. \A x \in Entries(s) : x \in Ino /\ inUse(s, x) /\ at(t, x).dir = at(s, x).dir
  BY <1>2 DEF Entries, SameCell
<1>5. \A e \in Dirs(s) : e \in Dirs(t) /\ fstClus(t, e) = fstClus(s, e)
  BY <1>3, <1>4 DEF Dirs, Files, fstClus, getFileByIno
<1>6. c # 0 /\ c # Root /\ \A x \in Entries(s) : fstClus(s, x) # c
  BY Numbers DEF Consistent, UsedOwned
<1>7. Apart(t)
  BY <1>3, <1>6 DEF Consistent, Apart
<1>8. UsedOwned(t)
  <2>1. {fstClus(t, x) : x \in Entries(t)} \ {0} = ({fstClus(s, x) : x \in Entries(s)} \ {0}) \cup {c}
    BY <1>3, <1>6
  <2>2. QED
    BY <2>1 DEF Consistent, UsedOwned
<1>9. DirsWhole(t)
  <2> SUFFICES ASSUME NEW e \in Entries(s), at(s, e).dir, NEW k \in {0, 1}
               PROVE  /\ fstClus(t, e) # 0
                      /\ inUse(t, <<fstClus(t, e), k>>)
                      /\ at(t, <<fstClus(t, e), k>>).name \notin Name
    BY <1>3, <1>4 DEF DirsWhole
  <2> DEFINE x == <<fstClus(s, e), k>>
  <2>1. fstClus(s, e) # 0 /\ fstClus(s, e) \in Cluster /\ e # i
    BY <1>4, MetaTyped DEF Consistent, DirsWhole, Files
  <2>2. x \in Ino /\ inUse(s, x) /\ at(s, x).name \notin Name
    BY <2>1, Numbers DEF Consistent, DirsWhole
  <2> HIDE DEF x
  <2>3. inUse(t, x) /\ at(t, x).name \notin Name
    BY <1>2, <2>2 DEF SameCell
  <2>4. QED
    BY <2>1, <2>3 DEF x
<1>10. EntriesInDirs(t)
  BY <1>2, <1>5 DEF Consistent, EntriesInDirs, SameCell
<1>11. QED
  BY <1>3, <1>7, <1>8, <1>9, <1>10 DEF Consistent

\* A file gives its cluster up (FAT::freeClus in resize).
LEMMA ClusterGiven ==
    ASSUME NEW s, Consistent(s), NEW t \in State,
           NEW i \in Files(s), t.used = s.used \ {fstClus(s, i)}, fstClus(t, i) = 0,
           \A x \in Ino : IF x[1] = fstClus(s, i) THEN ~inUse(t, x) ELSE SameCell(s, t, x),
           \A x \in Entries(s) \ {i} : fstClus(t, x) = fstClus(s, x),
           ObjectsHaveEntries(t)
    PROVE  Consistent(t) /\ Entries(t) = Entries(s)
<1> DEFINE c == fstClus(s, i)
<1>1. \A x \in Ino : x[1] = c => ~inUse(s, x)
  BY OtherClustersBare
<1>2. \A x \in Ino : SameCell(s, t, x)
  BY <1>1 DEF SameCell
<1>3. Entries(t) = Entries(s) /\ i \in Entries(s) /\ ~at(s, i).dir
  BY <1>2 DEF Entries, Files, SameCell
<1>4. \A x \in Entries(s) : x \in Ino /\ inUse(s, x) /\ at(t, x).dir = at(s, x).dir
  BY <1>2 DEF Entries, SameCell
<1>5. \A e \in Dirs(s) : e \in Dirs(t) /\ fstClus(t, e) = fstClus(s, e)
  BY <1>3, <1>4 DEF Dirs, Files, fstClus, getFileByIno
<1> HIDE DEF c
<1>6. c # Root /\ \A x \in Entries(s) \ {i} : fstClus(s, x) = c => c = 0
  BY <1>3 DEF Consistent, Apart, c
<1>7. Apart(t)
  BY <1>3, Numbers DEF Consistent, Apart
<1>8. UsedOwned(t)
  <2>1. {fstClus(t, x) : x \in Entries(t)} \ {0} = ({fstClus(s, x) : x \in Entries(s)} \ {0}) \ {c}
    <3>1. \A x \in Entries(s) \ {i} : fstClus(s, x) # 0 => fstClus(s, x) # c /\ fstClus(t, x) = fstClus(s, x)
      BY <1>6
    <3>2. fstClus(s, i) = c
      BY DEF c
    <3>3. QED
      BY <1>3, <3>1, <3>2
  <2>2. t.used = s.used \ {c}
    BY DEF c
  <2>3. QED
    BY <1>6, <2>1, <2>2 DEF Consistent, UsedOwned
<1>9. DirsWhole(t)
  <2> SUFFICES ASSUME NEW e \in Entries(s), at(s, e).dir, NEW k \in {0, 1}
               PROVE  /\ fstClus(t, e) # 0
                      /\ inUse(t, <<fstClus(t, e), k>>)
                      /\ at(t, <<fstClus(t, e), k>>).name \notin Name
    BY <1>3, <1>4 DEF DirsWhole
  <2> DEFINE x == <<fstClus(s, e), k>>
  <2>1. fstClus(s, e) # 0 /\ fstClus(s, e) \in Cluster /\ e # i
    BY <1>3, <1>4, MetaTyped DEF Consistent, DirsWhole
  <2>2. x \in Ino /\ inUse(s, x) /\ at(s, x).name \notin Name
    BY <2>1, Numbers DEF Consistent, DirsWhole
  <2> HIDE DEF x
  <2>3. inUse(t, x) /\ at(t, x).name \notin Name
    BY <1>2, <2>2 DEF SameCell
  <2>4. QED
    BY <2>1, <2>3 DEF x
<1>10. EntriesInDirs(t)
  BY <1>2, <1>5 DEF Consistent, EntriesInDirs, SameCell
<1>11. QED
  BY <1>3, <1>7, <1>8, <1>9, <1>10 DEF Consistent

\* The cluster of a directory without names, or of a file, holds no entry of
\* a file.
LEMMA NothingInside ==
    ASSUME NEW s, Consistent(s), NEW i \in Entries(s),
           at(s, i).dir => \A x \in Ino : x[1] = fstClus(s, i) /\ x[2] > 1 => ~inUse(s, x)
    PROVE  \A x \in Entries(s) : x[1] # fstClus(s, i)
<1> SUFFICES ASSUME NEW x \in Entries(s), x[1] = fstClus(s, i)
             PROVE  FALSE
  OBVIOUS
<1>1. x \in Ino /\ inUse(s, x) /\ at(s, x).name \in Name
  BY DEF Entries
<1>2. CASE ~at(s, i).dir
  BY <1>1, <1>2, OtherClustersBare DEF Files
<1>3. CASE at(s, i).dir
  <2>1. x[2] \in Slot /\ ~(x[2] > 1)
    BY <1>1, <1>3, Numbers
  <2>2. x[2] \in {0, 1}
    BY <2>1, Numbers
  <2>3. x = <<fstClus(s, i), x[2]>>
    BY <1>1, Numbers
  <2>4. at(s, <<fstClus(s, i), x[2]>>).name \notin Name
    BY <1>3, <2>2 DEF Consistent, DirsWhole
  <2>5. QED
    BY <1>1, <2>3, <2>4
<1>4. QED
  BY <1>2, <1>3

\* A file, or a directory without names, loses its entry and its cluster
\* (File::selfDestruct).
LEMMA EntryErased ==
    ASSUME NEW s, Consistent(s), NEW t \in State,
           NEW i \in Entries(s), t.used = s.used \ {fstClus(s, i)},
           at(s, i).dir => \A x \in Ino : x[1] = fstClus(s, i) /\ x[2] > 1 => ~inUse(s, x),
           \A x \in Ino : IF x = i \/ x[1] = fstClus(s, i) THEN ~inUse(t, x) ELSE SameCell(s, t, x),
           \A x \in Entries(s) \ {i} : fstClus(t, x) = fstClus(s, x),
           ObjectsHaveEntries(t)
    PROVE  Consistent(t) /\ Entries(t) = Entries(s) \ {i}
<1> DEFINE c == fstClus(s, i)
<1>1. \A x \in Entries(s) : x[1] # c
  BY NothingInside
<1>2. Entries(t) = Entries(s) \ {i}
  BY <1>1 DEF Entries, SameCell
<1>3. \A x \in Entries(s) \ {i} : x \in Ino /\ inUse(s, x) /\ at(t, x).dir = at(s, x).dir
  BY <1>1 DEF Entries, SameCell
<1>4. \A e \in Dirs(s) \ {i} : e \in Dirs(t) /\ fstClus(t, e) = fstClus(s, e)
  BY <1>2, <1>3 DEF Dirs, fstClus, getFileByIno
<1> HIDE DEF c
<1>5. c # Root /\ \A x \in Entries(s) \ {i} : fstClus(s, x) = c => c = 0
  BY DEF Consistent, Apart, c
<1>6. Apart(t)
  BY <1>2 DEF Consistent, Apart
<1>7. UsedOwned(t)
  <2>1. {fstClus(t, x) : x \in Entries(t)} \ {0} = ({fstClus(s, x) : x \in Entries(s)} \ {0}) \ {c}
    <3>1. \A x \in Entries(s) \ {i} : fstClus(s, x) # 0 => fstClus(s, x) # c /\ fstClus(t, x) = fstClus(s, x)
      BY <1>5
    <3>2. fstClus(s, i) = c
      BY DEF c
    <3>3. QED
      BY <1>2, <3>1, <3>2
  <2>2. t.used = s.used \ {c}
    BY DEF c
  <2>3. QED
    BY <1>5, <2>1, <2>2 DEF Consistent, UsedOwned
<1>8. DirsWhole(t)
  <2> SUFFICES ASSUME NEW e \in Entries(s) \ {i}, at(s, e).dir, NEW k \in {0, 1}
               PROVE  /\ fstClus(t, e) # 0
                      /\ inUse(t, <<fstClus(t, e), k>>)
                      /\ at(t, <<fstClus(t, e), k>>).name \notin Name
    BY <1>2, <1>3 DEF DirsWhole
  <2> DEFINE x == <<fstClus(s, e), k>>
  <2>1. fstClus(s, e) # 0 /\ fstClus(s, e) \in Cluster
    BY <1>3, MetaTyped DEF Consistent, DirsWhole
  <2>2. x \in Ino /\ x[1] = fstClus(s, e) /\ inUse(s, x) /\ at(s, x).name \notin Name
    BY <2>1, Numbers DEF Consistent, DirsWhole
  <2> HIDE DEF x
  <2>3. x # i /\ x[1] # c
    BY <1>5, <2>1, <2>2 DEF Entries
  <2>4. inUse(t, x) /\ at(t, x).name \notin Name
    BY <2>2, <2>3 DEF SameCell, c
  <2>5. QED
    BY <2>1, <2>4 DEF x
<1>9. EntriesInDirs(t)
  <2> SUFFICES ASSUME NEW x \in Ino, inUse(t, x)
               PROVE  \E e \in Dirs(t) : x[1] = fstClus(t, e)
    BY DEF EntriesInDirs
  <2>1. inUse(s, x) /\ x[1] # c
    BY DEF SameCell, c
  <2>2. PICK e \in Dirs(s) : x[1] = fstClus(s, e)
    BY <2>1 DEF Consistent, EntriesInDirs
  <2>3. e # i
    BY <2>1, <2>2 DEF c
  <2>4. QED
    BY <1>4, <2>2, <2>3
<1>10. QED
  BY <1>2, <1>6, <1>7, <1>8, <1>9 DEF Consistent

-----------------------------------------------------------------------------
(***************************************************************************)
(* What the methods do to cells, objects and clusters.                     *)
(***************************************************************************)

\* One cell gets a new value (the store through a sector of the directory).
LEMMA PutCell ==
    ASSUME NEW s \in State, NEW i \in Ino, NEW v \in Cell,
           NEW t, t = [s EXCEPT !.cell[i[1]][i[2]] = v]
    PROVE  /\ t \in State /\ t.used = s.used /\ t.object = s.object
           /\ at(t, i) = v
           /\ \A x \in Ino \ {i} : at(t, x) = at(s, x)
<1>1. i[1] \in Cluster /\ i[2] \in Slot
  BY Numbers
<1>2. t.used = s.used /\ t.object = s.object
  BY DEF State
<1>3. t \in State
  BY <1>1 DEF State
<1>4. at(t, i) = v
  BY <1>1 DEF State, at
<1>5. ASSUME NEW x \in Ino \ {i}
      PROVE  at(t, x) = at(s, x)
  <2>1. x[1] \in Cluster /\ x[2] \in Slot /\ (x[1] # i[1] \/ x[2] # i[2])
    BY Numbers
  <2>2. QED
    BY <1>1, <2>1 DEF State, at
<1>6. QED
  BY <1>2, <1>3, <1>4, <1>5

\* lookup changes nothing that can be seen: the object it makes says what the
\* entry says (Directory::lookupFile, getFileByIno).
LEMMA LoadResult ==
    ASSUME NEW s \in State, NEW i \in Ino \cup {RootIno}
    PROVE  /\ load(s, i) \in State
           /\ load(s, i).cell = s.cell /\ load(s, i).used = s.used
           /\ DOMAIN load(s, i).object = DOMAIN s.object \cup ({i} \ {RootIno})
           /\ \A x : getFileByIno(load(s, i), x) = getFileByIno(s, x)
           /\ \A x : at(load(s, i), x) = at(s, x)
           /\ \A x \in DOMAIN load(s, i).object : load(s, i).object[x] = getFileByIno(s, x)
<1>1. DOMAIN s.object \subseteq Ino /\ \A x \in Ino : getFileByIno(s, x) \in Object
  BY StateParts, MetaTyped
<1>2. \A x \in DOMAIN s.object : getFileByIno(s, x) = s.object[x]
  BY <1>1, MetaTyped
<1>3. CASE i = RootIno
  <2>1. load(s, i) = s
    BY <1>3 DEF load
  <2>2. QED
    BY <1>2, <1>3, <2>1
<1>4. CASE i # RootIno
  <2> DEFINE t == load(s, i)
             D == DOMAIN s.object \cup {i}
             f == [j \in D |-> getFileByIno(s, j)]
  <2>1. t = [s EXCEPT !.object = f]
    BY <1>4 DEF load
  <2>2. D \in SUBSET Ino
    BY <1>1, <1>4
  <2>3. f \in [D -> Object]
    BY <1>1, <2>2
  <2>4. f \in Objects
    BY <2>2, <2>3 DEF Objects
  <2>5. DOMAIN f = D /\ \A x \in D : f[x] = getFileByIno(s, x)
    OBVIOUS
  <2> HIDE DEF f, D
  <2>6. t \in State /\ t.cell = s.cell /\ t.used = s.used /\ t.object = f
    BY <2>1, <2>4 DEF State
  <2> HIDE DEF t
  <2>7. \A x : at(t, x) = at(s, x)
    BY <2>6 DEF at
  <2>8. ASSUME NEW x
        PROVE  getFileByIno(t, x) = getFileByIno(s, x)
    <3>1. fromIno(t, x) = fromIno(s, x)
      BY <2>7 DEF fromIno
    <3>2. CASE x \in D
      BY <2>2, <2>5, <2>6, <3>2, Numbers DEF getFileByIno
    <3>3. CASE x \notin D
      <4>1. x \notin DOMAIN s.object
        BY <3>3 DEF D
      <4>2. QED
        BY <2>5, <2>6, <3>1, <3>3, <4>1 DEF getFileByIno
    <3>4. QED
      BY <3>2, <3>3
  <2>9. QED
    BY <1>4, <2>5, <2>6, <2>7, <2>8 DEF t, D
<1>5. QED
  BY <1>3, <1>4

\* A consistent state stays one, and shows the same, when an object is made
\* for an entry in use.
LEMMA LoadKeeps ==
    ASSUME NEW s, Consistent(s), NEW i, i = RootIno \/ (i \in Ino /\ inUse(s, i))
    PROVE  /\ Consistent(load(s, i))
           /\ \A x : at(load(s, i), x) = at(s, x) /\ fstClus(load(s, i), x) = fstClus(s, x)
           /\ Entries(load(s, i)) = Entries(s) /\ Dirs(load(s, i)) = Dirs(s)
           /\ DOMAIN load(s, i).object = DOMAIN s.object \cup ({i} \ {RootIno})
           /\ load(s, i).used = s.used
<1> DEFINE t == load(s, i)
<1>1. /\ t \in State /\ t.cell = s.cell /\ t.used = s.used
      /\ DOMAIN t.object = DOMAIN s.object \cup ({i} \ {RootIno})
      /\ \A x : getFileByIno(t, x) = getFileByIno(s, x)
      /\ \A x : at(t, x) = at(s, x)
      /\ \A x \in DOMAIN t.object : t.object[x] = getFileByIno(s, x)
  BY LoadResult DEF Consistent
<1> HIDE DEF t
<1>2. \A x : fstClus(t, x) = fstClus(s, x)
  BY <1>1 DEF fstClus
<1>3. \A x : SameCell(s, t, x) /\ (inUse(t, x) <=> inUse(s, x))
  BY <1>1 DEF SameCell, inUse
<1>4. ObjectsHaveEntries(t)
  <2> SUFFICES ASSUME NEW x \in DOMAIN t.object
               PROVE  inUse(t, x) /\ at(t, x).dir = t.object[x].dir
    BY DEF ObjectsHaveEntries
  <2>1. CASE x \in DOMAIN s.object
    <3>1. x \in Ino /\ inUse(s, x) /\ at(s, x).dir = s.object[x].dir
      BY <2>1, StateParts DEF Consistent, ObjectsHaveEntries
    <3>2. t.object[x] = s.object[x]
      BY <1>1, <2>1, <3>1, MetaTyped DEF Consistent
    <3>3. QED
      BY <1>1, <1>3, <3>1, <3>2
  <2>2. CASE x \notin DOMAIN s.object
    <3>1. x \in Ino /\ inUse(s, x) /\ x = i
      BY <1>1, <2>2
    <3>2. t.object[x] = fromIno(s, x)
      BY <1>1, <2>2, <3>1, MetaTyped DEF Consistent
    <3>3. QED
      BY <1>1, <1>3, <3>1, <3>2 DEF fromIno
  <2>3. QED
    BY <2>1, <2>2
<1>5. Consistent(t) /\ Entries(t) = Entries(s) /\ Dirs(t) = Dirs(s)
  BY <1>1, <1>2, <1>3, <1>4, SameView
<1>6. QED
  BY <1>1, <1>2, <1>5 DEF t

\* What File::sync leaves in the entry: at most its first cluster and stamp
\* are new.
LEMMA WrittenResult ==
    ASSUME NEW s \in State, NEW i \in Ino, NEW o \in Object
    PROVE  /\ written(s, i, o) \in State
           /\ written(s, i, o).used = s.used /\ written(s, i, o).object = s.object
           /\ synced(s, i, o) \in Cell /\ at(written(s, i, o), i) = synced(s, i, o)
           /\ \A x \in Ino \ {i} : at(written(s, i, o), x) = at(s, x)
           /\ \A x \in Ino : SameCell(s, written(s, i, o), x)
           /\ at(s, i).kind # "bytes" => at(written(s, i, o), i).kind = at(s, i).kind
           /\ inUse(s, i) => /\ at(written(s, i, o), i).fst = o.fst
                             /\ at(written(s, i, o), i).stamp = o.stamp
<1> DEFINE v == synced(s, i, o)
           t == written(s, i, o)
<1>1. at(s, i) \in Cell /\ o.fst \in {0} \cup Cluster /\ o.stamp \in Stamp
  BY CellTyped DEF Object
<1>2. /\ v \in Cell /\ v.name = at(s, i).name /\ v.dir = at(s, i).dir
      /\ (v.kind = "entry") <=> (at(s, i).kind = "entry")
      /\ at(s, i).kind # "bytes" => v.kind = at(s, i).kind
      /\ at(s, i).kind = "entry" => v.fst = o.fst /\ v.stamp = o.stamp
  <2>1. CASE inUse(s, i)
    <3>1. v = [at(s, i) EXCEPT !.fst = o.fst, !.stamp = o.stamp]
      BY <2>1 DEF synced, inUse
    <3>2. QED
      BY <1>1, <2>1, <3>1 DEF Cell, inUse
  <2>2. CASE ~inUse(s, i) /\ at(s, i).kind = "bytes" /\ i[1] \in s.used
    <3>1. v = [at(s, i) EXCEPT !.kind = "spoiled"]
      BY <2>2 DEF synced, inUse
    <3>2. QED
      BY <1>1, <2>2, <3>1 DEF Cell, inUse
  <2>3. CASE ~inUse(s, i) /\ ~(at(s, i).kind = "bytes" /\ i[1] \in s.used)
    <3>1. v = at(s, i)
      BY <2>3 DEF synced, inUse
    <3>2. QED
      BY <1>1, <2>3, <3>1 DEF inUse
  <2>4. QED
    BY <2>1, <2>2, <2>3
<1>3. t = [s EXCEPT !.cell[i[1]][i[2]] = v]
  BY DEF written
<1> HIDE DEF v, t
<1>4. /\ t \in State /\ t.used = s.used /\ t.object = s.object
      /\ at(t, i) = v
      /\ \A x \in Ino \ {i} : at(t, x) = at(s, x)
  BY <1>2, <1>3, PutCell
<1>5. ASSUME NEW x \in Ino
      PROVE  SameCell(s, t, x)
  <2>1. CASE x = i
    BY <1>2, <1>4, <2>1 DEF SameCell, inUse
  <2>2. CASE x # i
    BY <1>4, <2>2 DEF SameCell, inUse
  <2>3. QED
    BY <2>1, <2>2
<1>6. QED
  BY <1>2, <1>4, <1>5 DEF t, v, inUse

\* An object leaves the cache (rmFileFromCacheByIno).
LEMMA RmResult ==
    ASSUME NEW s \in State, NEW i
    PROVE  /\ rmFileFromCacheByIno(s, i) \in State
           /\ rmFileFromCacheByIno(s, i).cell = s.cell /\ rmFileFromCacheByIno(s, i).used = s.used
           /\ DOMAIN rmFileFromCacheByIno(s, i).object = DOMAIN s.object \ {i}
           /\ \A x \in DOMAIN s.object \ {i} : rmFileFromCacheByIno(s, i).object[x] = s.object[x]
           /\ \A x : at(rmFileFromCacheByIno(s, i), x) = at(s, x)
           /\ \A x : x # i => getFileByIno(rmFileFromCacheByIno(s, i), x) = getFileByIno(s, x)
           /\ i # RootIno => getFileByIno(rmFileFromCacheByIno(s, i), i) = fromIno(s, i)
<1> DEFINE D == DOMAIN s.object \ {i}
           f == [x \in D |-> s.object[x]]
           t == rmFileFromCacheByIno(s, i)
<1>1. DOMAIN s.object \subseteq Ino /\ s.object \in [DOMAIN s.object -> Object]
  BY StateParts
<1>2. t = [s EXCEPT !.object = f]
  BY DEF rmFileFromCacheByIno, Restrict
<1>3. D \in SUBSET Ino /\ f \in [D -> Object]
  BY <1>1
<1>4. f \in Objects
  BY <1>3 DEF Objects
<1>5. DOMAIN f = D /\ \A x \in D : f[x] = s.object[x]
  OBVIOUS
<1> HIDE DEF f, t
<1>6. t \in State /\ t.cell = s.cell /\ t.used = s.used /\ t.object = f
  BY <1>2, <1>4 DEF State
<1>7. \A x : at(t, x) = at(s, x)
  BY <1>6 DEF at
<1>8. \A x : fromIno(t, x) = fromIno(s, x)
  BY <1>7 DEF fromIno
<1>9. \A x : x # i => getFileByIno(t, x) = getFileByIno(s, x)
  BY <1>5, <1>6, <1>8 DEF getFileByIno
<1>10. i # RootIno => getFileByIno(t, i) = fromIno(s, i)
  BY <1>5, <1>6, <1>8 DEF getFileByIno
<1>11. QED
  BY <1>5, <1>6, <1>7, <1>9, <1>10 DEF t

\* An evicted object has written what it held: every call sees the same
\* metadata afterwards (File::~File).
LEMMA DestroyedResult ==
    ASSUME NEW s, Consistent(s), NEW i \in DOMAIN s.object
    PROVE  /\ destroyed(s, i) \in State /\ destroyed(s, i).used = s.used
           /\ DOMAIN destroyed(s, i).object = DOMAIN s.object \ {i}
           /\ \A x \in DOMAIN s.object \ {i} : destroyed(s, i).object[x] = s.object[x]
           /\ \A x \in Ino : SameCell(s, destroyed(s, i), x)
           /\ \A x \in Ino : at(destroyed(s, i), x).kind = at(s, x).kind
           /\ \A x \in Ino : getFileByIno(destroyed(s, i), x) = getFileByIno(s, x)
<1> DEFINE o == s.object[i]
           w == written(s, i, o)
           t == destroyed(s, i)
<1>1. s \in State /\ i \in Ino /\ o \in Object /\ inUse(s, i) /\ at(s, i).dir = o.dir
  BY StateParts DEF Consistent, ObjectsHaveEntries
<1>2. /\ w \in State /\ w.used = s.used /\ w.object = s.object
      /\ \A x \in Ino \ {i} : at(w, x) = at(s, x)
      /\ \A x \in Ino : SameCell(s, w, x)
      /\ at(w, i).fst = o.fst /\ at(w, i).stamp = o.stamp /\ at(w, i).kind = at(s, i).kind
  BY <1>1, WrittenResult DEF inUse
<1>3. t = rmFileFromCacheByIno(w, i)
  BY DEF destroyed
<1> HIDE DEF w, t
<1>4. /\ t \in State /\ t.used = w.used /\ DOMAIN t.object = DOMAIN w.object \ {i}
      /\ \A x \in DOMAIN w.object \ {i} : t.object[x] = w.object[x]
      /\ \A x : at(t, x) = at(w, x)
      /\ \A x : x # i => getFileByIno(t, x) = getFileByIno(w, x)
      /\ i # RootIno => getFileByIno(t, i) = fromIno(w, i)
  BY <1>2, <1>3, RmResult
<1>5. \A x \in Ino : SameCell(s, t, x)
  BY <1>2, <1>4 DEF SameCell, inUse
<1>6. \A x \in Ino \ {i} : getFileByIno(t, x) = getFileByIno(s, x)
  <2>1. \A x \in Ino \ {i} : fromIno(w, x) = fromIno(s, x)
    BY <1>2 DEF fromIno
  <2>2. \A x \in Ino \ {i} : getFileByIno(w, x) = getFileByIno(s, x)
    BY <1>2, <2>1 DEF getFileByIno
  <2>3. QED
    BY <1>4, <2>2
<1>7. getFileByIno(t, i) = getFileByIno(s, i)
  <2>1. getFileByIno(t, i) = fromIno(w, i)
    BY <1>1, <1>4, Numbers
  <2>2. at(w, i).dir = o.dir
    BY <1>1, <1>2 DEF SameCell
  <2>3. fromIno(w, i) = o
    BY <1>1, <1>2, <2>2 DEF fromIno, Object
  <2>4. getFileByIno(s, i) = o
    BY <1>1, MetaTyped
  <2>5. QED
    BY <2>1, <2>3, <2>4
<1>8. QED
  BY <1>2, <1>4, <1>5, <1>6, <1>7 DEF t

\* A cached object gets other metadata.
LEMMA ObjectPut ==
    ASSUME NEW s \in State, NEW i \in DOMAIN s.object, NEW o \in Object,
           NEW t, t = [s EXCEPT !.object[i] = o]
    PROVE  /\ t \in State /\ t.cell = s.cell /\ t.used = s.used
           /\ DOMAIN t.object = DOMAIN s.object
           /\ t.object[i] = o /\ \A x \in DOMAIN s.object \ {i} : t.object[x] = s.object[x]
           /\ \A x : at(t, x) = at(s, x)
           /\ getFileByIno(t, i) = o /\ \A x : x # i => getFileByIno(t, x) = getFileByIno(s, x)
<1> DEFINE f == [s.object EXCEPT ![i] = o]
<1>1. DOMAIN s.object \in SUBSET Ino /\ s.object \in [DOMAIN s.object -> Object]
  BY StateParts
<1>2. f \in [DOMAIN s.object -> Object]
  BY <1>1
<1>3. f \in Objects
  BY <1>1, <1>2 DEF Objects
<1>4. /\ DOMAIN f = DOMAIN s.object /\ f[i] = o
      /\ \A x \in DOMAIN s.object \ {i} : f[x] = s.object[x]
  BY <1>1
<1>5. t = [s EXCEPT !.object = f]
  OBVIOUS
<1> HIDE DEF f
<1>6. t \in State /\ t.cell = s.cell /\ t.used = s.used /\ t.object = f
  BY <1>3, <1>5 DEF State
<1>7. \A x : at(t, x) = at(s, x)
  BY <1>6 DEF at
<1>8. getFileByIno(t, i) = o
  BY <1>1, <1>4, <1>6, Numbers DEF getFileByIno
<1>9. ASSUME NEW x, x # i
      PROVE  getFileByIno(t, x) = getFileByIno(s, x)
  <2>1. fromIno(t, x) = fromIno(s, x)
    BY <1>7 DEF fromIno
  <2>2. QED
    BY <1>4, <1>6, <1>9, <2>1 DEF getFileByIno
<1>10. QED
  BY <1>4, <1>6, <1>7, <1>8, <1>9

\* A free cluster becomes that of the object i and is filled (allocClus).
LEMMA TakenResult ==
    ASSUME NEW s \in State, NEW i \in DOMAIN s.object, freeClusters(s) # {},
           NEW content \in [Slot -> Cell]
    PROVE  /\ freeCluster(s) \in Cluster \ s.used
           /\ taken(s, i, content) \in State
           /\ taken(s, i, content).used = s.used \cup {freeCluster(s)}
           /\ DOMAIN taken(s, i, content).object = DOMAIN s.object
           /\ taken(s, i, content).object[i] = [s.object[i] EXCEPT !.fst = freeCluster(s)]
           /\ \A x \in DOMAIN s.object \ {i} : taken(s, i, content).object[x] = s.object[x]
           /\ \A x \in Ino : at(taken(s, i, content), x) =
                                IF x[1] = freeCluster(s) THEN content[x[2]] ELSE at(s, x)
<1> DEFINE c == freeCluster(s)
           o == [s.object[i] EXCEPT !.fst = c]
           m == [s EXCEPT !.used = @ \cup {c}, !.cell[c] = content]
           t == taken(s, i, content)
<1>1. i \in Ino /\ s.object[i] \in Object /\ s.used \subseteq Cluster
  BY StateParts
<1>2. c \in Cluster \ s.used
  <2>1. freeClusters(s) \in SUBSET Nat
    BY Numbers DEF freeClusters
  <2>2. QED
    BY <2>1, MinProperty DEF freeClusters, freeCluster
<1>3. o \in Object
  BY <1>1, <1>2 DEF Object
<1>4. t = [m EXCEPT !.object[i] = o]
  <2>1. t = [s EXCEPT !.used = @ \cup {c}, !.cell[c] = content, !.object[i].fst = c]
    BY DEF taken
  <2>2. QED
    BY <2>1 DEF State
<1> HIDE DEF c, o, t
<1>5. m \in State /\ m.used = s.used \cup {c} /\ m.object = s.object
  BY <1>1, <1>2 DEF State
<1>6. ASSUME NEW x \in Ino
      PROVE  at(m, x) = IF x[1] = c THEN content[x[2]] ELSE at(s, x)
  BY <1>2, Numbers DEF at, State
<1> HIDE DEF m
<1>7. /\ t \in State /\ t.cell = m.cell /\ t.used = m.used
      /\ DOMAIN t.object = DOMAIN m.object
      /\ t.object[i] = o /\ \A x \in DOMAIN m.object \ {i} : t.object[x] = m.object[x]
      /\ \A x : at(t, x) = at(m, x)
  BY <1>3, <1>4, <1>5, ObjectPut
<1>8. QED
  BY <1>2, <1>5, <1>6, <1>7 DEF t, o, c

\* A chain is freed; its cluster holds what it held (freeClus).
LEMMA ReleasedResult ==
    ASSUME NEW s \in State, NEW c \in {0} \cup Cluster
    PROVE  /\ released(s, c) \in State
           /\ released(s, c).used = s.used \ {c} /\ released(s, c).object = s.object
           /\ \A x \in Ino : at(released(s, c), x) = IF x[1] = c THEN Bytes ELSE at(s, x)
<1>1. CASE c = 0
  <2>1. released(s, c) = s
    BY <1>1 DEF released
  <2>2. QED
    BY <1>1, <2>1, StateParts, Numbers
<1>2. CASE c # 0
  <2> DEFINE t == released(s, c)
             row == [k \in Slot |-> Bytes]
  <2>1. t = [s EXCEPT !.used = @ \ {c}, !.cell[c] = row]
    BY <1>2 DEF released
  <2>2. row \in [Slot -> Cell]
    BY CellsMade
  <2>3. \A k \in Slot : row[k] = Bytes
    OBVIOUS
  <2> HIDE DEF t, row
  <2>4. t \in State /\ t.used = s.used \ {c} /\ t.object = s.object
    BY <1>2, <2>1, <2>2 DEF State
  <2>5. ASSUME NEW x \in Ino
        PROVE  at(t, x) = IF x[1] = c THEN Bytes ELSE at(s, x)
    BY <1>2, <2>1, <2>3, Numbers DEF State, at
  <2>6. QED
    BY <2>4, <2>5 DEF t
<1>3. QED
  BY <1>1, <1>2

-----------------------------------------------------------------------------
(***************************************************************************)
(* The handlers, on a consistent state.                                    *)
(***************************************************************************)
\* The state t is consistent, no entry of s is lost but those in gone, and no
\* data is overwritten by metadata.
Survive(s, t, gone) ==
    /\ Consistent(t)
    /\ \A x \in Entries(s) \ gone : x \in Entries(t) /\ SameCell(s, t, x)
    /\ \A x \in Ino : at(t, x).kind = "spoiled" => at(s, x).kind = "spoiled"

\* Those in gone are lost, and no object but theirs leaves the cache.
Follows(s, t, gone) ==
    /\ Survive(s, t, gone)
    /\ gone \cap Entries(t) = {} /\ DOMAIN s.object \ gone \subseteq DOMAIN t.object

\* The link of x in the tree of names is the same in both states, and that of
\* every entry outside of E.
SameLink(s, t, x) == at(t, x).name = at(s, x).name /\ getFileByIno(t, x) = getFileByIno(s, x)
SameBut(s, t, E) == \A x \in Entries(s) \ E : SameLink(s, t, x)
TreeSame(s, t) == Entries(t) = Entries(s) /\ SameBut(s, t, {})

\* What a call does to the tree.  A link goes by the place of its entry.
NoneNamed(s, c, n) == \A x \in Entries(s) : x[1] = c => at(s, x).name # n
NoneIn(s, i) == at(s, i).dir => \A x \in Entries(s) : x[1] # fstClus(s, i)

LinkChanged(s, t, i) ==
    /\ i \in Files(s) /\ Entries(t) = Entries(s) /\ SameBut(s, t, {i}) /\ at(t, i) = at(s, i)
    /\ fstClus(t, i) \in {fstClus(s, i), 0} \/ fstClus(s, i) = 0
LinkMade(s, t, i) ==
    /\ i \notin Entries(s) /\ Entries(t) = Entries(s) \cup {i} /\ SameBut(s, t, {})
    /\ \E d \in Dirs(s) : i[1] = fstClus(s, d)
    /\ NoneNamed(s, i[1], at(t, i).name) /\ (~at(t, i).dir => fstClus(t, i) = 0)
LinkGone(s, t, i) ==
    /\ i \in Entries(s) /\ Entries(t) = Entries(s) \ {i} /\ SameBut(s, t, {i})
    /\ NoneIn(s, i)
LinkMoved(s, t, i, k) ==
    /\ i \in Entries(s) /\ k \notin Entries(s) /\ Entries(t) = (Entries(s) \ {i}) \cup {k}
    /\ SameBut(s, t, {i}) /\ getFileByIno(t, k) = getFileByIno(s, i)
    /\ \E e \in Dirs(s) \ {i} : k[1] = fstClus(s, e)
    /\ NoneNamed(s, k[1], at(t, k).name)
LinkReplaced(s, t, i, j) ==
    /\ i \in Entries(s) /\ j \in Entries(s) /\ i # j /\ Entries(t) = Entries(s) \ {i}
    /\ at(s, j).dir = at(s, i).dir /\ NoneIn(s, j)
    /\ SameBut(s, t, {i, j}) /\ getFileByIno(t, j) = getFileByIno(s, i)
    /\ \E e \in Dirs(s) \ {i} : j[1] = fstClus(s, e)
    /\ at(t, j).name = at(s, j).name

\* The entry of a file in use is not the root directory's inode number.
LEMMA EntriesTyped ==
    ASSUME NEW s, NEW i \in Entries(s)
    PROVE  /\ i \in Ino /\ inUse(s, i) /\ at(s, i).name \in Name /\ i # RootIno
           /\ fstClus(s, i) = getFileByIno(s, i).fst
BY Numbers DEF Entries, fstClus

\* An object that is loaded is the answer of getFileByIno.
LEMMA Loaded ==
    ASSUME NEW s, Consistent(s), NEW i \in DOMAIN s.object
    PROVE  /\ i \in Ino /\ s.object[i] \in Object /\ getFileByIno(s, i) = s.object[i]
           /\ fstClus(s, i) = s.object[i].fst
           /\ inUse(s, i) /\ at(s, i).dir = s.object[i].dir
<1>1. i \in Ino /\ s.object[i] \in Object /\ getFileByIno(s, i) = s.object[i]
  BY StateParts, MetaTyped DEF Consistent
<1>2. QED
  BY <1>1 DEF fstClus, Consistent, ObjectsHaveEntries

\* The stamp of a file changes in its object.
LEMMA ChangedKeeps ==
    ASSUME NEW s, Consistent(s), NEW i \in DOMAIN s.object
    PROVE  LET t == changed(s, i)
           IN  /\ Follows(s, t, {}) /\ Entries(t) = Entries(s) /\ SameBut(s, t, {i})
               /\ at(t, i) = at(s, i) /\ fstClus(t, i) = fstClus(s, i)
<1> DEFINE n == Min({s.object[i].stamp + 1, MaxStamp})
           o == [s.object[i] EXCEPT !.stamp = n]
           t == changed(s, i)
<1>1. i \in Ino /\ s.object[i] \in Object /\ getFileByIno(s, i) = s.object[i]
  BY Loaded
<1>2. o \in Object /\ o.fst = s.object[i].fst /\ o.dir = s.object[i].dir
  <2>1. s.object[i].stamp \in Nat /\ MaxStamp \in Nat
    BY <1>1, ObjectAssumption DEF Object, Stamp
  <2>2. {s.object[i].stamp + 1, MaxStamp} \in SUBSET Nat
    BY <2>1
  <2>3. n \in Nat /\ n <= MaxStamp
    BY <2>1, <2>2, MinProperty
  <2>4. n \in Stamp
    BY <2>1, <2>3 DEF Stamp
  <2> HIDE DEF n
  <2>5. QED
    BY <1>1, <2>4 DEF Object
<1>3. t = [s EXCEPT !.object[i] = o]
  BY DEF changed
<1> HIDE DEF o, t
<1>4. /\ t \in State /\ t.used = s.used
      /\ DOMAIN t.object = DOMAIN s.object
      /\ t.object[i] = o /\ \A x \in DOMAIN s.object \ {i} : t.object[x] = s.object[x]
      /\ \A x : at(t, x) = at(s, x)
      /\ getFileByIno(t, i) = o /\ \A x : x # i => getFileByIno(t, x) = getFileByIno(s, x)
  BY <1>2, <1>3, ObjectPut DEF Consistent
<1>5. \A x : SameCell(s, t, x) /\ (inUse(t, x) <=> inUse(s, x))
  BY <1>4 DEF SameCell, inUse
<1>6. \A x : fstClus(t, x) = fstClus(s, x)
  BY <1>1, <1>2, <1>4 DEF fstClus
<1>7. ObjectsHaveEntries(t)
  BY <1>2, <1>4, <1>5, Loaded DEF ObjectsHaveEntries
<1>8. Consistent(t) /\ Entries(t) = Entries(s)
  BY <1>4, <1>5, <1>6, <1>7, SameView
<1>9. SameBut(s, t, {i})
  BY <1>4 DEF SameBut, SameLink
<1>10. Follows(s, t, {})
  BY <1>4, <1>5, <1>8 DEF Follows, Survive
<1>11. QED
  BY <1>4, <1>6, <1>8, <1>9, <1>10 DEF t

\* fsync: the entry gets what the object holds.
LEMMA WrittenKeeps ==
    ASSUME NEW s, Consistent(s), NEW i \in DOMAIN s.object
    PROVE  LET t == written(s, i, s.object[i])
           IN  Follows(s, t, {}) /\ Entries(t) = Entries(s) /\ SameBut(s, t, {})
<1> DEFINE t == written(s, i, s.object[i])
<1>1. i \in Ino /\ s.object[i] \in Object /\ inUse(s, i)
  BY Loaded
<1>2. /\ t \in State /\ t.used = s.used /\ t.object = s.object
      /\ \A x \in Ino \ {i} : at(t, x) = at(s, x)
      /\ \A x \in Ino : SameCell(s, t, x)
      /\ at(t, i).kind = at(s, i).kind
  BY <1>1, WrittenResult DEF Consistent, inUse
<1> HIDE DEF t
<1>3. \A x \in Ino : getFileByIno(t, x) = getFileByIno(s, x) /\ fstClus(t, x) = fstClus(s, x)
  <2>1. \A x \in Ino \ {i} : fromIno(t, x) = fromIno(s, x)
    BY <1>2 DEF fromIno
  <2>2. QED
    BY <1>2, <2>1 DEF fstClus, getFileByIno
<1>4. ObjectsHaveEntries(t)
  BY <1>2, Loaded DEF ObjectsHaveEntries, SameCell
<1>5. \A x \in Entries(s) : x \in Ino /\ SameCell(s, t, x) /\ inUse(s, x)
  BY <1>2, EntriesTyped
<1>6. Consistent(t) /\ Entries(t) = Entries(s)
  BY <1>2, <1>3, <1>4, <1>5, SameView
<1>7. SameBut(s, t, {})
  BY <1>3, <1>5 DEF SameBut, SameLink, SameCell
<1>8. QED
  BY <1>2, <1>5, <1>6, <1>7 DEF Follows, Survive, t

\* An eviction.
LEMMA DestroyedKeeps ==
    ASSUME NEW s, Consistent(s), NEW i \in DOMAIN s.object
    PROVE  Survive(s, destroyed(s, i), {})
<1> DEFINE t == destroyed(s, i)
<1>1. /\ t \in State /\ t.used = s.used
      /\ DOMAIN t.object = DOMAIN s.object \ {i}
      /\ \A x \in DOMAIN s.object \ {i} : t.object[x] = s.object[x]
      /\ \A x \in Ino : SameCell(s, t, x) /\ at(t, x).kind = at(s, x).kind
      /\ \A x \in Ino : getFileByIno(t, x) = getFileByIno(s, x)
  BY DestroyedResult
<1> HIDE DEF t
<1>2. \A x \in Entries(s) : x \in Ino /\ fstClus(t, x) = fstClus(s, x)
  BY <1>1, EntriesTyped DEF fstClus
<1>3. ObjectsHaveEntries(t)
  BY <1>1, Loaded DEF ObjectsHaveEntries, SameCell
<1>4. Consistent(t) /\ Entries(t) = Entries(s)
  BY <1>1, <1>2, <1>3, SameView
<1>5. QED
  BY <1>1, <1>2, <1>4 DEF Follows, Survive, t

\* Every object is destroyed, and every call sees the same metadata
\* afterwards (FAT32fs::flush).
LEMMA FlushedResult ==
    ASSUME NEW s, Consistent(s)
    PROVE  /\ flushed(s) \in State /\ flushed(s).used = s.used /\ DOMAIN flushed(s).object = {}
           /\ \A x \in Ino : SameCell(s, flushed(s), x) /\ at(flushed(s), x).kind = at(s, x).kind
           /\ \A x \in Ino : getFileByIno(flushed(s), x) = getFileByIno(s, x)
<1> DEFINE t == flushed(s)
           new(x) == IF x \in DOMAIN s.object THEN synced(s, x, s.object[x]) ELSE at(s, x)
           f == [c \in Cluster |-> [k \in Slot |-> new(<<c, k>>)]]
<1>1. s \in State
  BY DEF Consistent
<1>2. ASSUME NEW x \in Ino
      PROVE  new(x) \in Cell
  BY <1>1, Loaded, WrittenResult, CellTyped
<1>3. f \in [Cluster -> [Slot -> Cell]]
  BY <1>2, Numbers
<1>4. t = [s EXCEPT !.object = NoObject, !.cell = f]
  BY <1>1 DEF flushed, at, State
<1>5. ASSUME NEW x \in Ino
      PROVE  f[x[1]][x[2]] = new(x)
  BY Numbers
<1> HIDE DEF t, f, new
<1>6. DOMAIN NoObject = {} /\ NoObject \in Objects
  <2>1. NoObject \in [{} -> Object] /\ {} \in SUBSET Ino
    BY DEF NoObject
  <2>2. QED
    BY <2>1 DEF Objects, NoObject
<1>7. t \in State /\ t.used = s.used /\ t.cell = f /\ t.object = NoObject
  BY <1>1, <1>3, <1>4, <1>6 DEF State
<1>8. \A x \in Ino : at(t, x) = new(x)
  BY <1>5, <1>7 DEF at
<1>9. ASSUME NEW x \in Ino
      PROVE  /\ SameCell(s, t, x) /\ at(t, x).kind = at(s, x).kind
             /\ getFileByIno(t, x) = getFileByIno(s, x)
  <2>1. getFileByIno(t, x) = fromIno(t, x)
    BY <1>6, <1>7, MetaTyped
  <2>2. CASE x \in DOMAIN s.object
    <3> DEFINE o == s.object[x]
               w == written(s, x, o)
    <3>1. o \in Object /\ getFileByIno(s, x) = o /\ inUse(s, x) /\ at(s, x).dir = o.dir
      BY <2>2, Loaded
    <3>2. SameCell(s, w, x) /\ at(w, x).fst = o.fst /\ at(w, x).stamp = o.stamp
      BY <1>1, <3>1, WrittenResult
    <3>3. at(w, x) = synced(s, x, o) /\ at(w, x).kind = at(s, x).kind
      BY <1>1, <3>1, WrittenResult DEF inUse
    <3> HIDE DEF w, o
    <3>4. at(t, x) = at(w, x)
      BY <1>8, <2>2, <3>3 DEF new, o
    <3>5. SameCell(s, t, x)
      BY <3>2, <3>4 DEF SameCell, inUse
    <3>6. fromIno(t, x) = o
      BY <3>1, <3>2, <3>4, <3>5 DEF fromIno, SameCell, Object
    <3>7. QED
      BY <2>1, <3>3, <3>1, <3>4, <3>5, <3>6
  <2>3. CASE x \notin DOMAIN s.object
    <3>1. at(t, x) = at(s, x)
      BY <1>8, <2>3 DEF new
    <3>2. QED
      BY <1>1, <2>1, <2>3, <3>1, MetaTyped DEF SameCell, inUse, fromIno
  <2>4. QED
    BY <2>2, <2>3
<1>10. QED
  BY <1>6, <1>7, <1>9 DEF t

\* An unmount.
LEMMA FlushedKeeps ==
    ASSUME NEW s, Consistent(s)
    PROVE  Survive(s, flushed(s), {})
<1> DEFINE t == flushed(s)
<1>1. /\ t \in State /\ t.used = s.used /\ DOMAIN t.object = {}
      /\ \A x \in Ino : SameCell(s, t, x) /\ at(t, x).kind = at(s, x).kind
      /\ \A x \in Ino : getFileByIno(t, x) = getFileByIno(s, x)
  BY FlushedResult
<1> HIDE DEF t
<1>2. \A x \in Entries(s) : x \in Ino /\ fstClus(t, x) = fstClus(s, x)
  BY <1>1, EntriesTyped DEF fstClus
<1>3. Consistent(t) /\ Entries(t) = Entries(s)
  BY <1>1, <1>2, SameView DEF ObjectsHaveEntries
<1>4. QED
  BY <1>1, <1>2, <1>3 DEF Follows, Survive, t

\* write to a file without a cluster takes one first.
LEMMA TakenKeeps ==
    ASSUME NEW s, Consistent(s), NEW i \in Files(s), i \in DOMAIN s.object,
           fstClus(s, i) = 0, freeClusters(s) # {}
    PROVE  LET t == taken(s, i, [k \in Slot |-> Bytes])
           IN  /\ Follows(s, t, {}) /\ DOMAIN t.object = DOMAIN s.object
               /\ Entries(t) = Entries(s) /\ SameBut(s, t, {i}) /\ at(t, i) = at(s, i)
<1> DEFINE content == [k \in Slot |-> Bytes]
           t == taken(s, i, content)
           c == freeCluster(s)
<1>1. content \in [Slot -> Cell] /\ \A k \in Slot : content[k] = Bytes
  BY CellsMade
<1> HIDE DEF content, t
<1>2. /\ c \in Cluster \ s.used /\ t \in State /\ t.used = s.used \cup {c}
      /\ DOMAIN t.object = DOMAIN s.object
      /\ t.object[i] = [s.object[i] EXCEPT !.fst = c]
      /\ \A x \in DOMAIN s.object \ {i} : t.object[x] = s.object[x]
      /\ \A x \in Ino : at(t, x) = IF x[1] = c THEN content[x[2]] ELSE at(s, x)
  BY <1>1, TakenResult DEF Consistent, t
<1> HIDE DEF c
<1>3. \A x \in Ino : x[1] = c => ~inUse(s, x)
  BY <1>2, OtherClustersBare
<1>4. \A x \in Ino : IF x[1] = c THEN ~inUse(t, x) ELSE SameCell(s, t, x)
  BY <1>1, <1>2, Numbers, CellsMade DEF inUse, SameCell
<1>5. \A x \in Entries(s) : x \in Ino /\ x[1] # c
  BY <1>3, EntriesTyped
<1>6. \A x \in Entries(s) \ {i} : SameLink(s, t, x) /\ fstClus(t, x) = fstClus(s, x)
  <2>1. \A x \in Entries(s) : fromIno(t, x) = fromIno(s, x) /\ at(t, x) = at(s, x)
    BY <1>2, <1>5 DEF fromIno
  <2>2. QED
    BY <1>2, <1>5, <2>1 DEF fstClus, getFileByIno, SameLink
<1>7. t.object[i].fst = c /\ t.object[i].dir = s.object[i].dir
  BY <1>2, Loaded DEF Object
<1>8. fstClus(t, i) = c
  BY <1>2, <1>7, Loaded, MetaTyped DEF fstClus
<1>9. ObjectsHaveEntries(t)
  <2>1. \A x \in DOMAIN s.object : x \in Ino /\ inUse(s, x) /\ at(s, x).dir = s.object[x].dir /\ at(t, x) = at(s, x)
    BY <1>2, <1>3, Loaded
  <2>2. QED
    BY <1>2, <1>7, <2>1 DEF ObjectsHaveEntries, inUse
<1>10. Consistent(t) /\ Entries(t) = Entries(s)
  BY <1>2, <1>4, <1>6, <1>8, <1>9, ClusterTaken
<1>11. Follows(s, t, {})
  BY <1>1, <1>2, <1>4, <1>5, <1>10, Numbers, CellsMade DEF Follows, Survive
<1>12. at(t, i) = at(s, i)
  BY <1>2, <1>5 DEF Files
<1>13. QED
  BY <1>2, <1>6, <1>10, <1>11, <1>12 DEF SameBut, t, content

\* resize to nothing.
LEMMA CutKeeps ==
    ASSUME NEW s, Consistent(s), NEW i \in Files(s), i \in DOMAIN s.object
    PROVE  LET t == cut(s, i)
           IN  /\ Follows(s, t, {}) /\ DOMAIN t.object = DOMAIN s.object
               /\ Entries(t) = Entries(s) /\ SameBut(s, t, {i}) /\ at(t, i) = at(s, i)
               /\ fstClus(t, i) = 0
<1> DEFINE c == fstClus(s, i)
           r == released(s, c)
           t == cut(s, i)
           o == [s.object[i] EXCEPT !.fst = 0]
<1>1. i \in Ino /\ s.object[i] \in Object /\ c = s.object[i].fst /\ c \in {0} \cup Cluster
  BY Loaded, MetaTyped DEF Consistent
<1> HIDE DEF c
<1>2. /\ r \in State /\ r.used = s.used \ {c} /\ r.object = s.object
      /\ \A x \in Ino : at(r, x) = IF x[1] = c THEN Bytes ELSE at(s, x)
  BY <1>1, ReleasedResult DEF Consistent
<1>3. o \in Object /\ o.fst = 0 /\ o.dir = s.object[i].dir
  BY <1>1 DEF Object
<1>4. t = [r EXCEPT !.object[i] = o]
  <2>1. t = [r EXCEPT !.object[i].fst = 0]
    BY DEF cut, c
  <2>2. QED
    BY <1>2, <2>1
<1> HIDE DEF r, t, o
<1>5. /\ t \in State /\ t.used = r.used
      /\ DOMAIN t.object = DOMAIN s.object
      /\ t.object[i] = o /\ \A x \in DOMAIN s.object \ {i} : t.object[x] = s.object[x]
      /\ \A x : at(t, x) = at(r, x)
      /\ getFileByIno(t, i) = o
  BY <1>2, <1>3, <1>4, ObjectPut
<1>6. \A x \in Ino : x[1] = c => ~inUse(s, x)
  BY OtherClustersBare DEF c
<1>7. \A x \in Ino : IF x[1] = c THEN ~inUse(t, x) ELSE SameCell(s, t, x)
  BY <1>2, <1>5, CellsMade DEF inUse, SameCell
<1>8. \A x \in Entries(s) : x \in Ino /\ x[1] # c
  BY <1>6, EntriesTyped
<1>9. \A x \in Entries(s) \ {i} : SameLink(s, t, x) /\ fstClus(t, x) = fstClus(s, x)
  <2>1. \A x \in Entries(s) : fromIno(t, x) = fromIno(s, x) /\ at(t, x) = at(s, x)
    BY <1>2, <1>5, <1>8 DEF fromIno
  <2>2. \A x \in DOMAIN s.object \ {i} : t.object[x] = s.object[x]
    BY <1>2, <1>5
  <2>3. QED
    BY <1>5, <1>8, <2>1, <2>2 DEF fstClus, getFileByIno, SameLink
<1>10. fstClus(t, i) = 0
  BY <1>3, <1>5 DEF fstClus
<1>11. ObjectsHaveEntries(t)
  <2>1. \A x \in DOMAIN s.object : x \in Ino /\ inUse(s, x) /\ at(s, x).dir = s.object[x].dir /\ at(t, x) = at(s, x)
    BY <1>2, <1>5, <1>6, Loaded
  <2>2. QED
    BY <1>3, <1>5, <2>1 DEF ObjectsHaveEntries, inUse
<1>12. t.used = s.used \ {fstClus(s, i)} /\ \A x \in Ino : IF x[1] = fstClus(s, i) THEN ~inUse(t, x) ELSE SameCell(s, t, x)
  BY <1>2, <1>5, <1>7 DEF c
<1>13. Consistent(t) /\ Entries(t) = Entries(s)
  BY <1>5, <1>9, <1>10, <1>11, <1>12, ClusterGiven
<1>14. Follows(s, t, {})
  BY <1>2, <1>5, <1>7, <1>8, <1>13, CellsMade DEF Follows, Survive
<1>15. at(t, i) = at(s, i)
  BY <1>2, <1>5, <1>8 DEF Files
<1>16. QED
  BY <1>5, <1>9, <1>10, <1>13, <1>14, <1>15 DEF SameBut, t

\* The entry a new name gets is one that is empty (DirRange allocation in
\* Directory::crtFileInner).
LEMMA FreeSlotResult ==
    ASSUME NEW s, Consistent(s), NEW d \in Dirs(s), freeSlots(s, d) # {}
    PROVE  /\ freeSlot(s, d) \in Ino /\ freeSlot(s, d)[1] = fstClus(s, d)
           /\ at(s, freeSlot(s, d)).kind = "empty" /\ ~inUse(s, freeSlot(s, d))
           /\ freeSlot(s, d) # RootIno /\ freeSlot(s, d) \notin DOMAIN s.object
<1> DEFINE N == {x[2] : x \in freeSlots(s, d)}
<1>1. fstClus(s, d) \in Cluster
  BY DirClusters
<1>2. \A x \in freeSlots(s, d) : /\ x \in Ino /\ x[1] = fstClus(s, d) /\ x[2] \in Slot
                                 /\ x = <<fstClus(s, d), x[2]>> /\ at(s, x).kind = "empty"
  BY <1>1, Numbers DEF freeSlots, slots
<1>3. N \in SUBSET Nat /\ N # {}
  BY <1>2, Numbers
<1>4. PICK x \in freeSlots(s, d) : Min(N) = x[2]
  BY <1>3, MinProperty
<1>5. freeSlot(s, d) = x
  BY <1>2, <1>4 DEF freeSlot
<1>6. freeSlot(s, d) \in Ino /\ freeSlot(s, d)[1] = fstClus(s, d) /\ at(s, freeSlot(s, d)).kind = "empty"
  BY <1>2, <1>5
<1>7. ~inUse(s, freeSlot(s, d))
  BY <1>6 DEF inUse
<1>8. QED
  BY <1>6, <1>7, Numbers, Loaded

\* What crtFileInner leaves: the entry, which names no cluster, and its object.
LEMMA CrtFileResult ==
    ASSUME NEW s, Consistent(s), NEW d \in Dirs(s), freeSlots(s, d) # {},
           NEW n \in Name, NEW isDir \in BOOLEAN,
           NEW i, i = freeSlot(s, d), NEW t, t = crtFileInner(s, d, n, isDir)
    PROVE  /\ t \in State /\ t.used = s.used
           /\ at(t, i) = Entry(n, isDir, 0) /\ \A x \in Ino \ {i} : at(t, x) = at(s, x)
           /\ DOMAIN t.object = DOMAIN s.object \cup {i}
           /\ t.object[i] = [dir |-> isDir, fst |-> 0, stamp |-> 0]
           /\ \A x \in DOMAIN s.object : t.object[x] = s.object[x]
           /\ \A x \in Ino \ {i} : getFileByIno(t, x) = getFileByIno(s, x)
<1> DEFINE e == [s EXCEPT !.cell[i[1]][i[2]] = Entry(n, isDir, 0)]
<1>1. s \in State /\ i \in Ino /\ i # RootIno /\ i \notin DOMAIN s.object
  BY FreeSlotResult DEF Consistent
<1>2. Entry(n, isDir, 0) \in Cell
  BY CellsMade
<1>3. /\ e \in State /\ e.used = s.used /\ e.object = s.object
      /\ at(e, i) = Entry(n, isDir, 0)
      /\ \A x \in Ino \ {i} : at(e, x) = at(s, x)
  BY <1>1, <1>2, PutCell
<1>4. t = load(e, i)
  BY DEF crtFileInner
<1> HIDE DEF e
<1>5. /\ t \in State /\ t.used = e.used /\ DOMAIN t.object = DOMAIN e.object \cup {i}
      /\ \A x : getFileByIno(t, x) = getFileByIno(e, x)
      /\ \A x : at(t, x) = at(e, x)
      /\ \A x \in DOMAIN t.object : t.object[x] = getFileByIno(e, x)
  BY <1>1, <1>3, <1>4, LoadResult
<1>6. getFileByIno(e, i) = [dir |-> isDir, fst |-> 0, stamp |-> 0]
  <2>1. getFileByIno(e, i) = fromIno(e, i)
    BY <1>1, <1>3 DEF getFileByIno
  <2>2. QED
    BY <1>3, <2>1 DEF fromIno, Entry
<1>7. \A x \in Ino \ {i} : getFileByIno(e, x) = getFileByIno(s, x)
  <2>1. \A x \in Ino \ {i} : fromIno(e, x) = fromIno(s, x)
    BY <1>3 DEF fromIno
  <2>2. QED
    BY <1>3, <2>1 DEF getFileByIno
<1>8. \A x \in DOMAIN s.object : t.object[x] = s.object[x]
  BY <1>1, <1>3, <1>5, <1>7, Loaded
<1>9. QED
  BY <1>3, <1>5, <1>6, <1>7, <1>8

\* A file is made.
LEMMA CrtFileKeeps ==
    ASSUME NEW s, Consistent(s), NEW d \in Dirs(s), freeSlots(s, d) # {},
           NEW n \in Name, NEW b \in BOOLEAN, ~b
    PROVE  LET t == crtFileInner(s, d, n, b)
               i == freeSlot(s, d)
           IN  /\ Follows(s, t, {}) /\ i \in Files(t) /\ fstClus(t, i) = 0
               /\ DOMAIN t.object = DOMAIN s.object \cup {i}
               /\ Entries(t) = Entries(s) \cup {i} /\ SameBut(s, t, {}) /\ at(t, i).name = n
<1> DEFINE t == crtFileInner(s, d, n, b)
           i == freeSlot(s, d)
<1>1. i \in Ino /\ i[1] = fstClus(s, d) /\ ~inUse(s, i) /\ i # RootIno
  BY FreeSlotResult
<1> HIDE DEF t, i
<1>2. /\ t \in State /\ t.used = s.used
      /\ at(t, i) = Entry(n, b, 0) /\ \A x \in Ino \ {i} : at(t, x) = at(s, x)
      /\ DOMAIN t.object = DOMAIN s.object \cup {i}
      /\ t.object[i] = [dir |-> b, fst |-> 0, stamp |-> 0]
      /\ \A x \in DOMAIN s.object : t.object[x] = s.object[x]
      /\ \A x \in Ino \ {i} : getFileByIno(t, x) = getFileByIno(s, x)
  BY CrtFileResult DEF t, i
<1>3. inUse(t, i) /\ at(t, i).name = n /\ at(t, i).dir = b /\ ~at(t, i).dir
  BY <1>2, CellsMade DEF inUse
<1>4. fstClus(t, i) = 0
  <2>1. getFileByIno(t, i) = t.object[i]
    BY <1>1, <1>2, MetaTyped
  <2>2. QED
    BY <1>2, <2>1 DEF fstClus
<1>5. \A x \in Ino \ {i} : SameCell(s, t, x)
  BY <1>2 DEF SameCell, inUse
<1>6. \A x \in Entries(s) : /\ x \in Ino \ {i} /\ SameLink(s, t, x)
                            /\ fstClus(t, x) = fstClus(s, x)
  BY <1>1, <1>2, EntriesTyped DEF fstClus, SameLink
<1>7. ObjectsHaveEntries(t)
  <2>1. \A x \in DOMAIN s.object : x \in Ino \ {i} /\ inUse(s, x) /\ at(s, x).dir = s.object[x].dir
    BY <1>1, Loaded
  <2>2. \A x \in DOMAIN s.object : inUse(t, x) /\ at(t, x).dir = t.object[x].dir
    BY <1>2, <1>5, <2>1 DEF SameCell
  <2>3. QED
    BY <1>2, <1>3, <2>2 DEF ObjectsHaveEntries
<1>8. Consistent(t) /\ Entries(t) = Entries(s) \cup {i}
  BY <1>1, <1>2, <1>3, <1>4, <1>5, <1>6, <1>7, FileEntered
<1>9. Follows(s, t, {})
  BY <1>2, <1>3, <1>5, <1>6, <1>8 DEF Follows, Survive, inUse
<1>10. i \in Files(t)
  BY <1>3, <1>8 DEF Files
<1>11. QED
  BY <1>2, <1>3, <1>4, <1>6, <1>8, <1>9, <1>10 DEF SameBut, t, i

\* The first cluster of a new directory.
dots(s, d) == [k \in Slot |-> CASE k = 0 -> Entry(Dot, TRUE, freeCluster(s))
                                [] k = 1 -> Entry(DotDot, TRUE, fstClus(s, d))
                                [] OTHER -> Blank]

\* Two of its entries are in use, and neither is a name of a file.
LEMMA DotsResult ==
    ASSUME NEW s, Consistent(s), NEW d \in Dirs(s), freeCluster(s) \in Cluster
    PROVE  /\ dots(s, d) \in [Slot -> Cell]
           /\ \A k \in Slot : /\ dots(s, d)[k].kind = "entry" <=> k \in {0, 1}
                              /\ dots(s, d)[k].kind = "entry" => dots(s, d)[k].name \notin Name
                              /\ dots(s, d)[k].kind # "spoiled"
<1>1. fstClus(s, d) \in Cluster
  BY DirClusters
<1> DEFINE own == Entry(Dot, TRUE, freeCluster(s))
           parent == Entry(DotDot, TRUE, fstClus(s, d))
<1>2. \A k \in Slot : dots(s, d)[k] = CASE k = 0 -> own [] k = 1 -> parent [] OTHER -> Blank
  BY DEF dots
<1>3. own \in Cell /\ own.kind = "entry" /\ own.name = Dot
  BY ObjectAssumption DEF Entry, Cell, Stamp
<1>4. parent \in Cell /\ parent.kind = "entry" /\ parent.name = DotDot
  BY <1>1, ObjectAssumption DEF Entry, Cell, Stamp
<1> HIDE DEF own, parent
<1>5. ASSUME NEW k \in Slot
      PROVE  /\ dots(s, d)[k] \in Cell
             /\ dots(s, d)[k].kind = "entry" <=> k \in {0, 1}
             /\ dots(s, d)[k].kind = "entry" => dots(s, d)[k].name \notin Name
             /\ dots(s, d)[k].kind # "spoiled"
  <2>1. CASE k = 0
    <3>1. dots(s, d)[k] = own
      BY <1>2, <2>1
    <3>2. QED
      BY <1>3, <2>1, <3>1, SpecialNames
  <2>2. CASE k = 1
    <3>1. dots(s, d)[k] = parent
      BY <1>2, <2>2
    <3>2. QED
      BY <1>4, <2>2, <3>1, SpecialNames
  <2>3. CASE k # 0 /\ k # 1
    <3>1. dots(s, d)[k] = Blank
      BY <1>2, <2>3
    <3>2. QED
      BY <2>3, <3>1, CellsMade
  <2>4. QED
    BY <2>1, <2>2, <2>3
<1>6. dots(s, d) \in [Slot -> Cell]
  BY <1>5 DEF dots
<1>7. QED
  BY <1>5, <1>6

\* The name n is made in t at i; a directory gets a cluster of its own, with
\* nothing named in it and no object.
NameMade(s, t, i, n, isDir) ==
    /\ Follows(s, t, {}) /\ i \in Entries(t) /\ (at(t, i).dir <=> isDir)
    /\ DOMAIN t.object = DOMAIN s.object \cup {i}
    /\ isDir => \A x \in Ino : x[1] = fstClus(t, i) /\ x[2] > 1 => ~inUse(t, x)
    /\ isDir => \A x \in DOMAIN t.object : x[1] # fstClus(t, i)
    /\ Entries(t) = Entries(s) \cup {i} /\ SameBut(s, t, {}) /\ at(t, i).name = n
    /\ ~isDir => fstClus(t, i) = 0

\* A directory is made.
LEMMA CrtDirKeeps ==
    ASSUME NEW s, Consistent(s), NEW d \in Dirs(s), freeSlots(s, d) # {}, freeClusters(s) # {},
           NEW n \in Name, NEW b \in BOOLEAN
    PROVE  b => NameMade(s, taken(crtFileInner(s, d, n, b), freeSlot(s, d), dots(s, d)),
                         freeSlot(s, d), n, b)
<1> DEFINE i == freeSlot(s, d)
           c == freeCluster(s)
           m == crtFileInner(s, d, n, b)
           t == taken(m, i, dots(s, d))
<1>1. i \in Ino /\ i[1] = fstClus(s, d) /\ ~inUse(s, i) /\ i # RootIno
  BY FreeSlotResult
<1> HIDE DEF m, i
<1>2. /\ m \in State /\ m.used = s.used
      /\ at(m, i) = Entry(n, b, 0) /\ \A x \in Ino \ {i} : at(m, x) = at(s, x)
      /\ DOMAIN m.object = DOMAIN s.object \cup {i}
      /\ m.object[i] = [dir |-> b, fst |-> 0, stamp |-> 0]
      /\ \A x \in DOMAIN s.object : m.object[x] = s.object[x]
      /\ \A x \in Ino \ {i} : getFileByIno(m, x) = getFileByIno(s, x)
  BY CrtFileResult DEF m, i
<1>3. freeClusters(m) = freeClusters(s) /\ freeCluster(m) = c
  BY <1>2 DEF freeClusters, freeCluster
<1>4. c \in Cluster \ s.used
  <2>1. freeClusters(s) \in SUBSET Nat
    BY Numbers DEF freeClusters
  <2>2. QED
    BY <2>1, MinProperty DEF freeClusters, freeCluster
<1>5. /\ dots(s, d) \in [Slot -> Cell]
      /\ \A k \in Slot : /\ dots(s, d)[k].kind = "entry" <=> k \in {0, 1}
                         /\ dots(s, d)[k].kind = "entry" => dots(s, d)[k].name \notin Name
                         /\ dots(s, d)[k].kind # "spoiled"
  BY <1>4, DotsResult
<1> HIDE DEF c, t
<1>6. /\ t \in State /\ t.used = s.used \cup {c}
      /\ DOMAIN t.object = DOMAIN m.object
      /\ t.object[i] = [m.object[i] EXCEPT !.fst = c]
      /\ \A x \in DOMAIN m.object \ {i} : t.object[x] = m.object[x]
      /\ \A x \in Ino : at(t, x) = IF x[1] = c THEN dots(s, d)[x[2]] ELSE at(m, x)
  BY <1>2, <1>3, <1>5, TakenResult DEF t
<1>7. i[1] # c /\ i \notin DOMAIN s.object
  BY <1>1, <1>4, DirClusters, Loaded
<1>8. t.object[i].fst = c /\ t.object[i].dir = b
  BY <1>2, <1>6
<1>9. inUse(t, i) /\ at(t, i).name = n /\ at(t, i).dir = b
  BY <1>1, <1>2, <1>6, <1>7, CellsMade DEF inUse
<1> HAVE b
<1>10. at(t, i).dir
  BY <1>9
<1>11. fstClus(t, i) = c
  BY <1>1, <1>2, <1>6, <1>8, MetaTyped DEF fstClus
<1>12. \A x \in Ino : x[1] = c => /\ inUse(t, x) <=> x[2] \in {0, 1}
                                  /\ inUse(t, x) => at(t, x).name \notin Name
  BY <1>5, <1>6, Numbers DEF inUse
<1>13. \A x \in Ino \ {i} : x[1] # c => at(t, x) = at(s, x) /\ SameCell(s, t, x)
  BY <1>2, <1>6 DEF SameCell, inUse
<1>14. \A x \in Entries(s) : x \in Ino \ {i} /\ x[1] # c
  BY <1>1, <1>4, OtherClustersBare, EntriesTyped
<1>15. \A x \in Entries(s) : SameLink(s, t, x) /\ fstClus(t, x) = fstClus(s, x)
  <2>1. \A x \in Entries(s) : fromIno(t, x) = fromIno(s, x) /\ at(t, x) = at(s, x)
    BY <1>13, <1>14 DEF fromIno
  <2>2. QED
    BY <1>2, <1>6, <1>14, <2>1 DEF fstClus, getFileByIno, SameLink
<1>16. \A x \in DOMAIN s.object : x \in Ino \ {i} /\ x[1] # c
  BY <1>1, <1>4, OtherClustersBare, Loaded
<1>17. ObjectsHaveEntries(t)
  <2>1. \A x \in DOMAIN s.object : inUse(s, x) /\ at(s, x).dir = s.object[x].dir
    BY Loaded
  <2>2. \A x \in DOMAIN s.object : inUse(t, x) /\ at(t, x).dir = t.object[x].dir
    BY <1>2, <1>6, <1>13, <1>16, <2>1 DEF SameCell
  <2>3. inUse(t, i) /\ at(t, i).dir = t.object[i].dir
    BY <1>8, <1>9
  <2>4. \A x \in DOMAIN t.object : x = i \/ x \in DOMAIN s.object
    BY <1>2, <1>6
  <2>5. QED
    BY <2>2, <2>3, <2>4 DEF ObjectsHaveEntries
<1>18. Consistent(t) /\ Entries(t) = Entries(s) \cup {i}
  BY <1>1, <1>4, <1>6, <1>9, <1>10, <1>11, <1>12, <1>13, <1>15, <1>17, DirEntered
<1>19. Follows(s, t, {})
  <2>1. \A x \in Ino : at(t, x).kind = "spoiled" => at(s, x).kind = "spoiled"
    <3>1. \A x \in Ino : x[1] = c => at(t, x).kind # "spoiled"
      BY <1>5, <1>6, Numbers
    <3>2. at(t, i).kind # "spoiled"
      BY <1>9 DEF inUse
    <3>3. QED
      BY <1>13, <3>1, <3>2
  <2>2. QED
    BY <1>2, <1>6, <1>13, <1>14, <1>18, <2>1 DEF Follows, Survive
<1>20. \A x \in Ino : x[1] = c /\ x[2] > 1 => ~inUse(t, x)
  BY <1>12, Numbers
<1>21. \A x \in DOMAIN t.object : x[1] # c
  BY <1>2, <1>6, <1>7, <1>16
<1>22. QED
  <2>1. NameMade(s, t, i, n, b)
    BY <1>2, <1>6, <1>9, <1>10, <1>11, <1>15, <1>18, <1>19, <1>20, <1>21 DEF SameBut, NameMade
  <2>2. QED
    BY <2>1 DEF t, m, i

\* A file, or a directory in which nothing is named and no object is cached,
\* is destroyed.
LEMMA SelfDestructKeeps ==
    ASSUME NEW s, Consistent(s), NEW i \in Entries(s),
           at(s, i).dir => /\ \A x \in Ino : x[1] = fstClus(s, i) /\ x[2] > 1 => ~inUse(s, x)
                           /\ \A x \in DOMAIN s.object : x[1] # fstClus(s, i)
    PROVE  LET t == selfDestruct(s, i)
           IN  Follows(s, t, {i}) /\ Entries(t) = Entries(s) \ {i} /\ SameBut(s, t, {i})
<1> DEFINE c == fstClus(s, i)
           m == [s EXCEPT !.cell[i[1]][i[2]] = Blank]
           r == released(m, c)
           t == selfDestruct(s, i)
<1>1. s \in State /\ i \in Ino /\ inUse(s, i) /\ c \in {0} \cup Cluster
  BY EntriesTyped, MetaTyped DEF Consistent
<1>2. \A x \in DOMAIN s.object : /\ x \in Ino /\ inUse(s, x) /\ x[1] # c
                                 /\ at(s, x).dir = s.object[x].dir
  BY OtherClustersBare, Loaded DEF Files
<1>3. \A x \in Entries(s) : x \in Ino /\ x[1] # c
  BY NothingInside, EntriesTyped
<1> HIDE DEF c
<1>4. /\ m \in State /\ m.used = s.used /\ m.object = s.object
      /\ at(m, i) = Blank /\ \A x \in Ino \ {i} : at(m, x) = at(s, x)
  BY <1>1, CellsMade, PutCell
<1> HIDE DEF m
<1>5. /\ r \in State /\ r.used = s.used \ {c} /\ r.object = s.object
      /\ \A x \in Ino : at(r, x) = IF x[1] = c THEN Bytes ELSE at(m, x)
  <2>1. m \in State /\ c \in {0} \cup Cluster
    BY <1>1, <1>4
  <2>2. /\ r \in State /\ r.used = m.used \ {c} /\ r.object = m.object
        /\ \A x \in Ino : at(r, x) = IF x[1] = c THEN Bytes ELSE at(m, x)
    BY <2>1, ReleasedResult, Zenon
  <2>3. QED
    BY <1>4, <2>2
<1>6. t = rmFileFromCacheByIno(r, i)
  BY DEF selfDestruct, m, c
<1> HIDE DEF r, t
<1>7. /\ t \in State /\ t.used = r.used
      /\ DOMAIN t.object = DOMAIN s.object \ {i}
      /\ \A x \in DOMAIN s.object \ {i} : t.object[x] = s.object[x]
      /\ \A x : at(t, x) = at(r, x)
  BY <1>5, <1>6, RmResult
<1>8. \A x \in Ino : x # i /\ x[1] # c => at(t, x) = at(s, x)
  BY <1>4, <1>5, <1>7
<1>9. \A x \in Ino : x = i \/ x[1] = c => ~inUse(t, x)
  BY <1>4, <1>5, <1>7, CellsMade DEF inUse
<1>10. \A x \in Ino : x # i /\ x[1] # c => SameCell(s, t, x)
  BY <1>8 DEF SameCell, inUse
<1>11. \A x \in Entries(s) \ {i} : SameLink(s, t, x) /\ fstClus(t, x) = fstClus(s, x)
  <2>1. \A x \in Entries(s) \ {i} : fromIno(t, x) = fromIno(s, x) /\ at(t, x) = at(s, x)
    BY <1>3, <1>8 DEF fromIno
  <2>2. QED
    BY <1>3, <1>7, <2>1 DEF fstClus, getFileByIno, SameLink
<1>12. ObjectsHaveEntries(t)
  BY <1>2, <1>7, <1>10 DEF ObjectsHaveEntries, SameCell
<1>13. t.used = s.used \ {fstClus(s, i)}
  BY <1>5, <1>7 DEF c
<1>14. \A x \in Ino : IF x = i \/ x[1] = fstClus(s, i) THEN ~inUse(t, x) ELSE SameCell(s, t, x)
  BY <1>9, <1>10 DEF c
<1>15. Consistent(t) /\ Entries(t) = Entries(s) \ {i}
  BY <1>7, <1>11, <1>12, <1>13, <1>14, EntryErased
<1>16. QED
  <2>1. \A x \in Ino : at(t, x).kind = "spoiled" => at(s, x).kind = "spoiled"
    BY <1>4, <1>5, <1>7, CellsMade
  <2>2. QED
    BY <1>3, <1>7, <1>10, <1>11, <1>15, <2>1 DEF Follows, Survive, SameBut, t

\* A new name, of either kind (FAT32fs::crtFile and crtDir).
LEMMA CreateKeeps ==
    ASSUME NEW s, Consistent(s), NEW d \in Dirs(s), NEW n \in Name, NEW isDir \in BOOLEAN,
           Fits(s, d, isDir)
    PROVE  NameMade(s, create(s, d, n, isDir), freeSlot(s, d), n, isDir)
<1>1. freeSlots(s, d) # {} /\ (isDir => freeClusters(s) # {})
  BY DEF Fits
<1>2. CASE isDir
  <2>1. isDir = TRUE
    BY <1>2
  <2>2. create(s, d, n, isDir) = crtDir(s, d, n)
    BY <1>2 DEF create
  <2>3. crtDir(s, d, n) = taken(crtFileInner(s, d, n, TRUE), freeSlot(s, d), dots(s, d))
    BY DEF crtDir, dots
  <2>4. create(s, d, n, isDir) = taken(crtFileInner(s, d, n, isDir), freeSlot(s, d), dots(s, d))
    BY <2>1, <2>2, <2>3, Zenon
  <2>5. NameMade(s, taken(crtFileInner(s, d, n, isDir), freeSlot(s, d), dots(s, d)),
                 freeSlot(s, d), n, isDir)
    BY <1>1, <1>2, CrtDirKeeps, Zenon
  <2>6. QED
    BY <2>4, <2>5
<1>3. CASE ~isDir
  <2>1. isDir = FALSE
    BY <1>3
  <2>2. create(s, d, n, isDir) = crtFileInner(s, d, n, FALSE)
    BY <1>3 DEF create
  <2>3. create(s, d, n, isDir) = crtFileInner(s, d, n, isDir)
    BY <2>1, <2>2, Zenon
  <2> DEFINE t == crtFileInner(s, d, n, isDir)
             i == freeSlot(s, d)
  <2>4. /\ Follows(s, t, {}) /\ i \in Files(t) /\ fstClus(t, i) = 0
        /\ DOMAIN t.object = DOMAIN s.object \cup {i}
        /\ Entries(t) = Entries(s) \cup {i} /\ SameBut(s, t, {}) /\ at(t, i).name = n
    BY <1>1, <1>3, CrtFileKeeps, Zenon
  <2> HIDE DEF t, i
  <2>5. i \in Entries(t) /\ ~at(t, i).dir
    BY <2>4 DEF Files
  <2>6. create(s, d, n, isDir) = t
    BY <2>3 DEF t
  <2>7. QED
    BY <1>3, <2>4, <2>5, <2>6 DEF NameMade, i
<1>4. QED
  BY <1>2, <1>3

\* A directory for which there is no cluster: its entry is erased again, and
\* the object that is left writes nothing.
LEMMA RefusedKeeps ==
    ASSUME NEW s, Consistent(s), NEW d \in Dirs(s), freeSlots(s, d) # {}, NEW n \in Name,
           NEW b \in BOOLEAN
    PROVE  LET made == crtFileInner(s, d, n, b)
               i == freeSlot(s, d)
               t == written(selfDestruct(made, i), i, made.object[i])
           IN  Follows(s, t, {}) /\ Entries(t) = Entries(s) /\ SameBut(s, t, {})
<1> DEFINE m == crtFileInner(s, d, n, b)
           i == freeSlot(s, d)
           e == [m EXCEPT !.cell[i[1]][i[2]] = Blank]
           r == released(e, fstClus(m, i))
           k == selfDestruct(m, i)
           t == written(k, i, m.object[i])
<1>1. i \in Ino /\ ~inUse(s, i) /\ i # RootIno /\ i \notin DOMAIN s.object
  BY FreeSlotResult
<1> HIDE DEF m, i
<1>2. /\ m \in State /\ m.used = s.used
      /\ \A x \in Ino \ {i} : at(m, x) = at(s, x)
      /\ DOMAIN m.object = DOMAIN s.object \cup {i}
      /\ m.object[i] = [dir |-> b, fst |-> 0, stamp |-> 0]
      /\ \A x \in DOMAIN s.object : m.object[x] = s.object[x]
      /\ \A x \in Ino \ {i} : getFileByIno(m, x) = getFileByIno(s, x)
  BY CrtFileResult DEF m, i
<1>3. fstClus(m, i) = 0 /\ m.object[i] \in Object
  BY <1>1, <1>2, MetaTyped, StateParts DEF fstClus
<1>4. /\ e \in State /\ e.used = s.used /\ e.object = m.object
      /\ at(e, i) = Blank /\ \A x \in Ino \ {i} : at(e, x) = at(s, x)
  BY <1>1, <1>2, CellsMade, PutCell
<1>5. r = e
  BY <1>3 DEF released
<1>6. k = rmFileFromCacheByIno(r, i)
  BY DEF selfDestruct
<1> HIDE DEF e, r, k
<1>7. /\ k \in State /\ k.used = s.used /\ DOMAIN k.object = DOMAIN s.object
      /\ \A x \in DOMAIN s.object : k.object[x] = s.object[x]
      /\ at(k, i) = Blank /\ \A x \in Ino \ {i} : at(k, x) = at(s, x)
  <2>1. DOMAIN e.object \ {i} = DOMAIN s.object
    BY <1>1, <1>2, <1>4
  <2>2. /\ k \in State /\ k.used = e.used /\ DOMAIN k.object = DOMAIN e.object \ {i}
        /\ \A x \in DOMAIN e.object \ {i} : k.object[x] = e.object[x]
        /\ \A x : at(k, x) = at(e, x)
    BY <1>4, <1>5, <1>6, RmResult
  <2>3. QED
    BY <1>2, <1>4, <2>1, <2>2
<1> HIDE DEF t
<1>8. /\ t \in State /\ t.used = k.used /\ t.object = k.object
      /\ \A x \in Ino \ {i} : at(t, x) = at(k, x)
      /\ \A x \in Ino : SameCell(k, t, x)
      /\ at(k, i).kind # "bytes" => at(t, i).kind = at(k, i).kind
  BY <1>1, <1>3, <1>7, WrittenResult DEF t
<1>9. ~inUse(t, i)
  BY <1>1, <1>7, <1>8, CellsMade DEF SameCell, inUse
<1>10. \A x \in Ino : SameCell(s, t, x)
  BY <1>1, <1>7, <1>8, <1>9 DEF SameCell, inUse
<1>11. \A x \in Entries(s) : x \in Ino \ {i}
  BY <1>1, EntriesTyped
<1>12. \A x \in Entries(s) : SameLink(s, t, x) /\ fstClus(t, x) = fstClus(s, x)
  <2>1. \A x \in Entries(s) : fromIno(t, x) = fromIno(s, x) /\ at(t, x) = at(s, x)
    BY <1>7, <1>8, <1>11 DEF fromIno
  <2>2. QED
    BY <1>7, <1>8, <1>11, <2>1 DEF fstClus, getFileByIno, SameLink
<1>13. ObjectsHaveEntries(t)
  <2>1. \A x \in DOMAIN s.object : x \in Ino /\ inUse(s, x) /\ at(s, x).dir = s.object[x].dir
    BY Loaded
  <2>2. QED
    BY <1>7, <1>8, <1>10, <2>1 DEF ObjectsHaveEntries, SameCell
<1>14. Consistent(t) /\ Entries(t) = Entries(s)
  BY <1>7, <1>8, <1>10, <1>12, <1>13, SameView
<1>15. Follows(s, t, {})
  <2>1. \A x \in Ino : at(t, x).kind = "spoiled" => at(s, x).kind = "spoiled"
    BY <1>7, <1>8, CellsMade
  <2>2. QED
    BY <1>7, <1>8, <1>10, <1>11, <1>14, <2>1 DEF Follows, Survive
<1>16. SameBut(s, t, {})
  BY <1>12 DEF SameBut
<1>17. QED
  BY <1>14, <1>15, <1>16, Zenon DEF t, k, m, i

\* Two files of one kind exchange their metadata, in their objects and in
\* their entries (File::exchangeMetaData).
LEMMA ExchangeKeeps ==
    ASSUME NEW s, Consistent(s), NEW i \in Entries(s), NEW j \in Entries(s), i # j,
           i \in DOMAIN s.object, j \in DOMAIN s.object, at(s, i).dir = at(s, j).dir
    PROVE  LET t == exchangeMetaData(s, i, j)
           IN  /\ Follows(s, t, {}) /\ Entries(t) = Entries(s)
               /\ DOMAIN t.object = DOMAIN s.object
               /\ fstClus(t, i) = fstClus(s, j) /\ fstClus(t, j) = fstClus(s, i)
               /\ \A x \in Ino : SameCell(s, t, x)
               /\ SameBut(s, t, {i, j})
               /\ getFileByIno(t, i) = getFileByIno(s, j) /\ getFileByIno(t, j) = getFileByIno(s, i)
<1> DEFINE mine == s.object[i]
           other == s.object[j]
           a == [s EXCEPT !.object[i] = other]
           b == [a EXCEPT !.object[j] = mine]
           w == written(b, i, other)
           t == written(w, j, mine)
<1>1. /\ i \in Ino /\ j \in Ino /\ mine \in Object /\ other \in Object
      /\ fstClus(s, i) = mine.fst /\ fstClus(s, j) = other.fst
      /\ getFileByIno(s, i) = mine /\ getFileByIno(s, j) = other
      /\ mine.dir = other.dir
  BY Loaded
<1>2. t = exchangeMetaData(s, i, j)
  BY DEF exchangeMetaData
<1>3. /\ a \in State /\ a.used = s.used /\ DOMAIN a.object = DOMAIN s.object
      /\ a.object[i] = other /\ \A x \in DOMAIN s.object \ {i} : a.object[x] = s.object[x]
      /\ \A x : at(a, x) = at(s, x)
  BY <1>1, ObjectPut DEF Consistent
<1> HIDE DEF a, mine, other
<1>4. /\ b \in State /\ b.used = s.used /\ DOMAIN b.object = DOMAIN s.object
      /\ b.object[j] = mine /\ \A x \in DOMAIN a.object \ {j} : b.object[x] = a.object[x]
      /\ \A x : at(b, x) = at(a, x)
  BY <1>1, <1>3, ObjectPut
<1> HIDE DEF b
<1>5. /\ w \in State /\ w.used = s.used /\ w.object = b.object
      /\ \A x \in Ino \ {i} : at(w, x) = at(b, x)
      /\ \A x \in Ino : SameCell(b, w, x)
      /\ at(b, i).kind # "bytes" => at(w, i).kind = at(b, i).kind
  BY <1>1, <1>4, WrittenResult
<1> HIDE DEF w
<1>6. /\ t \in State /\ t.used = s.used /\ t.object = b.object
      /\ \A x \in Ino \ {j} : at(t, x) = at(w, x)
      /\ \A x \in Ino : SameCell(w, t, x)
      /\ at(w, j).kind # "bytes" => at(t, j).kind = at(w, j).kind
  BY <1>1, <1>5, WrittenResult
<1> HIDE DEF t
<1>7. /\ DOMAIN t.object = DOMAIN s.object /\ t.object[i] = other /\ t.object[j] = mine
      /\ \A x \in DOMAIN s.object \ {i, j} : t.object[x] = s.object[x]
  BY <1>3, <1>4, <1>6
<1>8. \A x \in Ino : SameCell(s, t, x)
  BY <1>3, <1>4, <1>5, <1>6 DEF SameCell, inUse
<1>9. \A x \in Ino \ {i, j} : SameLink(s, t, x) /\ fstClus(t, x) = fstClus(s, x)
  <2>1. \A x \in Ino \ {i, j} : fromIno(t, x) = fromIno(s, x) /\ at(t, x) = at(s, x)
    BY <1>3, <1>4, <1>5, <1>6 DEF fromIno
  <2>2. QED
    BY <1>7, <2>1 DEF fstClus, getFileByIno, SameLink
<1>10. /\ fstClus(t, i) = fstClus(s, j) /\ fstClus(t, j) = fstClus(s, i)
       /\ getFileByIno(t, i) = getFileByIno(s, j) /\ getFileByIno(t, j) = getFileByIno(s, i)
  <2>1. getFileByIno(t, i) = other /\ getFileByIno(t, j) = mine
    BY <1>1, <1>6, <1>7, MetaTyped
  <2>2. QED
    BY <1>1, <2>1 DEF fstClus
<1>11. ObjectsHaveEntries(t)
  <2>1. \A x \in DOMAIN s.object : x \in Ino /\ inUse(s, x) /\ at(s, x).dir = s.object[x].dir
    BY Loaded
  <2>2. \A x \in DOMAIN s.object : t.object[x].dir = s.object[x].dir
    BY <1>1, <1>7 DEF mine, other
  <2>3. QED
    BY <1>7, <1>8, <2>1, <2>2 DEF ObjectsHaveEntries, SameCell
<1>12. \A x \in Entries(s) : x \in Ino
  BY EntriesTyped
<1> DEFINE p == [x \in Ino |-> IF x = i THEN j ELSE IF x = j THEN i ELSE x]
<1>13. p[i] = j /\ p[j] = i /\ \A x \in Ino \ {i, j} : p[x] = x
  BY <1>1
<1> HIDE DEF p
<1>14. \A x \in Entries(s) : /\ p[x] \in Entries(s) /\ p[p[x]] = x
                             /\ at(s, p[x]).dir = at(s, x).dir
                             /\ fstClus(t, x) = fstClus(s, p[x])
  BY <1>9, <1>10, <1>12, <1>13
<1>15. Consistent(t) /\ Entries(t) = Entries(s)
  BY <1>6, <1>8, <1>11, <1>14, Permuted
<1>16. Follows(s, t, {})
  <2>1. at(s, i).kind = "entry" /\ at(s, j).kind = "entry"
    BY EntriesTyped DEF inUse
  <2>2. \A x \in Ino : at(t, x).kind = at(s, x).kind
    BY <1>3, <1>4, <1>5, <1>6, <2>1
  <2>3. QED
    BY <1>7, <1>8, <1>12, <1>15, <2>2 DEF Follows, Survive
<1>17. SameBut(s, t, {i, j})
  BY <1>9, <1>12 DEF SameBut
<1>18. QED
  BY <1>2, <1>7, <1>8, <1>10, <1>15, <1>16, <1>17

-----------------------------------------------------------------------------
(***************************************************************************)
(* The steps.                                                              *)
(***************************************************************************)
\* One method after the other.
LEMMA FollowsOn ==
    ASSUME NEW s, NEW t, NEW u, NEW gone, Follows(s, t, {}), Follows(t, u, gone)
    PROVE  Follows(s, u, gone)
BY DEF Follows, Survive, SameCell, Entries

\* The links outside of E and F stay when one method after the other does so.
LEMMA SameOn ==
    ASSUME NEW s, NEW t, NEW u, NEW E, NEW F, SameBut(s, t, E), SameBut(t, u, F),
           Entries(s) \ E \subseteq Entries(t)
    PROVE  SameBut(s, u, E \cup F)
BY DEF SameBut, SameLink

\* A step that keeps the entries, and the handles or closes all of them.
LEMMA StepTyped ==
    ASSUME IInv, NEW gone, Survive(fs, fs', gone), open' \in {open, {}}
    PROVE  IInv'
<1>1. Cardinality({}) = 0 /\ IsFiniteSet({})
  BY FS_EmptySet
<1>2. HandlesTyped'
  BY <1>1, ObjectAssumption DEF IInv, HandlesTyped
<1>3. QED
  BY <1>2 DEF IInv, Unspoiled, Survive

\* A loaded object leaves everything as it was.
LEMMA LoadFollows ==
    ASSUME NEW s, Consistent(s), NEW i, i = RootIno \/ (i \in Ino /\ inUse(s, i))
    PROVE  Follows(s, load(s, i), {})
<1>1. /\ Consistent(load(s, i))
      /\ \A x : at(load(s, i), x) = at(s, x)
      /\ Entries(load(s, i)) = Entries(s)
      /\ DOMAIN load(s, i).object = DOMAIN s.object \cup ({i} \ {RootIno})
  BY LoadKeeps
<1>2. QED
  BY <1>1 DEF Follows, Survive, SameCell, inUse

\* The first cluster of a directory, and the entries named in it.
LEMMA InDirectory ==
    ASSUME NEW s, Consistent(s), NEW d \in Dirs(s)
    PROVE  /\ d = RootIno \/ (d \in Ino /\ inUse(s, d))
           /\ slots(s, d) \subseteq Ino
           /\ \A x \in named(s, d) : x \in Entries(s) /\ x[1] = fstClus(s, d)
<1>1. fstClus(s, d) \in Cluster
  BY DirClusters
<1>2. slots(s, d) \subseteq Ino /\ \A x \in slots(s, d) : x[1] = fstClus(s, d)
  BY <1>1, Numbers DEF slots
<1>3. QED
  BY <1>2 DEF Dirs, Entries, named

\* What a call finds in a state, and in one that shows the same.
SameLook(s, t) ==
    /\ t.used = s.used
    /\ \A x : /\ at(t, x) = at(s, x)
              /\ getFileByIno(t, x) = getFileByIno(s, x) /\ fstClus(t, x) = fstClus(s, x)

\* The same entries, slots and clusters are found there.
LEMMA SameFound ==
    ASSUME NEW s, NEW t, SameLook(s, t)
    PROVE  /\ Entries(t) = Entries(s) /\ Dirs(t) = Dirs(s) /\ TreeSame(s, t)
           /\ \A d : /\ slots(t, d) = slots(s, d) /\ freeSlots(t, d) = freeSlots(s, d)
                     /\ freeSlot(t, d) = freeSlot(s, d)
           /\ freeClusters(t) = freeClusters(s)
           /\ \A d, isDir : Fits(t, d, isDir) <=> Fits(s, d, isDir)
<1>1. Entries(t) = Entries(s)
  BY DEF SameLook, Entries, inUse
<1>2. Dirs(t) = Dirs(s)
  BY <1>1 DEF SameLook, Dirs
<1>3. ASSUME NEW d
      PROVE  /\ slots(t, d) = slots(s, d) /\ freeSlots(t, d) = freeSlots(s, d)
             /\ freeSlot(t, d) = freeSlot(s, d)
  <2>1. slots(t, d) = slots(s, d)
    BY DEF SameLook, slots
  <2>2. freeSlots(t, d) = freeSlots(s, d)
    BY <2>1 DEF SameLook, freeSlots
  <2>3. QED
    BY <2>1, <2>2 DEF SameLook, freeSlot
<1>4. freeClusters(t) = freeClusters(s)
  BY DEF SameLook, freeClusters
<1>5. TreeSame(s, t)
  BY <1>1 DEF SameLook, TreeSame, SameBut, SameLink
<1>6. QED
  BY <1>1, <1>2, <1>3, <1>4, <1>5 DEF Fits

\* It is the same to the calls when an object is made.
LEMMA LoadLooks ==
    ASSUME NEW s, Consistent(s), NEW i, i = RootIno \/ (i \in Ino /\ inUse(s, i))
    PROVE  SameLook(s, load(s, i))
<1>1. \A x : getFileByIno(load(s, i), x) = getFileByIno(s, x)
  BY LoadResult DEF Consistent
<1>2. QED
  BY <1>1, LoadKeeps DEF SameLook

\* All of that in one.
LEMMA LoadStep ==
    ASSUME NEW s, Consistent(s), NEW i, i = RootIno \/ (i \in Ino /\ inUse(s, i)),
           NEW t, t = load(s, i)
    PROVE  /\ Consistent(t) /\ Follows(s, t, {}) /\ SameLook(s, t)
           /\ DOMAIN t.object = DOMAIN s.object \cup ({i} \ {RootIno})
BY LoadKeeps, LoadFollows, LoadLooks

\* The object of a directory, of another one, and of a file in it are made
\* (the lookups a call begins with).
LEMMA LoadSteps ==
    ASSUME NEW s, Consistent(s), NEW d \in Dirs(s), NEW e \in Dirs(s), NEW i \in Entries(s),
           NEW t, t = load(load(load(s, d), e), i)
    PROVE  /\ Consistent(t) /\ Follows(s, t, {}) /\ SameLook(s, t)
           /\ DOMAIN t.object = DOMAIN s.object \cup ({d, e, i} \ {RootIno})
<1> DEFINE a == load(s, d)
           b == load(a, e)
<1>1. d = RootIno \/ (d \in Ino /\ inUse(s, d))
  BY InDirectory
<1>2. e = RootIno \/ (e \in Ino /\ inUse(s, e))
  BY InDirectory
<1>3. i \in Ino /\ inUse(s, i)
  BY EntriesTyped
<1>4. /\ Consistent(a) /\ Follows(s, a, {}) /\ SameLook(s, a)
      /\ DOMAIN a.object = DOMAIN s.object \cup ({d} \ {RootIno})
  BY <1>1, LoadStep
<1> HIDE DEF a
<1>5. e = RootIno \/ (e \in Ino /\ inUse(a, e))
  BY <1>2, <1>4 DEF SameLook, inUse
<1>6. /\ Consistent(b) /\ Follows(a, b, {}) /\ SameLook(a, b)
      /\ DOMAIN b.object = DOMAIN a.object \cup ({e} \ {RootIno})
  BY <1>4, <1>5, LoadStep
<1> HIDE DEF b
<1>7. i \in Ino /\ inUse(b, i)
  BY <1>3, <1>4, <1>6 DEF SameLook, inUse
<1>8. t = load(b, i)
  BY DEF a, b
<1>9. /\ Consistent(t) /\ Follows(b, t, {}) /\ SameLook(b, t)
      /\ DOMAIN t.object = DOMAIN b.object \cup ({i} \ {RootIno})
  BY <1>6, <1>7, <1>8, LoadStep
<1>10. Follows(s, t, {})
  BY <1>4, <1>6, <1>9, FollowsOn
<1>11. SameLook(s, t)
  BY <1>4, <1>6, <1>9 DEF SameLook
<1>12. QED
  BY <1>4, <1>6, <1>9, <1>10, <1>11

\* The cluster of a directory that is empty, or of a file, holds no names and
\* no other entries behind the first two (isEmpty).
LEMMA NothingNamed ==
    ASSUME NEW s, Consistent(s), NEW i \in Entries(s), at(s, i).dir => isEmpty(s, i)
    PROVE  /\ at(s, i).dir => \A x \in Ino : x[1] = fstClus(s, i) /\ x[2] > 1 => ~inUse(s, x)
           /\ \A x \in Entries(s) : x[1] # fstClus(s, i)
<1>1. ASSUME at(s, i).dir, NEW x \in Ino, x[1] = fstClus(s, i), x[2] > 1
      PROVE  ~inUse(s, x)
  <2>1. x \in slots(s, i)
    BY <1>1, Numbers DEF slots
  <2>2. QED
    BY <1>1, <2>1 DEF isEmpty
<1>2. QED
  BY <1>1, NothingInside

\* No object lies in the cluster of a directory that may go (AwaitDots).
LEMMA NoObjectInside ==
    ASSUME Consistent(fs), AwaitDots, NEW i \in Entries(fs), MayGo(i), at(fs, i).dir
    PROVE  \A x \in DOMAIN fs.object : x[1] # fstClus(fs, i)
<1> SUFFICES ASSUME NEW x \in DOMAIN fs.object, x[1] = fstClus(fs, i)
             PROVE  FALSE
  OBVIOUS
<1>1. x \in Ino
  BY Loaded
<1>2. x \in slots(fs, i)
  BY <1>1, Numbers DEF slots
<1>3. QED
  BY <1>2 DEF MayGo

\* unlink and rmdir.
LEMMA RemoveStep ==
    ASSUME Consistent(fs), AwaitDots, NEW d \in Dirs(fs), NEW i \in named(fs, d), Unlink(d, i)
    PROVE  Follows(fs, fs', {i}) /\ open' = open /\ LinkGone(fs, fs', i)
<1> DEFINE s == load(load(fs, d), i)
           a == load(fs, d)
<1>1. /\ MayGo(i) /\ (at(fs, i).dir => isEmpty(fs, i))
      /\ fs' = selfDestruct(s, i) /\ open' = open
  BY DEF Unlink, Do
<1>2. i \in Entries(fs) /\ i \in Ino /\ inUse(fs, i) /\ (d = RootIno \/ (d \in Ino /\ inUse(fs, d)))
  BY InDirectory, EntriesTyped
<1>3. /\ Consistent(a) /\ Follows(fs, a, {}) /\ SameLook(fs, a)
      /\ DOMAIN a.object = DOMAIN fs.object \cup ({d} \ {RootIno})
  BY <1>2, LoadStep
<1>4. s = load(a, i)
  OBVIOUS
<1> HIDE DEF a, s
<1>5. i \in Ino /\ inUse(a, i)
  BY <1>2, <1>3 DEF SameLook, inUse
<1>6. /\ Consistent(s) /\ Follows(a, s, {}) /\ SameLook(a, s)
      /\ DOMAIN s.object = DOMAIN a.object \cup ({i} \ {RootIno})
  BY <1>3, <1>4, <1>5, LoadStep
<1>7. Follows(fs, s, {}) /\ SameLook(fs, s)
  BY <1>3, <1>6, FollowsOn DEF SameLook
<1>8. i \in Entries(s)
  BY <1>2, <1>7, SameFound
<1>9. /\ at(fs, i).dir => \A x \in Ino : x[1] = fstClus(fs, i) /\ x[2] > 1 => ~inUse(fs, x)
      /\ \A x \in Entries(fs) : x[1] # fstClus(fs, i)
  BY <1>1, <1>2, NothingNamed
<1>10. at(s, i).dir => \A x \in Ino : x[1] = fstClus(s, i) /\ x[2] > 1 => ~inUse(s, x)
  BY <1>7, <1>9 DEF SameLook, inUse
<1>11. at(s, i).dir => \A x \in DOMAIN s.object : x[1] # fstClus(s, i)
  <2> SUFFICES ASSUME at(fs, i).dir, NEW x \in DOMAIN s.object
               PROVE  x[1] # fstClus(fs, i)
    BY <1>7 DEF SameLook
  <2>1. CASE x \in DOMAIN fs.object
    BY <1>1, <1>2, <2>1, NoObjectInside
  <2>2. CASE x \notin DOMAIN fs.object
    <3>1. x = i \/ (x = d /\ d # RootIno)
      BY <1>3, <1>6, <2>2
    <3>2. x \in Entries(fs)
      BY <1>2, <3>1 DEF Dirs
    <3>3. QED
      BY <1>9, <3>2
  <2>3. QED
    BY <2>1, <2>2
<1> DEFINE u == selfDestruct(s, i)
<1>12. Follows(s, u, {i}) /\ Entries(u) = Entries(s) \ {i} /\ SameBut(s, u, {i})
  BY <1>6, <1>8, <1>10, <1>11, SelfDestructKeeps
<1> HIDE DEF u
<1>13. Follows(fs, u, {i})
  BY <1>7, <1>12, FollowsOn
<1>14. LinkGone(fs, u, i)
  <2>1. Entries(s) = Entries(fs) /\ SameBut(fs, s, {})
    BY <1>7, SameFound DEF TreeSame
  <2>2. SameBut(fs, u, {i})
    BY <1>12, <2>1, SameOn
  <2>3. QED
    BY <1>2, <1>9, <1>12, <2>1, <2>2 DEF LinkGone, NoneIn
<1>15. QED
  BY <1>1, <1>13, <1>14 DEF u

\* rename over a file, or over an empty directory.
LEMMA ReplaceStep ==
    ASSUME Consistent(fs), AwaitDots,
           NEW d \in Dirs(fs), NEW i \in named(fs, d), NEW e \in Dirs(fs), NEW m \in Name,
           <<d, at(fs, i).name>> # <<e, m>>,
           NEW j \in lookupFileInner(fs, e, m), at(fs, j).dir = at(fs, i).dir, MayGo(j),
           at(fs, i).dir => isEmpty(fs, j)
    PROVE  LET old == load(load(load(fs, d), e), i)
               u == selfDestruct(exchangeMetaData(load(old, j), j, i), i)
           IN  Follows(fs, u, {i}) /\ (i # e => LinkReplaced(fs, u, i, j))
<1> DEFINE old == load(load(load(fs, d), e), i)
           s == load(old, j)
           t == exchangeMetaData(s, j, i)
<1>1. i \in Entries(fs) /\ i[1] = fstClus(fs, d)
  BY InDirectory
<1>2. j \in Entries(fs) /\ j[1] = fstClus(fs, e) /\ at(fs, j).name = m
  BY InDirectory DEF lookupFileInner
<1>3. i # j
  <2>1. i = j => d = e
    BY <1>1, <1>2, DirsApart
  <2>2. QED
    BY <1>2, <2>1
<1>4. /\ Consistent(old) /\ Follows(fs, old, {}) /\ SameLook(fs, old)
      /\ DOMAIN old.object = DOMAIN fs.object \cup ({d, e, i} \ {RootIno})
  BY <1>1, LoadSteps
<1> HIDE DEF old
<1>5. j \in Ino /\ inUse(old, j)
  BY <1>2, <1>4, EntriesTyped DEF SameLook, inUse
<1>6. /\ Consistent(s) /\ Follows(old, s, {}) /\ SameLook(old, s)
      /\ DOMAIN s.object = DOMAIN old.object \cup ({j} \ {RootIno})
  BY <1>4, <1>5, LoadStep
<1> HIDE DEF s
<1>7. Follows(fs, s, {}) /\ SameLook(fs, s)
  BY <1>4, <1>6, FollowsOn DEF SameLook
<1>8. Entries(s) = Entries(fs) /\ i # RootIno /\ j # RootIno
  BY <1>1, <1>2, <1>7, SameFound, EntriesTyped
<1>9. i \in DOMAIN s.object /\ j \in DOMAIN s.object
  BY <1>4, <1>6, <1>8
<1>10. at(s, j).dir = at(s, i).dir
  BY <1>7 DEF SameLook
<1>11. /\ Follows(s, t, {}) /\ Entries(t) = Entries(s)
       /\ DOMAIN t.object = DOMAIN s.object
       /\ fstClus(t, j) = fstClus(s, i) /\ fstClus(t, i) = fstClus(s, j)
       /\ \A x \in Ino : SameCell(s, t, x)
       /\ SameBut(s, t, {j, i})
       /\ getFileByIno(t, j) = getFileByIno(s, i) /\ getFileByIno(t, i) = getFileByIno(s, j)
  <2>1. Consistent(s) /\ j \in Entries(s) /\ i \in Entries(s) /\ j # i
    BY <1>1, <1>2, <1>3, <1>6, <1>8
  <2>2. QED
    BY <1>9, <1>10, <2>1, ExchangeKeeps
<1> HIDE DEF t
<1>12. fstClus(t, i) = fstClus(fs, j)
  BY <1>7, <1>11 DEF SameLook
<1>13. /\ at(fs, j).dir => \A x \in Ino : x[1] = fstClus(fs, j) /\ x[2] > 1 => ~inUse(fs, x)
       /\ \A x \in Entries(fs) : x[1] # fstClus(fs, j)
  BY <1>2, NothingNamed
<1>14. at(t, i).dir => at(fs, j).dir
  BY <1>1, <1>7, <1>11, EntriesTyped DEF SameCell, SameLook, inUse
<1>15. \A x \in Ino : inUse(t, x) <=> inUse(fs, x)
  BY <1>7, <1>11 DEF SameCell, SameLook, inUse
<1>16. at(t, i).dir => \A x \in Ino : x[1] = fstClus(t, i) /\ x[2] > 1 => ~inUse(t, x)
  BY <1>12, <1>13, <1>14, <1>15
<1>17. at(t, i).dir => \A x \in DOMAIN t.object : x[1] # fstClus(t, i)
  <2> SUFFICES ASSUME at(fs, j).dir, NEW x \in DOMAIN t.object
               PROVE  x[1] # fstClus(fs, j)
    BY <1>12, <1>14
  <2>1. CASE x \in DOMAIN fs.object
    BY <1>2, <2>1, NoObjectInside
  <2>2. CASE x \notin DOMAIN fs.object
    <3>1. x \in {d, e, i, j} \ {RootIno}
      BY <1>4, <1>6, <1>11, <2>2
    <3>2. x \in Entries(fs)
      BY <1>1, <1>2, <3>1 DEF Dirs
    <3>3. QED
      BY <1>13, <3>2
  <2>3. QED
    BY <2>1, <2>2
<1> DEFINE u == selfDestruct(t, i)
<1>18. Follows(t, u, {i}) /\ Entries(u) = Entries(t) \ {i} /\ SameBut(t, u, {i})
  <2>1. Consistent(t) /\ i \in Entries(t)
    BY <1>1, <1>8, <1>11 DEF Follows, Survive
  <2>2. QED
    BY <1>16, <1>17, <2>1, SelfDestructKeeps
<1>19. Follows(fs, t, {})
  BY <1>7, <1>11, FollowsOn
<1> HIDE DEF u
<1>20. Follows(fs, u, {i})
  BY <1>18, <1>19, FollowsOn
<1>21. ASSUME i # e
       PROVE  LinkReplaced(fs, u, i, j)
  <2>1. SameBut(fs, s, {}) /\ Entries(s) = Entries(fs)
    BY <1>7, SameFound DEF TreeSame
  <2>2. SameBut(fs, t, {j, i}) /\ Entries(t) = Entries(fs)
    BY <1>11, <2>1, SameOn
  <2>3. SameBut(fs, u, {i, j})
    BY <1>18, <2>2, SameOn
  <2>4. at(t, j).name = at(fs, j).name /\ getFileByIno(t, j) = getFileByIno(fs, i)
    BY <1>2, <1>7, <1>11, EntriesTyped DEF SameLook, SameCell, inUse
  <2>5. SameLink(t, u, j)
    BY <1>2, <1>3, <1>18, <2>2 DEF SameBut
  <2>6. \E x \in Dirs(fs) \ {i} : j[1] = fstClus(fs, x)
    BY <1>2, <1>21
  <2>7. QED
    BY <1>1, <1>2, <1>3, <1>13, <1>18, <2>2, <2>3, <2>4, <2>5, <2>6
       DEF LinkReplaced, NoneIn, SameLink
<1>22. QED
  BY <1>20, <1>21 DEF u, t, s, old

\* A name that is not found in a directory is the name of none of its entries
\* (lookupFile).
LEMMA FreshName ==
    ASSUME NEW s, NEW d, NEW c, c = fstClus(s, d), NEW n, lookupFileInner(s, d, n) = {}
    PROVE  NoneNamed(s, c, n)
<1> SUFFICES ASSUME NEW x \in Entries(s), x[1] = c, at(s, x).name = n
             PROVE  FALSE
  BY DEF NoneNamed
<1>1. x \in Ino /\ inUse(s, x) /\ at(s, x).name \in Name
  BY EntriesTyped
<1>2. x \in slots(s, d)
  BY <1>1, Numbers DEF slots
<1>3. QED
  BY <1>1, <1>2 DEF lookupFileInner, named

\* rename to a new name.
LEMMA MoveStep ==
    ASSUME Consistent(fs),
           NEW d \in Dirs(fs), NEW i \in named(fs, d), NEW e \in Dirs(fs), NEW m \in Name,
           Fits(fs, e, at(fs, i).dir)
    PROVE  LET old == load(load(load(fs, d), e), i)
               made == create(old, e, m, at(fs, i).dir)
               k == freeSlot(fs, e)
               u == selfDestruct(exchangeMetaData(made, k, i), i)
           IN  /\ Follows(fs, u, {i})
               /\ i # e /\ lookupFileInner(fs, e, m) = {} => LinkMoved(fs, u, i, k)
<1> DEFINE old == load(load(load(fs, d), e), i)
           isDir == at(fs, i).dir
           k == freeSlot(fs, e)
           s == create(old, e, m, isDir)
           t == exchangeMetaData(s, k, i)
<1>1. i \in Entries(fs) /\ i \in Ino /\ inUse(fs, i) /\ i # RootIno
  BY InDirectory, EntriesTyped
<1>2. /\ Consistent(old) /\ Follows(fs, old, {}) /\ SameLook(fs, old)
      /\ DOMAIN old.object = DOMAIN fs.object \cup ({d, e, i} \ {RootIno})
  BY <1>1, LoadSteps
<1> HIDE DEF old
<1>3. /\ Entries(old) = Entries(fs) /\ e \in Dirs(old) /\ Fits(old, e, isDir)
      /\ k = freeSlot(old, e) /\ i \in DOMAIN old.object
  BY <1>1, <1>2, SameFound
<1>4. isDir \in BOOLEAN /\ at(old, i).dir = isDir
  <2>1. at(fs, i) \in Cell
    BY <1>1, CellTyped DEF Consistent
  <2>2. at(fs, i).dir \in BOOLEAN
    BY <2>1 DEF Cell
  <2>3. QED
    BY <1>2, <2>2 DEF SameLook
<1> HIDE DEF isDir, k
<1>5. /\ Follows(old, s, {}) /\ k \in Entries(s) /\ (at(s, k).dir <=> isDir)
      /\ DOMAIN s.object = DOMAIN old.object \cup {k}
      /\ isDir => \A x \in Ino : x[1] = fstClus(s, k) /\ x[2] > 1 => ~inUse(s, x)
      /\ isDir => \A x \in DOMAIN s.object : x[1] # fstClus(s, k)
      /\ Entries(s) = Entries(old) \cup {k} /\ SameBut(old, s, {}) /\ at(s, k).name = m
  BY <1>2, <1>3, <1>4, CreateKeeps DEF NameMade
<1> HIDE DEF s
<1>6. Consistent(s) /\ i \in Entries(s) /\ at(s, i).dir = isDir
  BY <1>1, <1>2, <1>3, <1>4, <1>5 DEF Follows, Survive, SameCell, SameLook, inUse
<1>7. i # k
  <2>1. ~inUse(old, k)
    BY <1>2, <1>3, FreeSlotResult DEF Fits
  <2>2. QED
    BY <1>1, <1>2, <2>1 DEF SameLook, inUse
<1>8. at(s, k).dir = at(s, i).dir
  <2>1. at(s, k) \in Cell
    BY <1>5, <1>6, EntriesTyped, CellTyped DEF Consistent
  <2>2. at(s, k).dir \in BOOLEAN
    BY <2>1 DEF Cell
  <2>3. QED
    BY <1>4, <1>5, <1>6, <2>2
<1>9. /\ Follows(s, t, {}) /\ Entries(t) = Entries(s)
      /\ DOMAIN t.object = DOMAIN s.object
      /\ fstClus(t, i) = fstClus(s, k)
      /\ \A x \in Ino : SameCell(s, t, x)
      /\ SameBut(s, t, {k, i}) /\ getFileByIno(t, k) = getFileByIno(s, i)
  BY <1>3, <1>5, <1>6, <1>7, <1>8, ExchangeKeeps
<1> HIDE DEF t
<1>10. at(t, i).dir = isDir
  BY <1>6, <1>9, EntriesTyped DEF SameCell
<1>11. at(t, i).dir => \A x \in Ino : x[1] = fstClus(t, i) /\ x[2] > 1 => ~inUse(t, x)
  BY <1>5, <1>9, <1>10 DEF SameCell
<1>12. at(t, i).dir => \A x \in DOMAIN t.object : x[1] # fstClus(t, i)
  BY <1>5, <1>9, <1>10
<1> DEFINE u == selfDestruct(t, i)
<1>13. Follows(t, u, {i}) /\ Entries(u) = Entries(t) \ {i} /\ SameBut(t, u, {i})
  <2>1. Consistent(t) /\ i \in Entries(t)
    BY <1>6, <1>9 DEF Follows, Survive
  <2>2. QED
    BY <1>11, <1>12, <2>1, SelfDestructKeeps
<1>14. Follows(fs, t, {})
  BY <1>2, <1>5, <1>9, FollowsOn
<1> HIDE DEF u
<1>15. Follows(fs, u, {i})
  BY <1>13, <1>14, FollowsOn
<1>16. ASSUME i # e, lookupFileInner(fs, e, m) = {}
       PROVE  LinkMoved(fs, u, i, k)
  <2>1. SameBut(fs, old, {}) /\ Entries(old) = Entries(fs)
    BY <1>2, SameFound DEF TreeSame
  <2>2. SameBut(fs, s, {}) /\ Entries(s) = Entries(fs) \cup {k}
    BY <1>5, <2>1, SameOn
  <2>3. k \in Ino /\ k \notin Entries(fs) /\ k[1] = fstClus(fs, e)
    <3>1. k \in Ino /\ k[1] = fstClus(old, e) /\ ~inUse(old, k)
      BY <1>2, <1>3, FreeSlotResult DEF Fits
    <3>2. QED
      BY <1>2, <2>1, <3>1, EntriesTyped DEF SameLook
  <2>4. SameBut(fs, t, {k, i}) /\ Entries(t) = Entries(fs) \cup {k}
    BY <1>9, <2>2, SameOn
  <2>5. SameBut(fs, u, {k, i}) /\ Entries(u) = (Entries(fs) \ {i}) \cup {k}
    <3>1. SameBut(fs, u, {k, i} \cup {i})
      BY <1>13, <2>4, SameOn
    <3>2. {k, i} \cup {i} = {k, i}
      OBVIOUS
    <3>3. QED
      BY <1>7, <1>13, <2>4, <3>1, <3>2
  <2>6. SameBut(fs, u, {i})
    BY <2>3, <2>5 DEF SameBut
  <2>7. SameLink(t, u, k) /\ at(t, k).name = m
    <3>1. SameCell(s, t, k) /\ inUse(s, k)
      BY <1>5, <1>9, <2>3, EntriesTyped
    <3>2. QED
      BY <1>5, <1>7, <1>13, <2>4, <3>1 DEF SameBut, SameCell
  <2>8. getFileByIno(s, i) = getFileByIno(fs, i)
    BY <1>1, <2>2 DEF SameBut, SameLink
  <2>9. NoneNamed(fs, k[1], m)
    BY <1>16, <2>3, FreshName
  <2>10. \E x \in Dirs(fs) \ {i} : k[1] = fstClus(fs, x)
    BY <1>16, <2>3
  <2>11. QED
    BY <1>1, <1>9, <2>3, <2>5, <2>6, <2>7, <2>8, <2>9, <2>10 DEF LinkMoved, SameLink
<1>17. QED
  BY <1>15, <1>16 DEF u, t, s, k, isDir, old

\* A formatted volume: nothing is named, nothing is cached.
LEMMA InitConsistent ==
    ASSUME Init
    PROVE  IInv
<1>1. ASSUME NEW i \in Ino
      PROVE  at(fs, i) = IF i[1] = Root THEN Blank ELSE Bytes
  BY Numbers DEF Init, Formatted, at
<1>2. \A i \in Ino : ~inUse(fs, i)
  BY <1>1, CellsMade DEF inUse
<1>3. Entries(fs) = {}
  BY <1>2 DEF Entries
<1>4. fs \in State
  <2>1. NoObject \in [{} -> Object] /\ {} \in SUBSET Ino
    BY DEF NoObject
  <2>2. NoObject \in Objects
    BY <2>1 DEF Objects
  <2>3. Formatted \in [Cluster -> [Slot -> Cell]]
    BY CellsMade DEF Formatted
  <2>4. QED
    BY <2>2, <2>3, Numbers DEF Init, State
<1>5. ObjectsHaveEntries(fs)
  <2>1. DOMAIN fs.object = {}
    BY DEF Init, NoObject
  <2>2. QED
    BY <2>1 DEF ObjectsHaveEntries
<1>6. UsedOwned(fs)
  <2>1. fs.used = {Root}
    BY DEF Init
  <2>2. QED
    BY <1>3, <2>1 DEF UsedOwned
<1>7. Consistent(fs)
  BY <1>2, <1>3, <1>4, <1>5, <1>6 DEF Consistent, Apart, DirsWhole, EntriesInDirs
<1>8. HandlesTyped
  <2>1. open = {}
    BY DEF Init
  <2>2. Cardinality(open) = 0 /\ IsFiniteSet(open)
    BY <2>1, FS_EmptySet
  <2>3. QED
    BY <2>1, <2>2, ObjectAssumption DEF HandlesTyped
<1>9. QED
  BY <1>1, <1>7, <1>8, CellsMade DEF IInv, Unspoiled

\* open and opendir: the table of handles has room, and the object of a
\* directory is made.
LEMMA OpenStep ==
    ASSUME IInv, NEW i \in Entries(fs), Open(i)
    PROVE  IInv' /\ Survive(fs, fs', {}) /\ TreeSame(fs, fs')
<1> DEFINE rest == DOMAIN fs.object \ Entries(fs)
<1>1. /\ fs' = IF at(fs, i).dir THEN load(fs, i) ELSE fs
      /\ open' = open \cup {i} /\ i \notin open /\ Kept < MaxKept
  BY DEF Open
<1>2. i \in Ino /\ inUse(fs, i)
  BY EntriesTyped
<1>3. Survive(fs, fs', {}) /\ TreeSame(fs, fs')
  <2>1. CASE at(fs, i).dir
    <3>1. Consistent(fs)
      BY DEF IInv
    <3>2. SameLook(fs, load(fs, i)) /\ Follows(fs, load(fs, i), {})
      BY <1>2, <3>1, LoadStep
    <3>3. QED
      BY <1>1, <2>1, <3>2, SameFound DEF Follows
  <2>2. CASE ~at(fs, i).dir
    BY <1>1, <2>2 DEF IInv, Survive, SameCell, TreeSame, SameBut, SameLink
  <2>3. QED
    BY <2>1, <2>2
<1>4. IsFiniteSet(open) /\ Cardinality(open) \in Nat
  BY FS_CardinalityType DEF IInv, HandlesTyped
<1>5. Cardinality(rest) \in Nat
  <2>1. IsFiniteSet(Cluster) /\ IsFiniteSet(Slot)
    BY FS_Interval, ObjectAssumption DEF Cluster, Slot, Root
  <2>2. IsFiniteSet(Ino)
    BY <2>1, FS_Product DEF Ino
  <2>3. rest \subseteq Ino
    BY StateParts DEF IInv, Consistent
  <2>4. QED
    BY <2>2, <2>3, FS_Subset, FS_CardinalityType
<1>6. IsFiniteSet(open') /\ Cardinality(open') = Cardinality(open) + 1
  BY <1>1, <1>4, FS_AddElement
<1>7. Cardinality(open') <= MaxKept
  BY <1>1, <1>4, <1>5, <1>6, ObjectAssumption DEF Kept
<1>8. HandlesTyped'
  BY <1>1, <1>2, <1>6, <1>7 DEF IInv, HandlesTyped
<1>9. QED
  BY <1>3, <1>8 DEF IInv, Unspoiled, Survive

\* A file that is closed.
LEMMA CloseStep ==
    ASSUME IInv, NEW h \in open, Close(h)
    PROVE  IInv' /\ Survive(fs, fs', {}) /\ TreeSame(fs, fs')
<1>1. fs' = fs /\ open' = open \ {h}
  BY DEF Close
<1>2. IsFiniteSet(open) /\ Cardinality(open) \in Nat /\ Cardinality(open) <= MaxKept
  BY FS_CardinalityType DEF IInv, HandlesTyped
<1>3. IsFiniteSet(open') /\ Cardinality(open') = Cardinality(open) - 1
  BY <1>1, <1>2, FS_RemoveElement
<1>4. Cardinality(open') <= MaxKept
  BY <1>2, <1>3, ObjectAssumption
<1>5. Survive(fs, fs', {}) /\ TreeSame(fs, fs')
  BY <1>1 DEF IInv, Survive, SameCell, TreeSame, SameBut, SameLink
<1>6. QED
  BY <1>1, <1>3, <1>4, <1>5 DEF IInv, Unspoiled, HandlesTyped

\* The calls on an object that is made first: lookup, and those on a file.
LEMMA ObjectSteps ==
    ASSUME Consistent(fs)
    PROVE  /\ \A d \in Dirs(fs) : \A i \in slots(fs, d) :
                LookUp(i) => Follows(fs, fs', {}) /\ open' = open /\ TreeSame(fs, fs')
           /\ \A i \in Files(fs) :
                Write(i) \/ SetSize(i) \/ SetTime(i) \/ Fsync(i) =>
                    /\ Follows(fs, fs', {}) /\ open' = open
                    /\ TreeSame(fs, fs') \/ LinkChanged(fs, fs', i)
<1>1. ASSUME NEW d \in Dirs(fs), NEW i \in slots(fs, d), LookUp(i)
      PROVE  Follows(fs, fs', {}) /\ open' = open /\ TreeSame(fs, fs')
  <2>1. i \in Ino /\ inUse(fs, i)
    BY <1>1, InDirectory DEF LookUp
  <2>2. fs' = load(fs, i) /\ open' = open
    BY <1>1 DEF LookUp, Do
  <2>3. SameLook(fs, load(fs, i)) /\ Follows(fs, load(fs, i), {})
    BY <2>1, LoadStep
  <2>4. QED
    BY <2>2, <2>3, SameFound
<1>2. ASSUME NEW i \in Files(fs), Write(i) \/ SetSize(i) \/ SetTime(i) \/ Fsync(i)
      PROVE  /\ Follows(fs, fs', {}) /\ open' = open
             /\ TreeSame(fs, fs') \/ LinkChanged(fs, fs', i)
  <2> DEFINE s == load(fs, i)
  <2>1. i \in Entries(fs) /\ i \in Ino /\ inUse(fs, i) /\ i # RootIno
    BY EntriesTyped DEF Files
  <2>2. /\ Consistent(s) /\ Follows(fs, s, {}) /\ SameLook(fs, s)
        /\ DOMAIN s.object = DOMAIN fs.object \cup ({i} \ {RootIno})
    BY <2>1, LoadStep
  <2> HIDE DEF s
  <2>3. i \in Files(s) /\ i \in DOMAIN s.object
    BY <2>1, <2>2, SameFound DEF SameLook, Files
  <2>4. /\ Entries(s) = Entries(fs) /\ SameBut(fs, s, {})
        /\ at(s, i) = at(fs, i) /\ fstClus(s, i) = fstClus(fs, i)
    BY <2>2, SameFound DEF SameLook, TreeSame
  <2>5. ASSUME NEW t, Follows(s, t, {}), i \in DOMAIN t.object, fs' = changed(t, i), open' = open,
               Entries(t) = Entries(s), SameBut(s, t, {i}), at(t, i) = at(s, i),
               fstClus(t, i) \in {fstClus(s, i), 0} \/ fstClus(s, i) = 0
        PROVE  Follows(fs, fs', {}) /\ LinkChanged(fs, fs', i)
    <3>1. /\ Follows(t, fs', {}) /\ Entries(fs') = Entries(t) /\ SameBut(t, fs', {i})
          /\ at(fs', i) = at(t, i) /\ fstClus(fs', i) = fstClus(t, i)
      BY <2>5, ChangedKeeps DEF Follows, Survive
    <3>2. Follows(fs, fs', {})
      BY <2>2, <2>5, <3>1, FollowsOn
    <3>3. SameBut(fs, t, {i})
      BY <2>4, <2>5, SameOn
    <3>4. SameBut(fs, fs', {i})
      BY <2>4, <2>5, <3>1, <3>3, SameOn
    <3>5. QED
      BY <2>4, <2>5, <3>1, <3>2, <3>4 DEF LinkChanged
  <2>6. CASE Write(i)
    <3> DEFINE t == IF fstClus(s, i) = 0 THEN taken(s, i, [k \in Slot |-> Bytes]) ELSE s
    <3>1. fs' = changed(t, i) /\ open' = open
      BY <2>6, Zenon DEF Write, Do, s
    <3>2. fstClus(s, i) = 0 => freeClusters(s) # {}
      BY <2>6, Zenon DEF Write, s
    <3>3. /\ Follows(s, t, {}) /\ i \in DOMAIN t.object
          /\ Entries(t) = Entries(s) /\ SameBut(s, t, {i}) /\ at(t, i) = at(s, i)
          /\ fstClus(t, i) \in {fstClus(s, i), 0} \/ fstClus(s, i) = 0
      <4>1. CASE fstClus(s, i) = 0
        BY <2>2, <2>3, <3>2, <4>1, TakenKeeps
      <4>2. CASE fstClus(s, i) # 0
        BY <2>2, <2>3, <4>2 DEF Follows, Survive, SameCell, SameBut, SameLink
      <4>3. QED
        BY <4>1, <4>2
    <3> HIDE DEF t
    <3>4. QED
      BY <2>5, <3>1, <3>3
  <2>7. CASE SetSize(i)
    <3> DEFINE t == cut(s, i)
    <3>1. fs' = changed(t, i) /\ open' = open
      BY <2>7 DEF SetSize, Do, s
    <3>2. /\ Follows(s, t, {}) /\ i \in DOMAIN t.object
          /\ Entries(t) = Entries(s) /\ SameBut(s, t, {i}) /\ at(t, i) = at(s, i)
          /\ fstClus(t, i) = 0
      BY <2>2, <2>3, CutKeeps
    <3> HIDE DEF t
    <3>3. QED
      BY <2>5, <3>1, <3>2
  <2>8. CASE SetTime(i)
    <3>1. fs' = changed(s, i) /\ open' = open
      BY <2>8 DEF SetTime, Do, s
    <3>2. Follows(s, s, {}) /\ SameBut(s, s, {i})
      BY <2>2 DEF Follows, Survive, SameCell, SameBut, SameLink
    <3>3. QED
      BY <2>3, <2>5, <3>1, <3>2
  <2>9. CASE Fsync(i)
    <3> DEFINE t == written(s, i, s.object[i])
    <3>1. fs' = t /\ open' = open
      BY <2>9 DEF Fsync, Do, s
    <3>2. Follows(s, t, {}) /\ Entries(t) = Entries(s) /\ SameBut(s, t, {})
      BY <2>2, <2>3, WrittenKeeps
    <3> HIDE DEF t
    <3>3. Follows(fs, t, {}) /\ SameBut(fs, t, {})
      BY <2>2, <2>4, <3>2, FollowsOn, SameOn
    <3>4. QED
      BY <2>4, <3>1, <3>2, <3>3 DEF TreeSame
  <2>10. QED
    BY <1>2, <2>6, <2>7, <2>8, <2>9
<1>3. QED
  BY <1>1, <1>2

\* The calls that make a name, or try to.
LEMMA CreateSteps ==
    ASSUME Consistent(fs), NEW d \in Dirs(fs), NEW n \in Name,
           MkdirRefused(d, n) \/ \E isDir \in BOOLEAN : Create(d, n, isDir)
    PROVE  /\ Follows(fs, fs', {}) /\ open' = open
           /\ TreeSame(fs, fs') \/ \E i : LinkMade(fs, fs', i)
<1> DEFINE s == load(fs, d)
           i == freeSlot(fs, d)
<1>1. d = RootIno \/ (d \in Ino /\ inUse(fs, d))
  BY InDirectory
<1>2. Consistent(s) /\ Follows(fs, s, {}) /\ SameLook(fs, s)
  BY <1>1, LoadStep
<1> HIDE DEF s
<1>3. /\ d \in Dirs(s) /\ freeSlots(s, d) = freeSlots(fs, d) /\ freeSlot(s, d) = i
      /\ \A isDir : Fits(s, d, isDir) <=> Fits(fs, d, isDir)
      /\ Entries(s) = Entries(fs) /\ SameBut(fs, s, {})
  BY <1>2, SameFound DEF TreeSame
<1>4. CASE MkdirRefused(d, n)
  <2> DEFINE refused(b) == LET made == crtFileInner(s, d, n, b)
                               k == freeSlot(s, d)
                           IN  written(selfDestruct(made, k), k, made.object[k])
             made == crtFileInner(s, d, n, TRUE)
  <2>1. freeSlots(s, d) # {}
    BY <1>3, <1>4 DEF MkdirRefused
  <2>2. \A b \in BOOLEAN : /\ Follows(s, refused(b), {}) /\ Entries(refused(b)) = Entries(s)
                           /\ SameBut(s, refused(b), {})
    BY <1>2, <1>3, <2>1, RefusedKeeps
  <2>3. fs' = written(selfDestruct(made, i), i, made.object[i]) /\ open' = open
    BY <1>4, Zenon DEF MkdirRefused, Do, s
  <2>4. fs' = refused(TRUE)
    BY <1>3, <2>3, Zenon
  <2> HIDE DEF refused
  <2>5. Follows(s, fs', {}) /\ Entries(fs') = Entries(s) /\ SameBut(s, fs', {})
    BY <2>2, <2>4, Zenon
  <2>6. Follows(fs, fs', {}) /\ SameBut(fs, fs', {})
    BY <1>2, <1>3, <2>5, FollowsOn, SameOn
  <2>7. QED
    BY <1>3, <2>3, <2>5, <2>6 DEF TreeSame
<1>5. ASSUME NEW isDir \in BOOLEAN, Create(d, n, isDir)
      PROVE  Follows(fs, fs', {}) /\ open' = open /\ LinkMade(fs, fs', i)
  <2>1. fs' = create(s, d, n, isDir) /\ open' = open /\ Fits(s, d, isDir)
    BY <1>3, <1>5 DEF Create, Do, s
  <2>2. NameMade(s, fs', i, n, isDir)
    BY <1>2, <1>3, <2>1, CreateKeeps
  <2>3. Follows(fs, fs', {}) /\ SameBut(fs, fs', {})
    BY <1>2, <1>3, <2>2, FollowsOn, SameOn DEF NameMade
  <2>4. i \in Ino /\ i \notin Entries(fs) /\ i[1] = fstClus(fs, d)
    <3>1. i \in Ino /\ i[1] = fstClus(s, d) /\ ~inUse(s, i)
      BY <1>2, <1>3, <2>1, FreeSlotResult DEF Fits
    <3>2. QED
      BY <1>2, <1>3, <3>1, EntriesTyped DEF SameLook
  <2>5. NoneNamed(fs, i[1], n)
    BY <1>5, <2>4, FreshName DEF Create
  <2>6. QED
    BY <1>3, <2>1, <2>2, <2>3, <2>4, <2>5 DEF NameMade, LinkMade
<1>6. QED
  BY <1>4, <1>5

\* rename, which the kernel never asks for into a directory below the one
\* that is moved.
LEMMA RenameStep ==
    ASSUME Consistent(fs), AwaitDots, NEW d \in Dirs(fs), NEW i \in named(fs, d),
           NEW e \in Dirs(fs), NEW m \in Name, Rename(d, i, e, m)
    PROVE  /\ Follows(fs, fs', {i}) /\ open' = open
           /\ \E j : LinkMoved(fs, fs', i, j) \/ LinkReplaced(fs, fs', i, j)
<1> DEFINE old == load(load(load(fs, d), e), i)
           isDir == at(fs, i).dir
           k == freeSlot(fs, e)
           replaced(j) == selfDestruct(exchangeMetaData(load(old, j), j, i), i)
           moved == selfDestruct(exchangeMetaData(create(old, e, m, isDir), k, i), i)
<1>1. <<d, at(fs, i).name>> # <<e, m>> /\ (isDir => e \notin below(fs, i))
  BY Zenon DEF Rename
<1>2. \/ \E j \in lookupFileInner(fs, e, m) :
            at(fs, j).dir = isDir /\ MayGo(j) /\ (isDir => isEmpty(fs, j)) /\ Do(replaced(j))
      \/ lookupFileInner(fs, e, m) = {} /\ Fits(fs, e, isDir) /\ Do(moved)
  BY Zenon DEF Rename
<1>3. i # e
  <2>1. i \in Entries(fs) /\ i # RootIno
    BY InDirectory, EntriesTyped
  <2>2. CASE isDir
    <3>1. i \in Dirs(fs)
      BY <2>1, <2>2 DEF Dirs
    <3>2. i \in below(fs, i)
      BY <3>1 DEF below
    <3>3. QED
      BY <1>1, <2>2, <3>2
  <2>3. CASE ~isDir
    BY <2>1, <2>3 DEF Dirs
  <2>4. QED
    BY <2>2, <2>3
<1>4. ASSUME NEW j \in lookupFileInner(fs, e, m), at(fs, j).dir = isDir, MayGo(j),
             isDir => isEmpty(fs, j), Do(replaced(j))
      PROVE  Follows(fs, fs', {i}) /\ open' = open /\ LinkReplaced(fs, fs', i, j)
  <2>1. Follows(fs, replaced(j), {i}) /\ (i # e => LinkReplaced(fs, replaced(j), i, j))
    BY <1>1, <1>4, ReplaceStep, Zenon
  <2>2. QED
    BY <1>3, <1>4, <2>1 DEF Do
<1>5. ASSUME lookupFileInner(fs, e, m) = {}, Fits(fs, e, isDir), Do(moved)
      PROVE  Follows(fs, fs', {i}) /\ open' = open /\ LinkMoved(fs, fs', i, k)
  <2>1. /\ Follows(fs, moved, {i})
        /\ i # e /\ lookupFileInner(fs, e, m) = {} => LinkMoved(fs, moved, i, k)
    BY <1>5, MoveStep, Zenon
  <2>2. QED
    BY <1>3, <1>5, <2>1 DEF Do
<1> HIDE DEF replaced, moved, k
<1>6. QED
  BY <1>2, <1>4, <1>5

\* An eviction or the end of the mount takes objects away and nothing else.
LEMMA EvictSteps ==
    ASSUME Consistent(fs), (\E i \in DOMAIN fs.object : Evict(i)) \/ Remount
    PROVE  /\ Survive(fs, fs', {}) /\ open' \in {open, {}}
           /\ \A x \in Ino : SameCell(fs, fs', x) /\ getFileByIno(fs', x) = getFileByIno(fs, x)
<1>1. ASSUME NEW i \in DOMAIN fs.object, Evict(i)
      PROVE  /\ Survive(fs, fs', {}) /\ open' \in {open, {}}
             /\ \A x \in Ino : SameCell(fs, fs', x) /\ getFileByIno(fs', x) = getFileByIno(fs, x)
  <2>1. fs' = destroyed(fs, i) /\ open' = open
    BY <1>1 DEF Evict, Do
  <2>2. /\ Survive(fs, destroyed(fs, i), {})
        /\ \A x \in Ino : /\ SameCell(fs, destroyed(fs, i), x)
                          /\ getFileByIno(destroyed(fs, i), x) = getFileByIno(fs, x)
    BY DestroyedKeeps, DestroyedResult
  <2>3. QED
    BY <2>1, <2>2
<1>2. ASSUME Remount
      PROVE  /\ Survive(fs, fs', {}) /\ open' \in {open, {}}
             /\ \A x \in Ino : SameCell(fs, fs', x) /\ getFileByIno(fs', x) = getFileByIno(fs, x)
  <2>1. fs' = flushed(fs) /\ open' = {}
    BY <1>2 DEF Remount
  <2>2. /\ Survive(fs, flushed(fs), {})
        /\ \A x \in Ino : /\ SameCell(fs, flushed(fs), x)
                          /\ getFileByIno(flushed(fs), x) = getFileByIno(fs, x)
    BY FlushedKeeps, FlushedResult
  <2>3. QED
    BY <2>1, <2>2
<1>3. QED
  BY <1>1, <1>2

\* The call that names the entry i and takes it away.
Named(i) ==
    \E d \in Dirs(fs) : Unlink(d, i) \/ \E e \in Dirs(fs), m \in Name : Rename(d, i, e, m)

\* Every other step opens or closes a file, or is a call that loses at most
\* one entry, the one it names.
LEMMA CallSteps ==
    ASSUME IInv, AwaitDots, Next
    PROVE  \/ (\E i \in DOMAIN fs.object : Evict(i)) \/ Remount
           \/ (\E i \in Entries(fs) : Open(i)) \/ (\E h \in open : Close(h))
           \/ Follows(fs, fs', {}) /\ open' = open
           \/ \E i \in Entries(fs) : Named(i) /\ Follows(fs, fs', {i}) /\ open' = open
<1>1. Consistent(fs)
  BY DEF IInv
<1>2. ASSUME NEW d \in Dirs(fs), NEW i \in slots(fs, d), LookUp(i)
      PROVE  Follows(fs, fs', {}) /\ open' = open
  BY <1>1, <1>2, ObjectSteps
<1>3. ASSUME NEW d \in Dirs(fs), NEW n \in Name,
             MkdirRefused(d, n) \/ \E isDir \in BOOLEAN : Create(d, n, isDir)
      PROVE  Follows(fs, fs', {}) /\ open' = open
  BY <1>1, <1>3, CreateSteps
<1>4. ASSUME NEW d \in Dirs(fs), NEW i \in named(fs, d), Unlink(d, i)
      PROVE  i \in Entries(fs) /\ Named(i) /\ Follows(fs, fs', {i}) /\ open' = open
  <2>1. i \in Entries(fs)
    BY <1>1, InDirectory
  <2>2. Follows(fs, fs', {i}) /\ open' = open
    BY <1>1, <1>4, RemoveStep
  <2>3. Named(i)
    BY <1>4, Zenon DEF Named
  <2>4. QED
    BY <2>1, <2>2, <2>3
<1>5. ASSUME NEW d \in Dirs(fs), NEW i \in named(fs, d), NEW e \in Dirs(fs), NEW m \in Name,
             Rename(d, i, e, m)
      PROVE  i \in Entries(fs) /\ Named(i) /\ Follows(fs, fs', {i}) /\ open' = open
  <2>1. i \in Entries(fs)
    BY <1>1, InDirectory
  <2>2. Follows(fs, fs', {i}) /\ open' = open
    BY <1>1, <1>5, RenameStep
  <2>3. Named(i)
    BY <1>5, Zenon DEF Named
  <2>4. QED
    BY <2>1, <2>2, <2>3
<1>6. ASSUME NEW i \in Files(fs), Write(i) \/ SetSize(i) \/ SetTime(i) \/ Fsync(i)
      PROVE  Follows(fs, fs', {}) /\ open' = open
  BY <1>1, <1>6, ObjectSteps
<1>7. QED
  BY <1>2, <1>3, <1>4, <1>5, <1>6 DEF Next

\* The invariant is inductive, for directories that are removed after the
\* objects of their "." and "..".
LEMMA StepKeeps ==
    ASSUME AwaitDots, IInv, [Next]_vars
    PROVE  IInv'
<1>1. CASE UNCHANGED vars
  <2>1. fs' = fs /\ open' = open
    BY <1>1 DEF vars
  <2>2. QED
    BY <2>1 DEF IInv, Unspoiled, HandlesTyped
<1>2. CASE (\E i \in DOMAIN fs.object : Evict(i)) \/ Remount
  <2>1. Survive(fs, fs', {}) /\ open' \in {open, {}}
    BY <1>2, EvictSteps DEF IInv
  <2>2. QED
    BY <2>1, StepTyped
<1>3. CASE \E i \in Entries(fs) : Open(i)
  BY <1>3, OpenStep
<1>4. CASE \E h \in open : Close(h)
  BY <1>4, CloseStep
<1>5. CASE Follows(fs, fs', {}) /\ open' = open
  BY <1>5, StepTyped DEF Follows
<1>6. CASE \E i \in Entries(fs) : Follows(fs, fs', {i}) /\ open' = open
  BY <1>6, StepTyped DEF Follows
<1>7. QED
  BY <1>1, <1>2, <1>3, <1>4, <1>5, <1>6, CallSteps

-----------------------------------------------------------------------------
(***************************************************************************)
(* The refinement.  A name is once in a directory, so that a link is the   *)
(* entry it comes from, and what a call does to the entries and objects is *)
(* a step of the tree.                                                     *)
(***************************************************************************)
\* The link of the entry i, as Tree has it.
link(s, i) ==
    [in |-> i[1], name |-> at(s, i).name, dir |-> getFileByIno(s, i).dir,
     id |-> fstClus(s, i), stamp |-> getFileByIno(s, i).stamp]

NamesOnce(s) ==
    \A i, j \in Entries(s) : i[1] = j[1] /\ at(s, i).name = at(s, j).name => i = j

\* The tree is the set of the links.
LEMMA TreeOfLinks ==
    ASSUME NEW s
    PROVE  Tree(s) = {link(s, i) : i \in Entries(s)}
BY DEF Tree, link, fstClus

\* A link is typed, it says of its entry what the entry and the object say.
LEMMA LinkTyped ==
    ASSUME NEW s, Consistent(s), NEW i \in Entries(s)
    PROVE  /\ link(s, i) \in Abstract!Link
           /\ link(s, i).in = i[1] /\ link(s, i).name = at(s, i).name
           /\ link(s, i).dir = at(s, i).dir /\ link(s, i).id = fstClus(s, i)
           /\ i[1] \in Cluster /\ at(s, i).dir \in BOOLEAN
<1>1. i \in Ino /\ at(s, i).name \in Name /\ i[1] \in Cluster
  BY EntriesTyped, Numbers
<1>2. /\ getFileByIno(s, i) \in Object /\ fstClus(s, i) \in {0} \cup Cluster
      /\ getFileByIno(s, i) = IF i \in DOMAIN s.object THEN s.object[i] ELSE fromIno(s, i)
  BY <1>1, MetaTyped DEF Consistent
<1>3. getFileByIno(s, i).dir = at(s, i).dir
  BY <1>2 DEF fromIno, Consistent, ObjectsHaveEntries
<1>4. /\ getFileByIno(s, i).dir \in BOOLEAN /\ getFileByIno(s, i).stamp \in Stamp
  BY <1>2 DEF Object
<1>5. link(s, i) \in Abstract!Link
  BY <1>1, <1>2, <1>4 DEF link, Abstract!Link
<1>6. QED
  BY <1>1, <1>3, <1>4, <1>5 DEF link

\* The links of two entries differ in their places.
LEMMA LinksApart ==
    ASSUME NEW s, Consistent(s), NamesOnce(s), NEW i \in Entries(s), NEW j \in Entries(s), i # j
    PROVE  ~Abstract!Same(link(s, i), link(s, j)) /\ link(s, i) # link(s, j)
<1>1. /\ link(s, i).in = i[1] /\ link(s, i).name = at(s, i).name
      /\ link(s, j).in = j[1] /\ link(s, j).name = at(s, j).name
  BY LinkTyped
<1>2. QED
  BY <1>1 DEF NamesOnce, Abstract!Same

\* The links a call leaves alone.
LEMMA LinksKept ==
    ASSUME NEW s, NEW t, NEW E, SameBut(s, t, E)
    PROVE  \A x \in Entries(s) \ E : link(t, x) = link(s, x) /\ at(t, x).name = at(s, x).name
BY DEF SameBut, SameLink, link, fstClus

\* The cluster of a directory is the identity of one in the tree, and stays so
\* without the link of another file.
LEMMA DirIds ==
    ASSUME NEW s, Consistent(s), NamesOnce(s), NEW i, i = RootIno \/ i \in Entries(s),
           NEW d \in Dirs(s) \ {i}
    PROVE  /\ fstClus(s, d) \in Abstract!DirIds(Tree(s))
           /\ i \in Entries(s) => fstClus(s, d) \in Abstract!DirIds(Tree(s) \ {link(s, i)})
<1>1. CASE d = RootIno
  BY <1>1, DirClusters DEF Abstract!DirIds
<1>2. CASE d # RootIno
  <2>1. d \in Entries(s) /\ at(s, d).dir
    BY <1>2, DirClusters
  <2>2. link(s, d) \in Tree(s) /\ link(s, d).dir /\ link(s, d).id = fstClus(s, d)
    BY <2>1, TreeOfLinks, LinkTyped
  <2>3. i \in Entries(s) => link(s, d) # link(s, i)
    BY <2>1, LinksApart
  <2>4. QED
    BY <2>2, <2>3 DEF Abstract!DirIds
<1>3. QED
  BY <1>1, <1>2

\* Nothing lies in the directory of a link.
LEMMA EmptyLink ==
    ASSUME NEW s, Consistent(s), NEW i \in Entries(s), NoneIn(s, i)
    PROVE  Abstract!Empty(Tree(s), link(s, i))
<1>1. link(s, i).dir = at(s, i).dir /\ link(s, i).id = fstClus(s, i)
  BY LinkTyped
<1>2. \A x \in Entries(s) : link(s, x).in = x[1]
  BY LinkTyped
<1>3. QED
  BY <1>1, <1>2, TreeOfLinks DEF Abstract!Empty, NoneIn

\* From s to t the tree makes a step or stutters, and names stay unique.
TreeStep(s, t) ==
    /\ NamesOnce(t)
    /\ Tree(t) = Tree(s) \/ Abstract!Step(Tree(s), Tree(s) \ Tree(t), Tree(t) \ Tree(s))

\* Nothing changes.
LEMMA SameStep ==
    ASSUME NEW s, NEW t, NamesOnce(s), TreeSame(s, t)
    PROVE  TreeStep(s, t)
<1>1. \A x \in Entries(s) : link(t, x) = link(s, x) /\ at(t, x).name = at(s, x).name
  BY LinksKept DEF TreeSame
<1>2. Tree(t) = Tree(s)
  BY <1>1, TreeOfLinks DEF TreeSame
<1>3. QED
  BY <1>1, <1>2 DEF TreeStep, NamesOnce, TreeSame

\* unlink, rmdir.
LEMMA GoneStep ==
    ASSUME NEW s, Consistent(s), NamesOnce(s), NEW t, NEW i, LinkGone(s, t, i)
    PROVE  TreeStep(s, t)
<1> DEFINE l == link(s, i)
<1>1. i \in Entries(s) /\ Entries(t) = Entries(s) \ {i} /\ Abstract!Empty(Tree(s), l)
  BY EmptyLink DEF LinkGone
<1>2. \A x \in Entries(s) \ {i} : link(t, x) = link(s, x) /\ at(t, x).name = at(s, x).name
  BY LinksKept DEF LinkGone
<1>3. \A x \in Entries(s) \ {i} : link(s, x) # l
  BY <1>1, LinksApart
<1>4. Tree(s) \ Tree(t) = {l} /\ Tree(t) \ Tree(s) = {}
  BY <1>1, <1>2, <1>3, TreeOfLinks
<1>5. Abstract!Step(Tree(s), {l}, {})
  BY <1>1 DEF Abstract!Step
<1>6. QED
  BY <1>1, <1>2, <1>4, <1>5 DEF TreeStep, NamesOnce

\* create, mkdir: the cluster of a new directory is nobody's.
LEMMA MadeStep ==
    ASSUME NEW s, Consistent(s), NamesOnce(s), NEW t, Consistent(t), NEW i, LinkMade(s, t, i)
    PROVE  TreeStep(s, t)
<1> DEFINE l == link(t, i)
<1>1. i \notin Entries(s) /\ i \in Entries(t) /\ Entries(t) = Entries(s) \cup {i}
  BY DEF LinkMade
<1>2. \A x \in Entries(s) : link(t, x) = link(s, x) /\ at(t, x).name = at(s, x).name
  BY LinksKept DEF LinkMade
<1>3. /\ l.in = i[1] /\ l.name = at(t, i).name /\ l.dir = at(t, i).dir /\ l.id = fstClus(t, i)
      /\ at(t, i).dir \in BOOLEAN
  BY <1>1, LinkTyped
<1> HIDE DEF l
<1>4. \A x \in Entries(s) : ~Abstract!Same(l, link(s, x)) /\ link(s, x) # l
  <2>1. \A x \in Entries(s) : link(s, x).in = x[1] /\ link(s, x).name = at(s, x).name
    BY LinkTyped
  <2>2. QED
    BY <1>3, <2>1 DEF LinkMade, NoneNamed, Abstract!Same
<1>5. l.in \in Abstract!DirIds(Tree(s))
  <2>1. PICK d \in Dirs(s) : i[1] = fstClus(s, d)
    BY DEF LinkMade
  <2>2. CASE d = RootIno
    BY <1>3, <2>1, <2>2, DirClusters DEF Abstract!DirIds
  <2>3. CASE d # RootIno
    BY <1>3, <2>1, <2>3, DirIds
  <2>4. QED
    BY <2>2, <2>3
<1>6. l.dir => Abstract!Fresh(Tree(s), l.id)
  <2> SUFFICES ASSUME at(t, i).dir PROVE Abstract!Fresh(Tree(s), fstClus(t, i))
    BY <1>3
  <2>1. fstClus(t, i) # 0 /\ fstClus(t, i) # Root /\ fstClus(t, i) \in Cluster
    BY <1>1, MetaTyped, EntriesTyped DEF Consistent, DirsWhole, Apart
  <2>2. \A x \in Entries(s) : fstClus(t, x) # fstClus(t, i)
    BY <1>1, <2>1 DEF Consistent, Apart
  <2>3. \A x \in Entries(s) : link(s, x).id # fstClus(t, i)
    BY <1>1, <1>2, <2>2, LinkTyped
  <2>4. QED
    BY <2>1, <2>3, TreeOfLinks DEF Abstract!Fresh
<1>7. ~l.dir => l.id = 0
  BY <1>3 DEF LinkMade
<1>8. Tree(s) \ Tree(t) = {} /\ Tree(t) \ Tree(s) = {l}
  BY <1>1, <1>2, <1>4, TreeOfLinks DEF l
<1>9. Abstract!Make(Tree(s), l)
  <2>1. \A m \in Tree(s) : ~Abstract!Same(l, m)
    BY <1>4, TreeOfLinks
  <2>2. QED
    BY <1>5, <1>6, <1>7, <2>1 DEF Abstract!Make
<1>10. Abstract!Step(Tree(s), {}, {l})
  BY <1>9 DEF Abstract!Step
<1>11. NamesOnce(t)
  <2>1. \A x \in Entries(s) : ~(x[1] = i[1] /\ at(t, x).name = at(t, i).name)
    BY <1>2 DEF LinkMade, NoneNamed
  <2>2. QED
    BY <1>1, <1>2, <2>1 DEF NamesOnce
<1>12. QED
  BY <1>8, <1>10, <1>11 DEF TreeStep

\* write and setattr: the data a file gets was nobody's.
LEMMA ChangedStep ==
    ASSUME NEW s, Consistent(s), NamesOnce(s), NEW t, Consistent(t), NEW i, LinkChanged(s, t, i)
    PROVE  TreeStep(s, t)
<1> DEFINE l == link(s, i)
           m == link(t, i)
<1>1. i \in Entries(s) /\ ~at(s, i).dir /\ Entries(t) = Entries(s) /\ at(t, i) = at(s, i)
  BY DEF LinkChanged, Files
<1>2. /\ \A x \in Entries(s) \ {i} : link(t, x) = link(s, x)
      /\ \A x \in Entries(s) : at(t, x).name = at(s, x).name
  BY <1>1, LinksKept DEF LinkChanged
<1>3. /\ l.in = i[1] /\ l.name = at(s, i).name /\ ~l.dir /\ l.id = fstClus(s, i)
      /\ m.in = i[1] /\ m.name = at(s, i).name /\ ~m.dir /\ m.id = fstClus(t, i)
      /\ fstClus(t, i) \in {0} \cup Cluster
  BY <1>1, LinkTyped, EntriesTyped, MetaTyped DEF Consistent
<1>4. \A x \in Entries(s) \ {i} : link(s, x) # l /\ link(s, x) # m
  <2>1. \A x \in Entries(s) \ {i} : ~Abstract!Same(link(s, x), l)
    BY <1>1, LinksApart
  <2>2. QED
    BY <1>3, <2>1 DEF Abstract!Same
<1>5. m.id \in {l.id, 0} \/ (l.id = 0 /\ Abstract!Fresh(Tree(s), m.id))
  <2> SUFFICES ASSUME fstClus(s, i) = 0, fstClus(t, i) # 0
               PROVE  Abstract!Fresh(Tree(s), fstClus(t, i))
    BY <1>3 DEF LinkChanged
  <2>1. fstClus(t, i) # Root /\ fstClus(t, i) \in Cluster
    BY <1>1, <1>3 DEF Consistent, Apart
  <2>2. \A x \in Entries(s) \ {i} : link(s, x).id # fstClus(t, i)
    <3>1. \A x \in Entries(s) \ {i} : fstClus(t, x) # fstClus(t, i)
      BY <1>1 DEF Consistent, Apart
    <3>2. QED
      BY <1>1, <1>2, <3>1, LinkTyped
  <2>3. l.id # fstClus(t, i)
    BY <1>3
  <2>4. QED
    BY <2>1, <2>2, <2>3, TreeOfLinks DEF Abstract!Fresh
<1>6. Abstract!Change(Tree(s), l, m)
  BY <1>3, <1>5 DEF Abstract!Change, Abstract!Same
<1>7. NamesOnce(t)
  BY <1>1, <1>2 DEF NamesOnce
<1> HIDE DEF l, m
<1>8. CASE l = m
  <2>1. \A x \in Entries(s) : link(t, x) = link(s, x)
    BY <1>2, <1>8 DEF l, m
  <2>2. Tree(t) = Tree(s)
    BY <1>1, <2>1, TreeOfLinks
  <2>3. QED
    BY <1>7, <2>2 DEF TreeStep
<1>9. CASE l # m
  <2>1. Tree(s) \ Tree(t) = {l} /\ Tree(t) \ Tree(s) = {m}
    BY <1>1, <1>2, <1>4, <1>9, TreeOfLinks DEF l, m
  <2>2. Abstract!Step(Tree(s), {l}, {m})
    BY <1>6 DEF Abstract!Step
  <2>3. QED
    BY <1>7, <2>1, <2>2 DEF TreeStep
<1>10. QED
  BY <1>8, <1>9

\* What a link stands for, under another name (exchangeMetaData).
Renamed(l, m) == m = [l EXCEPT !.in = m.in, !.name = m.name]

\* A link that keeps its first cluster under another name is renamed.
LEMMA RenamedLink ==
    ASSUME NEW s, Consistent(s), NEW t, Consistent(t), NEW i \in Entries(s), NEW k \in Entries(t),
           getFileByIno(t, k) = getFileByIno(s, i)
    PROVE  /\ Renamed(link(s, i), link(t, k))
           /\ link(t, k).in = k[1] /\ link(t, k).name = at(t, k).name
           /\ fstClus(t, k) = fstClus(s, i)
<1>1. fstClus(t, k) = fstClus(s, i)
  BY DEF fstClus
<1>2. link(s, i) \in Abstract!Link /\ link(t, k) \in Abstract!Link
  BY LinkTyped
<1>3. /\ link(t, k).dir = link(s, i).dir /\ link(t, k).id = link(s, i).id
      /\ link(t, k).stamp = link(s, i).stamp
      /\ link(t, k).in = k[1] /\ link(t, k).name = at(t, k).name
  BY <1>1 DEF link
<1>4. QED
  BY <1>1, <1>2, <1>3 DEF Abstract!Link, Renamed

\* rename to a name that was not there.
LEMMA MovedStep ==
    ASSUME NEW s, Consistent(s), NamesOnce(s), NEW t, Consistent(t), NEW i, NEW k, LinkMoved(s, t, i, k)
    PROVE  TreeStep(s, t)
<1> DEFINE l == link(s, i)
           m == link(t, k)
<1>1. /\ i \in Entries(s) /\ k \notin Entries(s) /\ k \in Entries(t)
      /\ Entries(t) = (Entries(s) \ {i}) \cup {k}
  BY DEF LinkMoved
<1>2. \A x \in Entries(s) \ {i} : link(t, x) = link(s, x) /\ at(t, x).name = at(s, x).name
  BY LinksKept DEF LinkMoved
<1>3. Renamed(l, m) /\ m.in = k[1] /\ m.name = at(t, k).name
  <2>1. getFileByIno(t, k) = getFileByIno(s, i)
    BY DEF LinkMoved
  <2>2. QED
    BY <1>1, <2>1, RenamedLink
<1>4. \A x \in Entries(s) : ~Abstract!Same(m, link(s, x)) /\ link(s, x) # m
  <2>1. \A x \in Entries(s) : link(s, x).in = x[1] /\ link(s, x).name = at(s, x).name
    BY LinkTyped
  <2>2. QED
    BY <1>3, <2>1 DEF LinkMoved, NoneNamed, Abstract!Same
<1>5. \A x \in Entries(s) \ {i} : link(s, x) # l
  BY <1>1, LinksApart
<1>6. m.in \in Abstract!DirIds(Tree(s) \ {l})
  BY <1>1, <1>3, DirIds DEF LinkMoved
<1>7. Abstract!Move(Tree(s), l, m)
  BY <1>1, <1>3, <1>4, <1>6 DEF Abstract!Move, Abstract!Same, Renamed
<1> HIDE DEF l, m
<1>8. Tree(s) \ Tree(t) = {l} /\ Tree(t) \ Tree(s) = {m}
  BY <1>1, <1>2, <1>4, <1>5, TreeOfLinks DEF l, m
<1>9. \A r \in Tree(s) : ~Abstract!Same(m, r)
  BY <1>4, TreeOfLinks
<1>10. Abstract!Step(Tree(s), {l}, {m})
  BY <1>7, <1>9 DEF Abstract!Step
<1>11. NamesOnce(t)
  <2>1. \A x \in Entries(s) \ {i} : ~(x[1] = k[1] /\ at(t, x).name = at(t, k).name)
    BY <1>2 DEF LinkMoved, NoneNamed
  <2>2. QED
    BY <1>1, <1>2, <2>1 DEF NamesOnce
<1>12. QED
  BY <1>8, <1>10, <1>11 DEF TreeStep

\* rename over a file, or over an empty directory.  Over an empty file, an
\* empty file with its times leaves a tree with one link less.
LEMMA ReplacedStep ==
    ASSUME NEW s, Consistent(s), NamesOnce(s), NEW t, Consistent(t), NEW i, NEW j,
           LinkReplaced(s, t, i, j)
    PROVE  TreeStep(s, t)
<1> DEFINE l == link(s, i)
           r == link(s, j)
           m == link(t, j)
<1>1. /\ i \in Entries(s) /\ j \in Entries(s) /\ i # j /\ j \in Entries(t)
      /\ Entries(t) = Entries(s) \ {i} /\ at(t, j).name = at(s, j).name
      /\ getFileByIno(t, j) = getFileByIno(s, i)
  BY DEF LinkReplaced
<1>2. \A x \in Entries(s) \ {i, j} : link(t, x) = link(s, x) /\ at(t, x).name = at(s, x).name
  BY LinksKept DEF LinkReplaced
<1>3. Renamed(l, m) /\ m.in = j[1] /\ m.name = at(s, j).name
  BY <1>1, RenamedLink
<1>4. r.in = j[1] /\ r.name = at(s, j).name /\ r.dir = at(s, j).dir /\ l.dir = at(s, i).dir
  BY <1>1, LinkTyped
<1>5. Abstract!Same(m, r)
  BY <1>3, <1>4 DEF Abstract!Same
<1>6. \A x \in Entries(s) \ {j} : ~Abstract!Same(link(s, x), r) /\ link(s, x) # r
  BY <1>1, LinksApart
<1>7. \A x \in Entries(s) \ {j} : link(s, x) # m /\ ~Abstract!Same(link(s, x), m)
  BY <1>5, <1>6 DEF Abstract!Same
<1>8. \A x \in Entries(s) \ {i} : link(s, x) # l
  BY <1>1, LinksApart
<1>9. m.in \in Abstract!DirIds(Tree(s) \ {l})
  <2>1. PICK e \in Dirs(s) \ {i} : j[1] = fstClus(s, e)
    BY DEF LinkReplaced
  <2>2. QED
    BY <1>1, <1>3, <2>1, DirIds
<1>10. Abstract!Move(Tree(s), l, m)
  BY <1>1, <1>3, <1>7, <1>9 DEF Abstract!Move, Abstract!Same, Renamed
<1>11. Abstract!Replace(Tree(s), l, m, r)
  <2>1. Abstract!Empty(Tree(s), r) /\ r.dir = l.dir
    BY <1>1, <1>4, EmptyLink DEF LinkReplaced
  <2>2. QED
    BY <1>5, <2>1 DEF Abstract!Replace
<1>12. NamesOnce(t)
  BY <1>1, <1>2 DEF NamesOnce
<1>13. l.dir => l.id # r.id /\ m # r
  <2> SUFFICES ASSUME at(s, i).dir PROVE l.id # r.id /\ m.id # r.id
    BY <1>4
  <2>1. fstClus(s, i) # 0 /\ fstClus(s, i) # fstClus(s, j)
    BY <1>1 DEF Consistent, DirsWhole, Apart
  <2>2. l.id = fstClus(s, i) /\ r.id = fstClus(s, j) /\ m.id = fstClus(t, j)
    BY <1>1, LinkTyped
  <2>3. fstClus(t, j) = fstClus(s, i)
    BY <1>1, RenamedLink
  <2>4. QED
    BY <2>1, <2>2, <2>3
<1> HIDE DEF l, r, m
<1>14. CASE m = r
  <2>1. \A x \in Entries(t) : link(t, x) = link(s, x)
    BY <1>1, <1>2, <1>14 DEF m, r
  <2>2. Tree(s) \ Tree(t) = {l} /\ Tree(t) \ Tree(s) = {}
    BY <1>1, <1>8, <2>1, TreeOfLinks DEF l
  <2>3. Abstract!Step(Tree(s), {l}, {})
    <3>1. Abstract!Empty(Tree(s), l)
      BY <1>13, <1>14 DEF Abstract!Empty
    <3>2. QED
      BY <3>1 DEF Abstract!Step
  <2>4. QED
    BY <1>12, <2>2, <2>3 DEF TreeStep
<1>15. CASE m # r
  <2>1. Tree(s) \ Tree(t) = {l, r} /\ Tree(t) \ Tree(s) = {m}
    <3>1. Tree(s) = {link(s, x) : x \in Entries(s)} /\ Tree(t) = {link(t, x) : x \in Entries(t)}
      BY TreeOfLinks
    <3>2. /\ l \in Tree(s) /\ r \in Tree(s) /\ m \in Tree(t)
          /\ \A x \in Tree(s) : x \in {l, r} \/ \E y \in Entries(s) \ {i, j} : x = link(s, y)
          /\ \A x \in Tree(t) : x = m \/ \E y \in Entries(s) \ {i, j} : x = link(t, y)
          /\ \A y \in Entries(s) \ {i, j} : link(s, y) \in Tree(s) /\ link(t, y) \in Tree(t)
      BY <1>1, <3>1 DEF l, r, m
    <3>3. m \notin Tree(s)
      BY <1>1, <1>7, <1>15, <3>1 DEF r
    <3>4. r \notin Tree(t)
      BY <1>1, <1>2, <1>6, <1>15, <3>2
    <3>5. l \notin Tree(t)
      BY <1>1, <1>2, <1>7, <1>8, <3>2 DEF l
    <3>6. QED
      BY <1>2, <3>2, <3>3, <3>4, <3>5
  <2>2. Abstract!Step(Tree(s), {l, r}, {m})
    BY <1>10, <1>11 DEF Abstract!Step
  <2>3. QED
    BY <1>12, <2>1, <2>2 DEF TreeStep
<1>16. QED
  BY <1>14, <1>15

\* Every step of the program is one of these.
LEMMA TreeSteps ==
    ASSUME IInv, AwaitDots, Next
    PROVE  \/ TreeSame(fs, fs')
           \/ \E i : LinkChanged(fs, fs', i) \/ LinkMade(fs, fs', i) \/ LinkGone(fs, fs', i)
           \/ \E i, j : LinkMoved(fs, fs', i, j) \/ LinkReplaced(fs, fs', i, j)
<1>1. Consistent(fs)
  BY DEF IInv
<1>2. CASE (\E i \in DOMAIN fs.object : Evict(i)) \/ Remount
  <2>1. \A x \in Ino : SameCell(fs, fs', x) /\ getFileByIno(fs', x) = getFileByIno(fs, x)
    BY <1>1, <1>2, EvictSteps
  <2>2. Entries(fs') = Entries(fs)
    BY <2>1 DEF Entries, SameCell
  <2>3. QED
    BY <2>1, <2>2, EntriesTyped DEF TreeSame, SameBut, SameLink, SameCell
<1>3. CASE (\E i \in Entries(fs) : Open(i)) \/ (\E h \in open : Close(h))
  BY <1>3, OpenStep, CloseStep
<1>4. ASSUME NEW d \in Dirs(fs), NEW i \in slots(fs, d), LookUp(i)
      PROVE  TreeSame(fs, fs')
  BY <1>1, <1>4, ObjectSteps
<1>5. ASSUME NEW d \in Dirs(fs), NEW n \in Name,
             MkdirRefused(d, n) \/ \E isDir \in BOOLEAN : Create(d, n, isDir)
      PROVE  TreeSame(fs, fs') \/ \E i : LinkMade(fs, fs', i)
  BY <1>1, <1>5, CreateSteps
<1>6. ASSUME NEW d \in Dirs(fs), NEW i \in named(fs, d), Unlink(d, i)
      PROVE  LinkGone(fs, fs', i)
  BY <1>1, <1>6, RemoveStep
<1>7. ASSUME NEW d \in Dirs(fs), NEW i \in named(fs, d), NEW e \in Dirs(fs), NEW m \in Name,
             Rename(d, i, e, m)
      PROVE  \E j : LinkMoved(fs, fs', i, j) \/ LinkReplaced(fs, fs', i, j)
  BY <1>1, <1>7, RenameStep
<1>8. ASSUME NEW i \in Files(fs), Write(i) \/ SetSize(i) \/ SetTime(i) \/ Fsync(i)
      PROVE  TreeSame(fs, fs') \/ LinkChanged(fs, fs', i)
  BY <1>1, <1>8, ObjectSteps
<1>9. QED
  BY <1>2, <1>3, <1>4, <1>5, <1>6, <1>7, <1>8 DEF Next

\* The refinement, step by step.
LEMMA StepRefines ==
    ASSUME AwaitDots, IInv, IInv', NamesOnce(fs), [Next]_vars
    PROVE  NamesOnce(fs)' /\ [Abstract!Next]_(Tree(fs))
<1>1. Consistent(fs) /\ Consistent(fs')
  BY DEF IInv
<1>2. TreeStep(fs, fs')
  <2>1. CASE UNCHANGED vars
    <3>1. TreeSame(fs, fs')
      BY <2>1 DEF vars, TreeSame, SameBut, SameLink
    <3>2. QED
      BY <3>1, SameStep
  <2>2. CASE Next
    BY <1>1, <2>2, TreeSteps, SameStep, ChangedStep, MadeStep, GoneStep, MovedStep, ReplacedStep
  <2>3. QED
    BY <2>1, <2>2
<1>3. Tree(fs') \subseteq Abstract!Link
  BY <1>1, TreeOfLinks, LinkTyped
<1>4. NamesOnce(fs)'
  BY <1>2 DEF TreeStep
<1>5. CASE Tree(fs') = Tree(fs)
  BY <1>4, <1>5
<1>6. CASE Abstract!Step(Tree(fs), Tree(fs) \ Tree(fs'), Tree(fs') \ Tree(fs))
  <2>1. Abstract!Next
    BY <1>3, <1>6 DEF Abstract!Next
  <2>2. QED
    BY <1>4, <2>1
<1>7. QED
  BY <1>2, <1>5, <1>6 DEF TreeStep

-----------------------------------------------------------------------------
(***************************************************************************)
(* The theorems.  A directory must not be removed while an object of its   *)
(* "." or ".." is cached: what the code does otherwise is the finding of   *)
(* the run FileDots.                                                       *)
(***************************************************************************)

\* The state stays consistent.
THEOREM IInvAlways == AwaitDots => (Spec => []IInv)
<1> SUFFICES ASSUME AwaitDots PROVE Spec => []IInv
  OBVIOUS
<1>1. Init => IInv
  BY InitConsistent
<1>2. IInv /\ [Next]_vars => IInv'
  BY StepKeeps
<1>3. QED
  BY <1>1, <1>2, PTL DEF Spec

\* The entries, clusters and cached objects are what the code takes them for,
\* and the kernel has MaxKept files open at most.
THEOREM TypeCorrect == AwaitDots => (Spec => []TypeOK)
<1> SUFFICES ASSUME AwaitDots PROVE Spec => []TypeOK
  OBVIOUS
<1>1. IInv => TypeOK
  <2> SUFFICES ASSUME IInv PROVE TypeOK
    OBVIOUS
  <2>1. /\ fs.cell \in [Cluster -> [Slot -> Cell]] /\ fs.used \subseteq Cluster
        /\ DOMAIN fs.object \subseteq Ino /\ fs.object \in [DOMAIN fs.object -> Object]
    BY StateParts DEF IInv, Consistent
  <2>2. Root \in fs.used
    BY DEF IInv, Consistent, UsedOwned
  <2>3. QED
    BY <2>1, <2>2 DEF TypeOK, IInv, HandlesTyped
<1>2. Spec => []IInv
  BY IInvAlways
<1>3. QED
  BY <1>1, <1>2, PTL

\* No cluster is lost and none has two owners (resize, selfDestruct,
\* exchangeMetaData, crtDir).
THEOREM OwnedAlways == AwaitDots => (Spec => []ClustersOwned)
<1> SUFFICES ASSUME AwaitDots PROVE Spec => []ClustersOwned
  OBVIOUS
<1>1. IInv => ClustersOwned
  BY DEF IInv, Consistent, Apart, UsedOwned, ClustersOwned
<1>2. Spec => []IInv
  BY IInvAlways
<1>3. QED
  BY <1>1, <1>2, PTL

\* A cached object has an entry of its kind in a directory, the one its
\* destructor writes to (File::sync).
THEOREM ObjectsHaveTheirEntries == AwaitDots => (Spec => []EntryOfObject)
<1> SUFFICES ASSUME AwaitDots PROVE Spec => []EntryOfObject
  OBVIOUS
<1>1. IInv => EntryOfObject
  <2> SUFFICES ASSUME IInv, NEW i \in DOMAIN fs.object
               PROVE  /\ \E d \in Dirs(fs) : i \in slots(fs, d)
                      /\ inUse(fs, i) /\ at(fs, i).dir = fs.object[i].dir
    BY DEF EntryOfObject
  <2>1. i \in Ino /\ inUse(fs, i) /\ at(fs, i).dir = fs.object[i].dir
    BY Loaded DEF IInv
  <2>2. PICK d \in Dirs(fs) : i[1] = fstClus(fs, d)
    BY <2>1 DEF IInv, Consistent, EntriesInDirs
  <2>3. i \in slots(fs, d)
    BY <2>1, <2>2, Numbers DEF slots
  <2>4. QED
    BY <2>1, <2>3
<1>2. Spec => []IInv
  BY IInvAlways
<1>3. QED
  BY <1>1, <1>2, PTL

\* No metadata is written over the data of a file (File::sync, whose
\* parent_clus_ may be the number of a cluster that was freed).
THEOREM DataAlwaysIntact == AwaitDots => (Spec => []DataIntact)
<1> SUFFICES ASSUME AwaitDots PROVE Spec => []DataIntact
  OBVIOUS
<1>1. IInv => DataIntact
  <2> SUFFICES ASSUME IInv, NEW c \in fs.used, NEW k \in Slot
               PROVE  fs.cell[c][k].kind # "spoiled"
    BY DEF DataIntact
  <2>1. c \in Cluster
    BY StateParts DEF IInv, Consistent
  <2>2. <<c, k>> \in Ino /\ at(fs, <<c, k>>) = fs.cell[c][k]
    BY <2>1, Numbers DEF at
  <2>3. QED
    BY <2>2 DEF IInv, Unspoiled
<1>2. Spec => []IInv
  BY IInvAlways
<1>3. QED
  BY <1>1, <1>2, PTL

\* A file keeps its inode number in every call but the one that unlinks or
\* renames it (crtFileInner, exchangeMetaData, selfDestruct): what the kernel
\* knows a file by goes only in a call that names the file.
THEOREM NumbersAlwaysStay == AwaitDots => (Spec => InodeNumbersStay)
<1> SUFFICES ASSUME AwaitDots PROVE Spec => InodeNumbersStay
  OBVIOUS
<1> DEFINE Intact(i) == inUse(fs', i) /\ at(fs', i).name = at(fs, i).name /\ at(fs', i).dir = at(fs, i).dir
           Stays ==
             \A i \in Entries(fs) :
               \/ inUse(fs', i) /\ at(fs', i).name = at(fs, i).name /\ at(fs', i).dir = at(fs, i).dir
               \/ \E d \in Dirs(fs) :
                     Unlink(d, i) \/ \E e \in Dirs(fs), m \in Name : Rename(d, i, e, m)
<1>1. IInv /\ [Next]_vars => [Stays]_vars
  <2> SUFFICES ASSUME IInv, Next PROVE Stays
    OBVIOUS
  <2>1. \E gone \in SUBSET Entries(fs) : Survive(fs, fs', gone) /\ \A i \in gone : Named(i)
    <3>1. CASE (\E i \in DOMAIN fs.object : Evict(i)) \/ Remount
      BY <3>1, EvictSteps DEF IInv
    <3>2. CASE (\E i \in Entries(fs) : Open(i)) \/ (\E h \in open : Close(h))
      BY <3>2, OpenStep, CloseStep
    <3>3. CASE Follows(fs, fs', {})
      BY <3>3 DEF Follows
    <3>4. CASE \E i \in Entries(fs) : Named(i) /\ Follows(fs, fs', {i})
      <4>1. PICK i \in Entries(fs) : Named(i) /\ Follows(fs, fs', {i})
        BY <3>4
      <4>2. {i} \in SUBSET Entries(fs) /\ Survive(fs, fs', {i}) /\ \A x \in {i} : Named(x)
        BY <4>1 DEF Follows
      <4>3. QED
        BY <4>2
    <3>5. QED
      BY <3>1, <3>2, <3>3, <3>4, CallSteps
  <2>2. PICK gone \in SUBSET Entries(fs) : Survive(fs, fs', gone) /\ \A i \in gone : Named(i)
    BY <2>1
  <2>3. ASSUME NEW i \in Entries(fs), i \notin gone PROVE Intact(i)
    <3>1. i \in Entries(fs') /\ SameCell(fs, fs', i)
      BY <2>2, <2>3 DEF Survive
    <3>2. QED
      BY <3>1, EntriesTyped DEF SameCell
  <2>4. \A i \in Entries(fs) : Intact(i) \/ Named(i)
    BY <2>2, <2>3
  <2> HIDE DEF Stays
  <2>5. QED
    BY <2>4, Zenon DEF Named, Stays
<1>2. Spec => []IInv
  BY IInvAlways
<1>3. Spec => [][Next]_vars
  BY DEF Spec
<1>4. Spec => [][Stays]_vars
  BY <1>1, <1>2, <1>3, PTL
<1>5. QED
  BY <1>4 DEF InodeNumbersStay

\* When objects leave the cache nothing of the tree is lost (File::~File,
\* FAT32fs::flush).
THEOREM EvictionHarmless == AwaitDots => (Spec => EvictionLosesNothing)
<1> SUFFICES ASSUME AwaitDots PROVE Spec => EvictionLosesNothing
  OBVIOUS
<1> DEFINE Harmless ==
      /\ DOMAIN fs'.object \subseteq DOMAIN fs.object /\ DOMAIN fs'.object # DOMAIN fs.object
      /\ fs'.used = fs.used /\ Entries(fs') = Entries(fs)
      => Tree(fs') = Tree(fs)
<1>1. IInv /\ [Next]_vars => [Harmless]_vars
  <2> SUFFICES ASSUME IInv, Next,
                      DOMAIN fs'.object \subseteq DOMAIN fs.object, DOMAIN fs'.object # DOMAIN fs.object,
                      Entries(fs') = Entries(fs)
               PROVE  Tree(fs') = Tree(fs)
    OBVIOUS
  <2>1. CASE (\E i \in DOMAIN fs.object : Evict(i)) \/ Remount
    <3>1. \A x \in Ino : SameCell(fs, fs', x) /\ getFileByIno(fs', x) = getFileByIno(fs, x)
      BY <2>1, EvictSteps DEF IInv
    <3>2. \A x \in Entries(fs) : at(fs', x).name = at(fs, x).name /\ getFileByIno(fs', x) = getFileByIno(fs, x)
      BY <3>1, EntriesTyped DEF SameCell
    <3>3. QED
      BY <3>2 DEF Tree
  <2>2. CASE (\E i \in Entries(fs) : Open(i)) \/ (\E h \in open : Close(h))
    <3>1. TreeSame(fs, fs')
      BY <2>2, OpenStep, CloseStep
    <3>2. \A x \in Entries(fs) : at(fs', x).name = at(fs, x).name /\ getFileByIno(fs', x) = getFileByIno(fs, x)
      BY <3>1 DEF TreeSame, SameBut, SameLink
    <3>3. QED
      BY <3>2 DEF Tree
  <2>3. CASE \E gone \in SUBSET Entries(fs) : Follows(fs, fs', gone)
    <3>1. PICK gone \in SUBSET Entries(fs) : Follows(fs, fs', gone)
      BY <2>3
    <3>2. gone = {}
      BY <3>1 DEF Follows
    <3>3. QED
      BY <3>1, <3>2 DEF Follows
  <2>4. QED
    BY <2>1, <2>2, <2>3, CallSteps
<1>2. Spec => []IInv
  BY IInvAlways
<1>3. Spec => [][Next]_vars
  BY DEF Spec
<1>4. Spec => [][Harmless]_vars
  BY <1>1, <1>2, <1>3, PTL
<1>5. QED
  BY <1>4 DEF EvictionLosesNothing

\* Entries and objects together implement a tree of names (the handlers of
\* fat32_fuse.cpp): every call takes, gives or moves the link it was asked to,
\* with what it stands for and all that is below it, and no directory goes that
\* holds names.
THEOREM TreeImplemented == AwaitDots => (Spec => IsFileTree)
<1> SUFFICES ASSUME AwaitDots PROVE Spec => IsFileTree
  OBVIOUS
<1> DEFINE Once == NamesOnce(fs)
<1>1. Init => Once /\ Abstract!Init
  <2> SUFFICES ASSUME Init PROVE Once /\ Abstract!Init
    OBVIOUS
  <2>1. Entries(fs) = {}
    <3>1. \A i \in Ino : ~inUse(fs, i)
      BY Numbers, CellsMade DEF Init, Formatted, at, inUse
    <3>2. QED
      BY <3>1 DEF Entries
  <2>2. QED
    BY <2>1, TreeOfLinks DEF NamesOnce, Abstract!Init
<1>2. IInv /\ IInv' /\ Once /\ [Next]_vars => Once' /\ [Abstract!Next]_(Tree(fs))
  BY StepRefines
<1>3. Spec => []IInv
  BY IInvAlways
<1>4. QED
  BY <1>1, <1>2, <1>3, PTL DEF Spec, IsFileTree, Abstract!Spec
=============================================================================
