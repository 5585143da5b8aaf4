------------------------------ MODULE FileTree ------------------------------
(***************************************************************************)
(* What the file system promises: a tree of names.  A link is a name in a  *)
(* directory, with what it stands for: a file or a directory, the identity *)
(* of its data, its size and times.  Every call changes the tree in one    *)
(* step, or does not change it.                                            *)
(***************************************************************************)
CONSTANTS
    Name, Stamp,
    Id,       \* identities of data and of directories
    RootId,   \* of the root directory
    NoId      \* of the data of an empty file

VARIABLE tree   \* the links: [in, name, dir, id, stamp]

Init == tree = {}

Link == [in : Id, name : Name, dir : BOOLEAN, id : Id \cup {NoId}, stamp : Stamp]

Same(l, m) == l.in = m.in /\ l.name = m.name
DirIds(t) == {RootId} \cup {l.id : l \in {m \in t : m.dir}}
Fresh(t, id) == id \in Id \ {RootId} /\ \A l \in t : l.id # id
Empty(t, l) == l.dir => \A m \in t : m.in # l.id

\* create, and mkdir with an identity of its own.
Make(t, l) ==
    /\ l.in \in DirIds(t) /\ \A m \in t : ~Same(l, m)
    /\ IF l.dir THEN Fresh(t, l.id) ELSE l.id = NoId

\* write and setattr: data appears or goes, size and times change.
Change(t, l, m) ==
    /\ Same(l, m) /\ ~l.dir /\ ~m.dir
    /\ m.id \in {l.id, NoId} \/ (l.id = NoId /\ Fresh(t, m.id))

\* rename: what l stands for, with all below it, is found under m only.
Move(t, l, m) ==
    /\ ~Same(l, m) /\ m.in \in DirIds(t \ {l})
    /\ m = [l EXCEPT !.in = m.in, !.name = m.name]
\* What it replaces, if anything.
Replace(t, l, m, r) == Same(m, r) /\ r.dir = l.dir /\ Empty(t, r)

\* A step takes the links gone out of the tree and puts the links come into it.
Step(t, gone, come) ==
    \/ gone = {} /\ \E l \in come : come = {l} /\ Make(t, l)
    \/ come = {} /\ \E l \in gone : gone = {l} /\ Empty(t, l)
    \/ \E l \in gone, m \in come :
          /\ come = {m}
          /\ \/ gone = {l} /\ (Change(t, l, m) \/ (Move(t, l, m) /\ \A r \in t : ~Same(m, r)))
             \/ \E r \in gone : gone = {l, r} /\ Move(t, l, m) /\ Replace(t, l, m, r)

Next ==
    \E t \in {tree}, u \in {tree'} :
        Step(t, t \ u, u \ t) /\ u \subseteq Link

Spec == Init /\ [][Next]_tree
=============================================================================
