---------------------------- MODULE BlockDevice -----------------------------
(***************************************************************************)
(* What class Device promises the file system (library/device.h): a block  *)
(* device.  Reading a sector returns what was last written to it, a write  *)
(* goes to the sector opened by the last read; written data becomes stable *)
(* in any order and at any time, and a crash falls back to what is stable. *)
(***************************************************************************)
CONSTANTS Sector, Value, None

VARIABLES
    store,    \* what a read of every sector returns
    stable,   \* what a crash leaves
    target    \* the sector a store goes to, or None

vars == <<store, stable, target>>

Init == store \in [Sector -> Value] /\ stable = store /\ target = None

Write ==
    /\ target # None
    /\ \E v \in Value : store' = [store EXCEPT ![target] = v]
    /\ UNCHANGED <<stable, target>>

\* A read or the end of one, a sync, a flush: only the stable copy changes.
Persist ==
    /\ \E S \in SUBSET Sector :
          stable' = [n \in Sector |-> IF n \in S THEN store[n] ELSE stable[n]]
    /\ target' \in Sector \cup {None}
    /\ UNCHANGED store

Crash == store' = stable /\ target' = None /\ UNCHANGED stable

Next == Write \/ Persist \/ Crash

Spec == Init /\ [][Next]_vars
=============================================================================
