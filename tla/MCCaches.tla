------------------------------ MODULE MCCaches ------------------------------
(***************************************************************************)
(* The two caches, each a LRUCacheMap, one after the other: that of        *)
(* sectors, with its objects and the file behind it, and the keys of that  *)
(* of file objects.  They share no state; each is used while the other is  *)
(* new.                                                                    *)
(***************************************************************************)
EXTENDS SectorCache, LruUse

CachesInit == Init /\ UseInit
CachesNext ==
    \/ UseInit /\ Next /\ UNCHANGED useVars
    \/ Init /\ UseNext /\ UNCHANGED vars
CachesSpec == CachesInit /\ [][CachesNext]_<<vars, useVars>>
=============================================================================
