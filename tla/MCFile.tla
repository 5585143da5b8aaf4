------------------------------- MODULE MCFile -------------------------------
(***************************************************************************)
(* A file as a whole, one part after the other: the name and the times in  *)
(* its directory entry, as in MCEntryFields, and its data, as in           *)
(* MCFileData.  The parts share no state; the data change while the entry  *)
(* is new, and the entry while there are no data.                          *)
(***************************************************************************)
EXTENDS MCEntryFields, MCFileData

FileInit == Init /\ DataInit
FileNext ==
    \/ DataInit /\ Next /\ UNCHANGED dataVars
    \/ name = Timed /\ Created(Start) /\ DataNext /\ UNCHANGED <<name, timeVars>>
FileSpec == FileInit /\ [][FileNext]_<<name, timeVars, dataVars>>
=============================================================================
