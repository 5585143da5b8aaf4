--------------------------- MODULE MCEntryFields ---------------------------
(***************************************************************************)
(* The name and the times of a directory entry, one after the other: times *)
(* change while the name is Timed, and the name while the times are Start. *)
(***************************************************************************)
EXTENDS EntryNames, FileTimes

\* A, a, "+", ".", a space, and two characters of GBK: one with a lower case
\* letter as its second byte, one with ErasedMark as its first.
AllCharacters == {<<65>>, <<97>>, <<43>>, <<46>>, <<32>>, <<196, 97>>, <<229, 163>>}
WithSpaces == {<<65>>, <<32>>}
Timed == <<<<65>>>>

\* Borders of February, of a year, and of the bits of years; of minutes, of the
\* day; and of the hundredths, without those of exactly an odd second.
Instants ==
    {t \in [day : {0, 59, 7304, LastDay}, sec : {0, 59, 86398}, hundredth : {0, 99}] :
        t.sec % 2 = 1 => t.hundredth # 0}
AllInstants == [day : {0}, sec : 0 .. 3, hundredth : {0, 1, 99}]
Start == [day |-> 0, sec |-> 0, hundredth |-> 0]

Init == NameInit /\ Created(Start)
Next ==
    \/ Created(Start) /\ TypeChar /\ UNCHANGED timeVars
    \/ name = Timed /\ TimeNext /\ UNCHANGED name
Spec == Init /\ [][Next]_<<name, timeVars>>
=============================================================================
