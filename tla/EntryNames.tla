----------------------------- MODULE EntryNames -----------------------------
(***************************************************************************)
(* The name of a file in directory entries (library/fat32.cpp,             *)
(* library/util.cpp): the run of entries crtFileInner writes for a name,   *)
(* and what lookupFileInner reads of it.  A character is the sequence of   *)
(* its bytes in GBK (one of ASCII, or one above 128 and a second), and one *)
(* unit of UTF-16; iconv is external and every character has both forms.   *)
(* The widths of the entries are constants, so that short names reach all  *)
(* their borders.                                                          *)
(***************************************************************************)
EXTENDS Integers, Sequences, SequencesExt

CONSTANTS
    PrimarySize,     \* bytes of the primary part of a short name (8)
    ExtensionSize,   \* bytes of its extension (3)
    UnitsPerEntry,   \* UTF-16 units in a long entry (13)
    Alphabet,        \* characters names are made of
    MaxLength        \* bound: characters of a name

Byte == 0 .. 255
Space == 32
Period == 46
Underscore == 95
ErasedMark == 229    \* first byte of an entry that is empty
KanjiMark == 5       \* what stands for it in the name of an entry in use

ASSUME NameAssumption ==
    /\ PrimarySize \in Nat \ {0} /\ ExtensionSize \in Nat \ {0}
    /\ UnitsPerEntry \in Nat \ {0} /\ MaxLength \in Nat
    /\ \A ch \in Alphabet :
          \/ \E b \in 1 .. 127 : ch = <<b>>
          \/ \E b \in 129 .. 254, c \in 64 .. 254 : ch = <<b, c>>

VARIABLE name   \* the name asked for

-----------------------------------------------------------------------------
(***************************************************************************)
(* Characters and bytes.                                                   *)
(***************************************************************************)
\* The first n elements of s, and those before the first place in cut.
Upto(s, n) == SubSeq(s, 1, Min({n, Len(s)}))
Before(s, cut) == IF cut = {} THEN s ELSE Upto(s, Min(cut) - 1)
Padded(s, n) == [k \in 1 .. n |-> IF k <= Len(s) THEN s[k] ELSE Space]
Spots(s, b) == {k \in DOMAIN s : s[k] = b}

utf8ToGbk(s) == FlattenSeq(s)

\* A byte behind a lone one above 128 completes its character.
decoded(cs, b) ==
    IF cs # <<>> /\ Len(Last(cs)) = 1 /\ Last(cs)[1] > 128
    THEN Append(Front(cs), <<Last(cs)[1], b>>) ELSE Append(cs, <<b>>)
gbkToUtf8(s) ==
    LET chars[k \in 0 .. Len(s)] == IF k = 0 THEN <<>> ELSE decoded(chars[k - 1], s[k])
    IN  chars[Len(s)]

upper(b) == IF b \in 97 .. 122 THEN b - 32 ELSE b
\* Fault: the bytes of GBK are converted, second bytes too.
toUpperBytes(s) == [k \in DOMAIN s |-> [j \in DOMAIN s[k] |-> upper(s[k][j])]]
toUpper(s) == [k \in DOMAIN s |-> IF Len(s[k]) = 1 THEN <<upper(s[k][1])>> ELSE s[k]]

\* From the first to the last character that is not b.
strip(s, b) ==
    LET kept == DOMAIN s \ Spots(s, <<b>>)
    IN  IF kept = {} THEN <<>> ELSE SubSeq(s, Min(kept), Max(kept))

isInvalidShortEntryChr(b) ==
    \/ b < 32 /\ b # KanjiMark
    \/ b \in {34, 42, 43, 44, 46, 47, 91, 92, 93, 124} \cup (58 .. 63)
Valid(s) == [k \in DOMAIN s |-> IF isInvalidShortEntryChr(s[k]) THEN Underscore ELSE s[k]]

-----------------------------------------------------------------------------
(***************************************************************************)
(* Short names: primary and extension, padded with spaces.                 *)
(***************************************************************************)
basis(front, back) ==
    Padded(front, PrimarySize) \o Padded(back, ExtensionSize)

\* What genBasisNameFromLong keeps of a name, and its two parts.
core(n) == utf8ToGbk(strip(strip(toUpper(n), Space), Period))
primary(s) == Valid(Upto(Before(s, Spots(s, Period)), PrimarySize))
extension(s) ==
    LET dots == Spots(s, Period)
    IN  IF dots = {} THEN <<>> ELSE Valid(Upto(SubSeq(s, Max(dots) + 1, Len(s)), ExtensionSize))
genBasisNameFromLong(n) == basis(primary(core(n)), extension(core(n)))

\* Behind the primary part one byte is skipped, which is the period.
genBasisNameFromShort(s) ==
    LET front == Upto(Before(s, Spots(s, Period)), PrimarySize)
    IN  basis(front, Upto(SubSeq(s, Len(front) + 2, Len(s)), ExtensionSize))

\* Up to the first space of each part.
readShortEntryName(bytes) ==
    LET part(s) == Before(s, Spots(s, Space))
        front == part(Upto(bytes, PrimarySize))
        back == part(SubSeq(bytes, PrimarySize + 1, PrimarySize + ExtensionSize))
    IN  (IF Spots(front, KanjiMark) \cap {1} # {} THEN [front EXCEPT ![1] = ErasedMark] ELSE front)
            \o (IF back = <<>> THEN <<>> ELSE <<Period>> \o back)

chkSum(bytes) ==
    LET rotated(sum, b) == ((sum % 2) * 128 + sum \div 2 + b) % 256
    IN  FoldLeft(rotated, 0, bytes)

-----------------------------------------------------------------------------
(***************************************************************************)
(* Entries.  End and Fill stand behind a name in its last long entry.      *)
(***************************************************************************)
End == <<0, 0>>
Fill == <<255, 255>>

mkLongDirEntry(n, ord, sum) ==
    [sum |-> sum,
     units |-> [k \in 1 .. UnitsPerEntry |->
                   LET off == (ord - 1) * UnitsPerEntry + k
                   IN  CASE off <= Len(n) -> n[off]
                         [] off = Len(n) + 1 -> End
                         [] OTHER -> Fill]]
readLongEntryName(entry) == Before(entry.units, Spots(entry.units, End) \cup Spots(entry.units, Fill))

\* Fault: rounded down.
longEntriesDown(n) == Len(n) \div UnitsPerEntry
longEntries(n) == (Len(n) - 1) \div UnitsPerEntry + 1

\* A run as it is on the disk: the last part of the name first.
crtFileInner(n) ==
    LET short == genBasisNameFromLong(n)
        count == longEntries(n)
    IN  [long |-> [k \in 1 .. count |-> mkLongDirEntry(n, count + 1 - k, chkSum(short))],
         short |-> short]

parseEntryType(bytes) ==
    CASE bytes[1] = ErasedMark -> "KEmpty" [] bytes[1] = 0 -> "KEnd" [] OTHER -> "KExist"

\* The loop of lookupFileInner over one run, and the name fromIno gives it.
longName(run) ==
    FlattenSeq(Reverse([k \in DOMAIN run.long |-> readLongEntryName(run.long[k])]))
lookupFileInner(run, n) ==
    LET shortName == readShortEntryName(run.short)
    IN  CASE parseEntryType(run.short) # "KExist" -> "absent"
          [] /\ run.long # <<>>
             /\ chkSum(genBasisNameFromShort(shortName)) # run.long[1].sum -> "aborts"
          [] \/ run.long # <<>> /\ longName(run) = n
             \/ run.long = <<>> /\ shortName = utf8ToGbk(toUpper(n)) -> "found"
          [] OTHER -> "absent"
fileName(run) ==
    IF run.long # <<>> THEN longName(run) ELSE gbkToUtf8(readShortEntryName(run.short))

-----------------------------------------------------------------------------
(***************************************************************************)
(* Every name of the alphabet.                                             *)
(***************************************************************************)
NameInit == name \in {<<ch>> : ch \in Alphabet}
TypeChar == Len(name) < MaxLength /\ \E ch \in Alphabet : name' = Append(name, ch)
NameSpec == NameInit /\ [][TypeChar]_name

-----------------------------------------------------------------------------
(***************************************************************************)
(* Properties.                                                             *)
(***************************************************************************)
\* A name that was created is found, and found under itself: the parts of the
\* long name come together again, exact multiples of an entry included, and
\* the short name read back has the checksum kept in the long entries (the
\* assertions of lookupFileInner and fromIno).
CreatedIsFound ==
    LET run == crtFileInner(name)
    IN  lookupFileInner(run, name) = "found" /\ fileName(run) = name

\* What the short name must not hold: a space that is not padding, or a first
\* byte that means something else.
Plain(n) ==
    /\ Space \notin ToSet(primary(core(n))) \cup ToSet(extension(core(n)))
    /\ genBasisNameFromLong(n)[1] \notin {ErasedMark, KanjiMark}

\* The same of the names the driver can store, periods and spaces at both ends,
\* characters short names may not have, and cut characters included
\* (genBasisNameFromLong, readShortEntryName, mkLongDirEntry).
PlainIsFound == Plain(name) => CreatedIsFound

\* A short name another driver stored, without long entries and with KanjiMark
\* where the first byte asks for it, is found under the name a listing gives it
\* (lookupFileInner compares it with the upper case of the name asked for).
ShortForm(n) ==
    LET s == utf8ToGbk(n)
        b == genBasisNameFromShort(s)
        front == Before(n, Spots(n, <<Period>>))
    IN  [proper |-> /\ front # <<>> /\ <<Space>> \notin ToSet(n)
                    /\ \A k \in DOMAIN n : Len(n[k]) = 2 \/ upper(n[k][1]) = n[k][1]
                    /\ readShortEntryName(b) = s
                    /\ \A k \in DOMAIN b : ~isInvalidShortEntryChr(b[k]),
         run |-> [long |-> <<>>,
                  short |-> IF b[1] = ErasedMark THEN [b EXCEPT ![1] = KanjiMark] ELSE b]]
ListedIsFound ==
    LET other == ShortForm(name)
    IN  other.proper => lookupFileInner(other.run, fileName(other.run)) = "found"
=============================================================================
