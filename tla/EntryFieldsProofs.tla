-------------------------- MODULE EntryFieldsProofs --------------------------
(***************************************************************************)
(* What the fields of a directory entry give back of what was put in them. *)
(*                                                                         *)
(* Names (EntryNames).  The bytes of a short name without inner spaces     *)
(* come back, so its checksum is the one its long entries hold; the parts  *)
(* of the long name, read last first, are the name; and GBK is decoded to  *)
(* the characters it was encoded from.  Inductions are over sets of lengths *)
(* (NatInduct).                                                            *)
(*                                                                         *)
(* Times (FileTimes).  The quotients and remainders by which a stamp is    *)
(* taken apart undo the sums it was packed with, and gmtime finds a year   *)
(* and a month for every day.                                              *)
(***************************************************************************)
EXTENDS EntryNames, FileTimes, CommonLemmas

-----------------------------------------------------------------------------
(***************************************************************************)
(* Sequences put together, and taken apart.                                *)
(***************************************************************************)
\* The first k parts of s put together, for every k (the loops that append to
\* a string).
Glued(s, f, k) == f = [i \in 1 .. k |-> IF i = 1 THEN s[i] ELSE f[i - 1] \o s[i]]

\* Such a sequence of prefixes exists for any s and any number of parts.
LEMMA GluedExists ==
    ASSUME NEW s
    PROVE  \A k \in Nat : \E f : Glued(s, f, k)
<1> DEFINE S == {k \in Nat : \E f : f = [i \in 1 .. k |-> IF i = 1 THEN s[i] ELSE f[i - 1] \o s[i]]}
<1>1. 0 \in S
  <2> DEFINE f == [i \in 1 .. 0 |-> s]
  <2>1. f = [i \in 1 .. 0 |-> IF i = 1 THEN s[i] ELSE f[i - 1] \o s[i]]
    OBVIOUS
  <2> HIDE DEF f
  <2>2. QED
    BY <2>1
<1>2. ASSUME NEW k \in S PROVE k + 1 \in S
  <2>1. PICK f : f = [i \in 1 .. k |-> IF i = 1 THEN s[i] ELSE f[i - 1] \o s[i]]
    OBVIOUS
  <2> DEFINE step(h, i) == IF i = 1 THEN s[i] ELSE h[i - 1] \o s[i]
             g == [i \in 1 .. k + 1 |-> IF i <= k THEN f[i] ELSE step(f, i)]
  <2>2. \A i \in 1 .. k + 1 : step(g, i) = step(f, i)
    <3>1. \A i \in 1 .. k + 1 : i # 1 => g[i - 1] = f[i - 1]
      OBVIOUS
    <3> HIDE DEF g
    <3>2. QED
      BY <3>1
  <2>3. \A i \in 1 .. k : f[i] = step(f, i)
    BY <2>1
  <2>4. g = [i \in 1 .. k + 1 |-> step(f, i)]
    <3> HIDE DEF step
    <3>1. QED
      BY <2>3
  <2>5. g = [i \in 1 .. k + 1 |-> step(g, i)]
    <3> HIDE DEF g, step
    <3>1. QED
      BY <2>2, <2>4
  <2> HIDE DEF g
  <2>6. \E h : h = [i \in 1 .. k + 1 |-> IF i = 1 THEN s[i] ELSE h[i - 1] \o s[i]]
    BY <2>5
  <2>7. k + 1 \in Nat
    OBVIOUS
  <2>8. QED
    BY <2>6, <2>7
<1>3. S = Nat
  BY <1>1, <1>2, NatInduct
<1>4. QED
  BY <1>3 DEF Glued

\* FlattenSeq puts the parts together one after the other.
LEMMA FlattenIs ==
    ASSUME NEW S, NEW s \in Seq(Seq(S)), s # <<>>
    PROVE  \E f \in [1 .. Len(s) -> Seq(S)] :
              /\ f[1] = s[1]
              /\ \A i \in 2 .. Len(s) : f[i] = f[i - 1] \o s[i]
              /\ FlattenSeq(s) = f[Len(s)]
<1> DEFINE n == Len(s)
           f == CHOOSE h : Glued(s, h, n)
<1>1. n \in Nat \ {0} /\ \A i \in 1 .. n : s[i] \in Seq(S)
  BY LenProperties, EmptySeq, ElementOfSeq
<1>2. FlattenSeq(s) = f[n]
  BY <1>1 DEF FlattenSeq, Glued
<1>3. Glued(s, f, n)
  <2>1. \E h : Glued(s, h, n)
    BY <1>1, GluedExists
  <2>2. QED
    BY <2>1
<1> HIDE DEF f, n
<1>4. DOMAIN f = 1 .. n /\ \A i \in 1 .. n : f[i] = IF i = 1 THEN s[i] ELSE f[i - 1] \o s[i]
  BY <1>3 DEF Glued
<1> DEFINE T == {k \in Nat : k < n => f[k + 1] \in Seq(S)}
<1>5. 0 \in T
  <2>1. 1 \in 1 .. n /\ 0 + 1 = 1
    BY <1>1
  <2>2. f[1] = s[1] /\ s[1] \in Seq(S)
    BY <1>1, <1>4, <2>1
  <2>3. QED
    BY <2>1, <2>2
<1>6. ASSUME NEW k \in T PROVE k + 1 \in T
  <2>1. SUFFICES ASSUME k + 1 < n PROVE f[k + 2] \in Seq(S)
    OBVIOUS
  <2>2. f[k + 1] \in Seq(S) /\ s[k + 2] \in Seq(S)
    BY <1>1, <2>1
  <2>3. f[k + 2] = f[k + 1] \o s[k + 2]
    <3>1. k + 2 \in 1 .. n /\ k + 2 # 1 /\ (k + 2) - 1 = k + 1
      BY <1>1, <2>1
    <3>2. QED
      BY <1>4, <3>1
  <2>4. QED
    BY <2>2, <2>3, ConcatProperties
<1>7. T = Nat
  BY <1>5, <1>6, NatInduct
<1>8. \A i \in 1 .. n : f[i] \in Seq(S)
  <2>1. SUFFICES ASSUME NEW i \in 1 .. n PROVE f[i] \in Seq(S)
    OBVIOUS
  <2>2. i - 1 \in Nat /\ i - 1 < n /\ (i - 1) + 1 = i
    BY <1>1
  <2>3. i - 1 \in T
    BY <1>7, <2>2
  <2>4. QED
    BY <2>2, <2>3
<1>9. f \in [1 .. n -> Seq(S)]
  <2>1. f = [i \in 1 .. n |-> f[i]]
    BY <1>3 DEF Glued
  <2>2. QED
    BY <2>1, <1>8
<1>10. f[1] = s[1] /\ \A i \in 2 .. n : f[i] = f[i - 1] \o s[i]
  <2>1. 1 \in 1 .. n /\ \A i \in 2 .. n : i \in 1 .. n /\ i # 1
    BY <1>1
  <2>2. QED
    BY <1>4, <2>1
<1>11. QED
  BY <1>2, <1>9, <1>10 DEF n

\* Where the elements of two sequences are when they are put together.
LEMMA PairIs ==
    ASSUME NEW S, NEW s \in Seq(S), NEW t \in Seq(S)
    PROVE  /\ Len(s) \in Nat /\ Len(t) \in Nat
           /\ s \o t \in Seq(S) /\ Len(s \o t) = Len(s) + Len(t) /\ Len(s) <= Len(s \o t)
           /\ \A q \in 1 .. Len(s) : q \in 1 .. Len(s \o t) /\ (s \o t)[q] = s[q]
           /\ \A q \in 1 .. Len(t) : (s \o t)[Len(s) + q] = t[q]
<1>1. Len(s) \in Nat /\ Len(t) \in Nat
  BY LenProperties
<1>2. /\ s \o t \in Seq(S) /\ Len(s \o t) = Len(s) + Len(t)
      /\ \A i \in 1 .. Len(s) + Len(t) :
            (s \o t)[i] = IF i <= Len(s) THEN s[i] ELSE t[i - Len(s)]
  BY ConcatProperties
<1>3. /\ \A q \in 1 .. Len(s) : q \in 1 .. Len(s) + Len(t) /\ q <= Len(s)
      /\ \A q \in 1 .. Len(t) : /\ Len(s) + q \in 1 .. Len(s) + Len(t)
                               /\ ~(Len(s) + q <= Len(s)) /\ (Len(s) + q) - Len(s) = q
  BY <1>1
<1>4. Len(s) <= Len(s) + Len(t)
  BY <1>1
<1>5. QED
  BY <1>1, <1>2, <1>3, <1>4

\* What SubSeq takes from the front.
LEMMA UptoIs ==
    ASSUME NEW S, NEW s \in Seq(S), NEW n \in Nat
    PROVE  /\ Upto(s, n) \in Seq(S)
           /\ Len(Upto(s, n)) = IF n <= Len(s) THEN n ELSE Len(s)
           /\ \A k \in 1 .. Len(Upto(s, n)) : Upto(s, n)[k] = s[k]
<1> DEFINE m == IF n <= Len(s) THEN n ELSE Len(s)
<1>1. Len(s) \in Nat /\ \A k \in 1 .. Len(s) : s[k] \in S
  BY LenProperties, ElementOfSeq
<1>2. Min({n, Len(s)}) = m
  <2>1. {n, Len(s)} \in SUBSET Nat /\ {n, Len(s)} # {}
    BY <1>1
  <2>2. Min({n, Len(s)}) \in {n, Len(s)} /\ \A y \in {n, Len(s)} : Min({n, Len(s)}) <= y
    BY <2>1, MinProperty
  <2>3. QED
    BY <1>1, <2>2
<1>3. Upto(s, n) = SubSeq(s, 1, m)
  BY <1>2 DEF Upto
<1>4. m \in Nat /\ m <= Len(s)
  BY <1>1
<1> HIDE DEF m
<1>5. /\ SubSeq(s, 1, m) \in Seq(S)
      /\ Len(SubSeq(s, 1, m)) = IF 1 <= m THEN m - 1 + 1 ELSE 0
      /\ \A i \in 1 .. m - 1 + 1 : SubSeq(s, 1, m)[i] = s[1 + i - 1]
  <2>1. 1 \in Int /\ m \in Int /\ \A i \in 1 .. m : s[i] \in S
    BY <1>1, <1>4
  <2>2. QED
    BY <2>1, SubSeqProperties
<1>6. Len(SubSeq(s, 1, m)) = m
  BY <1>4, <1>5
<1>7. \A i \in 1 .. m : SubSeq(s, 1, m)[i] = s[i]
  <2>1. TAKE i \in 1 .. m
  <2>2. i \in 1 .. m - 1 + 1 /\ 1 + i - 1 = i
    BY <1>4
  <2>3. QED
    BY <1>5, <2>2
<1>8. QED
  BY <1>3, <1>5, <1>6, <1>7 DEF m

\* What is in front of the first place of cut.
LEMMA BeforeIs ==
    ASSUME NEW S, NEW s \in Seq(S), NEW cut \in SUBSET (1 .. Len(s))
    PROVE  /\ Before(s, cut) \in Seq(S)
           /\ Len(Before(s, cut)) \in 0 .. Len(s)
           /\ \A k \in 1 .. Len(Before(s, cut)) : Before(s, cut)[k] = s[k] /\ k \notin cut
           /\ Len(Before(s, cut)) = Len(s) \/ Len(Before(s, cut)) + 1 \in cut
<1>1. Len(s) \in Nat
  BY LenProperties
<1>2. CASE cut = {}
  BY <1>1, <1>2 DEF Before
<1>3. CASE cut # {}
  <2> DEFINE m == Min(cut)
  <2>1. cut \in SUBSET Nat
    BY <1>1
  <2>2. m \in cut /\ \A y \in cut : m <= y
    BY <1>3, <2>1, MinProperty
  <2> HIDE DEF m
  <2>3. m \in 1 .. Len(s) /\ m - 1 \in Nat /\ m - 1 <= Len(s)
    BY <1>1, <2>2
  <2>4. Before(s, cut) = Upto(s, m - 1)
    BY <1>3 DEF Before, m
  <2>5. /\ Upto(s, m - 1) \in Seq(S) /\ Len(Upto(s, m - 1)) = m - 1
        /\ \A k \in 1 .. Len(Upto(s, m - 1)) : Upto(s, m - 1)[k] = s[k]
    BY <2>3, UptoIs
  <2>6. \A k \in 1 .. m - 1 : k \notin cut
    BY <2>2, <2>3
  <2>7. m - 1 + 1 = m
    BY <2>3
  <2>8. QED
    BY <1>1, <2>2, <2>3, <2>4, <2>5, <2>6, <2>7
<1>4. QED
  BY <1>2, <1>3

\* If s begins with t and the first place of cut is behind it, t is in front.
LEMMA BeforeAt ==
    ASSUME NEW S, NEW s \in Seq(S), NEW cut \in SUBSET (1 .. Len(s)),
           NEW t \in Seq(S), Len(t) <= Len(s), \A k \in 1 .. Len(t) : t[k] = s[k] /\ k \notin cut,
           Len(t) = Len(s) \/ Len(t) + 1 \in cut
    PROVE  Before(s, cut) = t
<1> DEFINE b == Before(s, cut)
<1>1. Len(s) \in Nat /\ Len(t) \in Nat
  BY LenProperties
<1>2. /\ b \in Seq(S) /\ Len(b) \in 0 .. Len(s)
      /\ \A k \in 1 .. Len(b) : b[k] = s[k] /\ k \notin cut
      /\ Len(b) = Len(s) \/ Len(b) + 1 \in cut
  BY BeforeIs
<1> HIDE DEF b
<1>3. Len(b) = Len(t)
  <2>1. ~(Len(b) < Len(t))
    <3>1. SUFFICES ASSUME Len(b) < Len(t) PROVE FALSE
      OBVIOUS
    <3>2. Len(b) + 1 \in 1 .. Len(t) /\ Len(b) # Len(s)
      BY <1>1, <1>2, <3>1
    <3>3. QED
      BY <1>2, <3>2
  <2>2. ~(Len(t) < Len(b))
    <3>1. SUFFICES ASSUME Len(t) < Len(b) PROVE FALSE
      OBVIOUS
    <3>2. Len(t) + 1 \in 1 .. Len(b) /\ Len(t) # Len(s)
      BY <1>1, <1>2, <3>1
    <3>3. QED
      BY <1>2, <3>2
  <2>3. QED
    BY <1>1, <1>2, <2>1, <2>2
<1>4. \A k \in 1 .. Len(b) : b[k] = t[k]
  BY <1>2, <1>3
<1>5. QED
  BY <1>2, <1>3, <1>4, SeqEqual DEF b

\* The greatest element of a set of places (Max of the community modules).
LEMMA MaxProperty ==
    ASSUME NEW n \in Nat, NEW S \in SUBSET (1 .. n), S # {}
    PROVE  Max(S) \in S /\ \A y \in S : y <= Max(S)
<1> DEFINE T == {n - x : x \in S}
<1>1. T \in SUBSET Nat /\ T # {}
  <2>1. \A x \in S : n - x \in Nat
    OBVIOUS
  <2>2. QED
    BY <2>1
<1>2. PICK t \in T : \A u \in T : t <= u
  BY <1>1, LeastElement
<1>3. PICK x \in S : t = n - x
  BY <1>2
<1>4. \A y \in S : y <= x
  <2>1. SUFFICES ASSUME NEW y \in S PROVE y <= x
    OBVIOUS
  <2>2. n - y \in T /\ x \in 1 .. n /\ y \in 1 .. n
    OBVIOUS
  <2>3. n - x <= n - y
    BY <1>2, <1>3, <2>2
  <2>4. QED
    BY <2>2, <2>3
<1>5. QED
  BY <1>4 DEF Max

-----------------------------------------------------------------------------
(***************************************************************************)
(* Short names.                                                            *)
(***************************************************************************)
\* The bytes of GBK of a character, and what no character is.
LEMMA CharIs ==
    ASSUME NEW ch \in Alphabet
    PROVE  /\ ch \in Seq(Byte) /\ Len(ch) \in {1, 2}
           /\ Len(ch) = 1 => ch[1] < 128
           /\ Len(ch) = 2 => ch[1] > 128
           /\ ch # End /\ ch # Fill
<1>1. CASE \E b \in 1 .. 127 : ch = <<b>>
  <2>1. PICK b \in 1 .. 127 : ch = <<b>>
    BY <1>1
  <2>2. b \in Byte
    BY DEF Byte
  <2>3. Len(ch) = 1 /\ ch[1] = b /\ ch \in Seq(Byte)
    BY <2>1, <2>2
  <2>4. Len(End) = 2 /\ Len(Fill) = 2
    BY DEF End, Fill
  <2>5. ch[1] < 128 /\ Len(ch) # 2
    BY <2>3
  <2>6. QED
    BY <2>3, <2>4, <2>5
<1>2. CASE \E b \in 129 .. 254, c \in 64 .. 254 : ch = <<b, c>>
  <2>1. PICK b \in 129 .. 254, c \in 64 .. 254 : ch = <<b, c>>
    BY <1>2
  <2>2. b \in Byte /\ c \in Byte
    BY DEF Byte
  <2>3. Len(ch) = 2 /\ ch[1] = b /\ ch \in Seq(Byte)
    BY <2>1, <2>2
  <2>4. End[1] = 0 /\ Fill[1] = 255
    BY DEF End, Fill
  <2>5. QED
    BY <2>3, <2>4
<1>3. QED
  BY <1>1, <1>2, NameAssumption

\* Stripping keeps characters.
LEMMA StripIs ==
    ASSUME NEW S, NEW s \in Seq(S), NEW b
    PROVE  strip(s, b) \in Seq(S)
<1> DEFINE kept == DOMAIN s \ Spots(s, <<b>>)
<1>1. Len(s) \in Nat /\ DOMAIN s = 1 .. Len(s) /\ \A k \in 1 .. Len(s) : s[k] \in S
  BY LenProperties, ElementOfSeq
<1>2. kept \in SUBSET (1 .. Len(s)) /\ kept \in SUBSET Nat
  BY <1>1
<1> HIDE DEF kept
<1>3. CASE kept = {}
  BY <1>3, EmptySeq DEF strip, kept
<1>4. CASE kept # {}
  <2>1. Min(kept) \in 1 .. Len(s) /\ Max(kept) \in 1 .. Len(s)
    BY <1>1, <1>2, <1>4, MinProperty, MaxProperty
  <2>2. \A k \in Min(kept) .. Max(kept) : s[k] \in S
    BY <1>1, <2>1
  <2>3. SubSeq(s, Min(kept), Max(kept)) \in Seq(S)
    BY <2>1, <2>2, SubSeqProperties
  <2>4. QED
    BY <1>4, <2>3 DEF strip, kept
<1>5. QED
  BY <1>3, <1>4

\* What is left of a name for its short form is a sequence of bytes.
LEMMA CoreIs ==
    ASSUME NEW n \in Seq(Alphabet)
    PROVE  core(n) \in Seq(Byte)
<1>1. toUpper(n) \in Seq(Seq(Byte))
  <2>1. Len(n) \in Nat /\ DOMAIN n = 1 .. Len(n) /\ \A k \in 1 .. Len(n) : n[k] \in Alphabet
    BY LenProperties, ElementOfSeq
  <2> DEFINE c(k) == IF Len(n[k]) = 1 THEN <<upper(n[k][1])>> ELSE n[k]
  <2>2. \A k \in 1 .. Len(n) : c(k) \in Seq(Byte)
    <3>1. SUFFICES ASSUME NEW k \in 1 .. Len(n) PROVE c(k) \in Seq(Byte)
      OBVIOUS
    <3>2. n[k] \in Seq(Byte) /\ Len(n[k]) \in {1, 2}
      BY <2>1, CharIs
    <3>3. n[k][1] \in Byte
      BY <3>2, ElementOfSeq
    <3>4. upper(n[k][1]) \in Byte
      BY <3>3 DEF upper, Byte
    <3>5. QED
      BY <3>2, <3>4
  <2>3. toUpper(n) = [k \in 1 .. Len(n) |-> c(k)]
    BY <2>1 DEF toUpper
  <2> HIDE DEF c
  <2>4. QED
    BY <2>1, <2>2, <2>3
<1> DEFINE t == strip(strip(toUpper(n), Space), Period)
<1>2. t \in Seq(Seq(Byte))
  BY <1>1, StripIs
<1>3. core(n) = FlattenSeq(t)
  BY DEF core, utf8ToGbk
<1> HIDE DEF t
<1>4. CASE t = <<>>
  BY <1>3, <1>4, EmptySeq DEF FlattenSeq
<1>5. CASE t # <<>>
  <2>1. Len(t) \in Nat \ {0}
    BY <1>2, <1>5, EmptySeq
  <2>2. PICK f \in [1 .. Len(t) -> Seq(Byte)] : FlattenSeq(t) = f[Len(t)]
    BY <1>2, <1>5, FlattenIs
  <2>3. QED
    BY <1>3, <2>1, <2>2
<1>6. QED
  BY <1>4, <1>5

\* Bytes that may not be in a short name are replaced, the period and the byte
\* of an end mark among them (isInvalidShortEntryChr).
LEMMA ValidIs ==
    ASSUME NEW s \in Seq(Byte)
    PROVE  /\ Valid(s) \in Seq(Byte) /\ Len(Valid(s)) = Len(s)
           /\ \A k \in 1 .. Len(s) : Valid(s)[k] # Period /\ Valid(s)[k] # 0
<1>1. Len(s) \in Nat /\ DOMAIN s = 1 .. Len(s) /\ \A k \in 1 .. Len(s) : s[k] \in Byte
  BY LenProperties, ElementOfSeq
<1> DEFINE v(b) == IF isInvalidShortEntryChr(b) THEN Underscore ELSE b
<1>2. \A b \in Byte : v(b) \in Byte /\ v(b) # Period /\ v(b) # 0
  BY DEF isInvalidShortEntryChr, Underscore, Byte, Period, KanjiMark
<1>3. Valid(s) = [k \in 1 .. Len(s) |-> v(s[k])]
  BY <1>1 DEF Valid
<1> HIDE DEF v
<1>4. QED
  BY <1>1, <1>2, <1>3

\* Both parts of a short name fit, and hold no period and no zero.
LEMMA PartsAre ==
    ASSUME NEW s \in Seq(Byte)
    PROVE  /\ primary(s) \in Seq(Byte) /\ Len(primary(s)) <= PrimarySize
           /\ extension(s) \in Seq(Byte) /\ Len(extension(s)) <= ExtensionSize
           /\ \A k \in 1 .. Len(primary(s)) : primary(s)[k] # Period /\ primary(s)[k] # 0
<1>1. /\ Len(s) \in Nat /\ DOMAIN s = 1 .. Len(s) /\ \A k \in 1 .. Len(s) : s[k] \in Byte
      /\ PrimarySize \in Nat /\ ExtensionSize \in Nat
  BY LenProperties, ElementOfSeq, NameAssumption
<1> DEFINE dots == Spots(s, Period)
<1>2. dots \in SUBSET (1 .. Len(s))
  BY <1>1 DEF Spots
<1> HIDE DEF dots
<1>3. /\ primary(s) \in Seq(Byte) /\ Len(primary(s)) <= PrimarySize
      /\ \A k \in 1 .. Len(primary(s)) : primary(s)[k] # Period /\ primary(s)[k] # 0
  <2> DEFINE b == Before(s, dots)
             u == Upto(b, PrimarySize)
  <2>1. b \in Seq(Byte)
    BY <1>2, BeforeIs
  <2> HIDE DEF b
  <2>2. u \in Seq(Byte) /\ Len(u) = IF PrimarySize <= Len(b) THEN PrimarySize ELSE Len(b)
    BY <1>1, <2>1, UptoIs
  <2> HIDE DEF u
  <2>3. Len(b) \in Nat
    BY <2>1, LenProperties
  <2>4. primary(s) = Valid(u)
    BY DEF primary, u, b, dots
  <2>5. QED
    BY <1>1, <2>2, <2>3, <2>4, ValidIs
<1>4. extension(s) \in Seq(Byte) /\ Len(extension(s)) <= ExtensionSize
  <2>1. CASE dots = {}
    BY <1>1, <2>1, EmptySeq DEF extension, dots
  <2>2. CASE dots # {}
    <3> DEFINE t == SubSeq(s, Max(dots) + 1, Len(s))
               u == Upto(t, ExtensionSize)
    <3>1. Max(dots) \in 1 .. Len(s)
      BY <1>1, <1>2, <2>2, MaxProperty
    <3>2. t \in Seq(Byte)
      <4>1. \A k \in Max(dots) + 1 .. Len(s) : s[k] \in Byte
        BY <1>1, <3>1
      <4>2. Max(dots) + 1 \in Int /\ Len(s) \in Int
        BY <1>1, <3>1
      <4>3. QED
        BY <4>1, <4>2, SubSeqProperties
    <3> HIDE DEF t
    <3>3. u \in Seq(Byte) /\ Len(u) = IF ExtensionSize <= Len(t) THEN ExtensionSize ELSE Len(t)
      BY <1>1, <3>2, UptoIs
    <3> HIDE DEF u
    <3>4. Len(t) \in Nat
      BY <3>2, LenProperties
    <3>5. extension(s) = Valid(u)
      BY <2>2 DEF extension, u, t, dots
    <3>6. QED
      BY <1>1, <3>3, <3>4, <3>5, ValidIs
  <2>3. QED
    BY <2>1, <2>2
<1>5. QED
  BY <1>3, <1>4

\* A part of a short name, padded with spaces.
LEMMA PaddedIs ==
    ASSUME NEW p \in Seq(Byte), NEW n \in Nat
    PROVE  /\ Padded(p, n) \in Seq(Byte) /\ Len(Padded(p, n)) = n
           /\ \A k \in 1 .. n : Padded(p, n)[k] = IF k <= Len(p) THEN p[k] ELSE Space
<1>1. Len(p) \in Nat /\ \A k \in 1 .. Len(p) : p[k] \in Byte
  BY LenProperties, ElementOfSeq
<1> DEFINE b(k) == IF k <= Len(p) THEN p[k] ELSE Space
<1>2. \A k \in 1 .. n : b(k) \in Byte
  BY <1>1 DEF Byte, Space
<1>3. Padded(p, n) = [k \in 1 .. n |-> b(k)]
  BY DEF Padded
<1>4. [k \in 1 .. n |-> b(k)] \in Seq(Byte)
  <2> HIDE DEF b
  <2>1. QED
    BY <1>2
<1>5. QED
  BY <1>3, <1>4

\* A part that has no space in it is read up to its padding.
LEMMA PartRead ==
    ASSUME NEW p \in Seq(Byte), NEW n \in Nat, Len(p) <= n,
           \A k \in 1 .. Len(p) : p[k] # Space,
           NEW s \in Seq(Byte), Len(s) = n, \A k \in 1 .. n : s[k] = Padded(p, n)[k]
    PROVE  Before(s, Spots(s, Space)) = p
<1>1. Len(p) \in Nat /\ DOMAIN s = 1 .. n
  BY LenProperties
<1>2. \A k \in 1 .. n : s[k] = IF k <= Len(p) THEN p[k] ELSE Space
  BY PaddedIs
<1>3. Spots(s, Space) \in SUBSET (1 .. Len(s))
  BY <1>1 DEF Spots
<1>4. \A k \in 1 .. Len(p) : p[k] = s[k] /\ k \notin Spots(s, Space)
  BY <1>1, <1>2 DEF Spots
<1>5. Len(p) = Len(s) \/ Len(p) + 1 \in Spots(s, Space)
  <2>1. SUFFICES ASSUME Len(p) # n PROVE Len(p) + 1 \in Spots(s, Space)
    OBVIOUS
  <2>2. Len(p) + 1 \in 1 .. n /\ ~(Len(p) + 1 <= Len(p))
    BY <1>1, <2>1
  <2>3. QED
    BY <1>1, <1>2, <2>2 DEF Spots
<1>6. QED
  BY <1>1, <1>3, <1>4, <1>5, BeforeAt

\* The text of a short name: both parts, with a period between them.
Joined(p, e) == p \o (IF e = <<>> THEN <<>> ELSE <<Period>> \o e)

\* Two parts without spaces, the first of which does not begin with KanjiMark, are
\* read back from the entry they were written to (readShortEntryName).
LEMMA ShortReads ==
    ASSUME NEW p \in Seq(Byte), Len(p) <= PrimarySize, \A k \in 1 .. Len(p) : p[k] # Space,
           NEW e \in Seq(Byte), Len(e) <= ExtensionSize, \A k \in 1 .. Len(e) : e[k] # Space,
           basis(p, e)[1] # KanjiMark
    PROVE  readShortEntryName(basis(p, e)) = Joined(p, e)
<1>1. PrimarySize \in Nat \ {0} /\ ExtensionSize \in Nat
  BY NameAssumption
<1> DEFINE pp == Padded(p, PrimarySize)
           pe == Padded(e, ExtensionSize)
           b  == pp \o pe
<1>2. /\ pp \in Seq(Byte) /\ Len(pp) = PrimarySize
      /\ pe \in Seq(Byte) /\ Len(pe) = ExtensionSize
      /\ \A k \in 1 .. PrimarySize : pp[k] = IF k <= Len(p) THEN p[k] ELSE Space
  BY <1>1, PaddedIs
<1>3. basis(p, e) = b
  BY DEF basis
<1> HIDE DEF pp, pe
<1>4. /\ b \in Seq(Byte) /\ Len(b) = PrimarySize + ExtensionSize
      /\ \A k \in 1 .. PrimarySize + ExtensionSize :
            b[k] = IF k <= PrimarySize THEN pp[k] ELSE pe[k - PrimarySize]
  BY <1>2, ConcatProperties
<1> HIDE DEF b
<1> DEFINE u == Upto(b, PrimarySize)
           v == SubSeq(b, PrimarySize + 1, PrimarySize + ExtensionSize)
<1>5. u \in Seq(Byte) /\ Len(u) = PrimarySize /\ \A k \in 1 .. PrimarySize : u[k] = pp[k]
  <2>1. /\ u \in Seq(Byte) /\ Len(u) = IF PrimarySize <= Len(b) THEN PrimarySize ELSE Len(b)
        /\ \A k \in 1 .. Len(u) : u[k] = b[k]
    BY <1>1, <1>4, UptoIs
  <2> HIDE DEF u
  <2>2. PrimarySize <= Len(b) /\ \A k \in 1 .. PrimarySize : k \in 1 .. PrimarySize + ExtensionSize
    BY <1>1, <1>4
  <2>3. QED
    BY <1>1, <1>4, <2>1, <2>2
<1>6. v \in Seq(Byte) /\ Len(v) = ExtensionSize /\ \A k \in 1 .. ExtensionSize : v[k] = pe[k]
  <2> DEFINE m == PrimarySize + 1
             w == PrimarySize + ExtensionSize
  <2>1. m \in Int /\ w \in Int /\ \A i \in m .. w : b[i] \in Byte
    <3>1. \A i \in m .. w : i \in 1 .. Len(b)
      BY <1>1, <1>4
    <3>2. QED
      BY <1>1, <1>4, <3>1, ElementOfSeq
  <2>2. /\ v \in Seq(Byte) /\ Len(v) = (IF m <= w THEN w - m + 1 ELSE 0)
        /\ \A i \in 1 .. w - m + 1 : v[i] = b[m + i - 1]
    <3> HIDE DEF m, w, v
    <3>1. v = SubSeq(b, m, w)
      BY DEF m, w, v
    <3>2. /\ SubSeq(b, m, w) \in Seq(Byte) /\ Len(SubSeq(b, m, w)) = (IF m <= w THEN w - m + 1 ELSE 0)
          /\ \A i \in 1 .. w - m + 1 : SubSeq(b, m, w)[i] = b[m + i - 1]
      BY <2>1, SubSeqProperties
    <3>3. QED
      BY <3>1, <3>2
  <2> HIDE DEF v
  <2>3. ASSUME NEW k \in 1 .. ExtensionSize PROVE v[k] = pe[k]
    <3>1. k \in 1 .. w - m + 1 /\ m + k - 1 \in 1 .. w /\ ~(m + k - 1 <= PrimarySize)
          /\ (m + k - 1) - PrimarySize = k
      BY <1>1
    <3>2. QED
      BY <1>4, <2>2, <3>1
  <2>4. QED
    BY <1>1, <2>2, <2>3
<1>7. Before(u, Spots(u, Space)) = p
  BY <1>1, <1>5, PartRead DEF pp
<1>8. Before(v, Spots(v, Space)) = e
  BY <1>1, <1>6, PartRead DEF pe
<1>9. Spots(p, KanjiMark) \cap {1} = {}
  <2>1. SUFFICES ASSUME 1 \in Spots(p, KanjiMark) PROVE FALSE
    OBVIOUS
  <2>2. Len(p) \in Nat /\ 1 \in 1 .. Len(p) /\ p[1] = KanjiMark
    BY <2>1, LenProperties DEF Spots
  <2>3. 1 \in 1 .. PrimarySize /\ 1 \in 1 .. PrimarySize + ExtensionSize /\ 1 <= Len(p)
    BY <1>1, <2>2
  <2>4. b[1] = p[1]
    BY <1>2, <1>4, <2>3
  <2>5. QED
    BY <1>3, <2>2, <2>4
<1> HIDE DEF u, v
<1>10. readShortEntryName(b) = p \o (IF e = <<>> THEN <<>> ELSE <<Period>> \o e)
  <2>1. u = Upto(b, PrimarySize) /\ v = SubSeq(b, PrimarySize + 1, PrimarySize + ExtensionSize)
    BY DEF u, v
  <2>2. QED
    BY ONLY <2>1, <1>7, <1>8, <1>9 DEF readShortEntryName
<1>11. QED
  BY <1>3, <1>10 DEF Joined

\* Both parts are found again in the text, if the first holds no period
\* (genBasisNameFromShort): the checksum taken then is that of the entry.
LEMMA ShortRegained ==
    ASSUME NEW p \in Seq(Byte), Len(p) <= PrimarySize, \A k \in 1 .. Len(p) : p[k] # Period,
           NEW e \in Seq(Byte), Len(e) <= ExtensionSize
    PROVE  genBasisNameFromShort(Joined(p, e)) = basis(p, e)
<1> DEFINE t == IF e = <<>> THEN <<>> ELSE <<Period>> \o e
           s == Joined(p, e)
<1>1. PrimarySize \in Nat /\ ExtensionSize \in Nat /\ Len(p) \in Nat /\ Len(e) \in Nat
  BY NameAssumption, LenProperties
<1>2. /\ t \in Seq(Byte) /\ Len(t) = IF e = <<>> THEN 0 ELSE Len(e) + 1
      /\ e # <<>> => t[1] = Period /\ \A k \in 1 .. Len(e) : t[k + 1] = e[k]
  <2>1. CASE e = <<>>
    BY <2>1, EmptySeq
  <2>2. CASE e # <<>>
    <3>1. <<Period>> \in Seq(Byte) /\ Len(<<Period>>) = 1 /\ <<Period>>[1] = Period
      BY DEF Byte, Period
    <3>2. /\ <<Period>> \o e \in Seq(Byte) /\ Len(<<Period>> \o e) = 1 + Len(e)
          /\ \A i \in 1 .. 1 + Len(e) :
                (<<Period>> \o e)[i] = IF i <= 1 THEN <<Period>>[i] ELSE e[i - 1]
      BY <3>1, ConcatProperties
    <3>3. \A k \in 1 .. Len(e) : k + 1 \in 1 .. 1 + Len(e) /\ ~(k + 1 <= 1) /\ (k + 1) - 1 = k
      BY <1>1
    <3>4. 1 \in 1 .. 1 + Len(e) /\ 1 + Len(e) = Len(e) + 1
      BY <1>1
    <3>5. t = <<Period>> \o e
      BY <2>2
    <3> HIDE DEF t
    <3>6. QED
      BY <2>2, <3>1, <3>2, <3>3, <3>4, <3>5
  <2>3. QED
    BY <2>1, <2>2
<1>3. s = p \o t
  BY DEF Joined
<1> HIDE DEF t, s
<1>4. Len(t) \in Nat
  BY <1>2, LenProperties
<1>5. /\ s \in Seq(Byte) /\ Len(s) = Len(p) + Len(t) /\ DOMAIN s = 1 .. Len(s)
      /\ \A k \in 1 .. Len(p) + Len(t) : s[k] = IF k <= Len(p) THEN p[k] ELSE t[k - Len(p)]
  BY <1>2, <1>3, ConcatProperties, LenProperties
<1>6. Before(s, Spots(s, Period)) = p
  <2>1. Spots(s, Period) \in SUBSET (1 .. Len(s))
    BY <1>5 DEF Spots
  <2>2. \A k \in 1 .. Len(p) : p[k] = s[k] /\ k \notin Spots(s, Period)
    <3>1. \A k \in 1 .. Len(p) : k \in 1 .. Len(p) + Len(t)
      BY <1>1, <1>4
    <3>2. QED
      BY <1>5, <3>1 DEF Spots
  <2>3. Len(p) = Len(s) \/ Len(p) + 1 \in Spots(s, Period)
    <3>1. CASE e = <<>>
      BY <1>1, <1>2, <1>5, <3>1
    <3>2. CASE e # <<>>
      <4>1. Len(p) + 1 \in 1 .. Len(p) + Len(t) /\ ~(Len(p) + 1 <= Len(p)) /\ (Len(p) + 1) - Len(p) = 1
        BY <1>1, <1>2, <1>4, <3>2
      <4>2. s[Len(p) + 1] = Period
        BY <1>2, <1>5, <3>2, <4>1
      <4>3. QED
        BY <1>5, <4>1, <4>2 DEF Spots
    <3>3. QED
      BY <3>1, <3>2
  <2>4. Len(p) <= Len(s)
    BY <1>1, <1>4, <1>5
  <2>5. QED
    BY <1>5, <2>1, <2>2, <2>3, <2>4, BeforeAt
<1>7. \A q \in Seq(Byte), n \in Nat : Len(q) <= n => Upto(q, n) = q
  <2>1. SUFFICES ASSUME NEW q \in Seq(Byte), NEW n \in Nat, Len(q) <= n PROVE Upto(q, n) = q
    OBVIOUS
  <2>2. /\ Upto(q, n) \in Seq(Byte) /\ Len(Upto(q, n)) = (IF n <= Len(q) THEN n ELSE Len(q))
        /\ \A k \in 1 .. Len(Upto(q, n)) : Upto(q, n)[k] = q[k]
    BY UptoIs
  <2>3. Len(Upto(q, n)) = Len(q)
    BY <2>1, <2>2, LenProperties
  <2>4. QED
    BY <2>2, <2>3, SeqEqual
<1>8. Upto(p, PrimarySize) = p /\ Upto(e, ExtensionSize) = e
  BY <1>1, <1>7
<1>9. SubSeq(s, Len(p) + 2, Len(s)) = e
  <2>1. CASE e = <<>>
    <3>1. Len(s) < Len(p) + 2 /\ Len(p) + 2 \in Int /\ Len(s) \in Int
      BY <1>1, <1>2, <1>5, <2>1
    <3>2. QED
      BY <2>1, <3>1, SubSeqEmpty
  <2>2. CASE e # <<>>
    <3> DEFINE m == Len(p) + 2
               w == Len(s)
               r == SubSeq(s, m, w)
    <3>1. w = Len(p) + Len(e) + 1 /\ w - m + 1 = Len(e) /\ m \in Int /\ w \in Int
      BY <1>1, <1>2, <1>5, <2>2
    <3>2. \A i \in m .. w : s[i] \in Byte
      <4>1. \A i \in m .. w : i \in 1 .. Len(s)
        BY <1>1, <3>1
      <4>2. QED
        BY <1>5, <4>1, ElementOfSeq
    <3> HIDE DEF m, w
    <3>3. /\ r \in Seq(Byte) /\ Len(r) = (IF m <= w THEN w - m + 1 ELSE 0)
          /\ \A i \in 1 .. w - m + 1 : r[i] = s[m + i - 1]
      BY <3>1, <3>2, SubSeqProperties
    <3> HIDE DEF r
    <3>4. Len(r) = Len(e)
      BY <1>1, <3>1, <3>3
    <3>5. ASSUME NEW k \in 1 .. Len(e) PROVE r[k] = e[k]
      <4>1. /\ m + k - 1 \in 1 .. Len(p) + Len(t) /\ ~(m + k - 1 <= Len(p))
            /\ (m + k - 1) - Len(p) = k + 1
        BY <1>1, <1>2, <2>2 DEF m
      <4>2. r[k] = t[k + 1]
        BY <1>5, <3>1, <3>3, <4>1
      <4>3. QED
        BY <1>2, <2>2, <4>2
    <3>6. r = e
      BY <3>3, <3>4, <3>5, SeqEqual
    <3>7. QED
      BY <3>6 DEF r, m, w
  <2>3. QED
    BY <2>1, <2>2
<1>10. genBasisNameFromShort(s) = basis(p, e)
  BY ONLY <1>6, <1>8, <1>9 DEF genBasisNameFromShort
<1>11. QED
  BY <1>10 DEF s

-----------------------------------------------------------------------------
(***************************************************************************)
(* Long names.                                                             *)
(***************************************************************************)
\* The places in a name where its entries begin, and how many there are.
LEMMA EntriesAre ==
    ASSUME NEW n \in Seq(Alphabet), n # <<>>
    PROVE  /\ longEntries(n) \in Nat \ {0}
           /\ \A i \in 0 .. longEntries(n) - 1 : UnitsPerEntry * i < Len(n)
           /\ Len(n) <= UnitsPerEntry * longEntries(n)
<1> DEFINE a == Len(n) - 1
           q == a \div UnitsPerEntry
           r == a % UnitsPerEntry
<1>1. Len(n) \in Nat \ {0} /\ a \in Nat /\ UnitsPerEntry \in Nat \ {0}
  <2>1. Len(n) \in Nat \ {0}
    BY EmptySeq
  <2>2. Len(n) - 1 \in Nat
    BY <2>1
  <2>3. QED
    BY <2>1, <2>2, NameAssumption
<1>2. longEntries(n) = q + 1
  BY DEF longEntries
<1> HIDE DEF a
<1>3. q \in Nat /\ r \in 0 .. UnitsPerEntry - 1 /\ a = UnitsPerEntry * q + r
  BY <1>1, DivModIs
<1> HIDE DEF q, r
<1>4. UnitsPerEntry * q \in Nat
  BY <1>1, <1>3
<1>5. ASSUME NEW i \in 0 .. longEntries(n) - 1
      PROVE  UnitsPerEntry * i < Len(n)
  <2>1. i \in Int /\ q \in Int /\ i <= q
    BY <1>2, <1>3
  <2>2. UnitsPerEntry * i <= UnitsPerEntry * q
    BY <1>1, <2>1, MulMono
  <2>3. UnitsPerEntry * i \in Int
    BY <1>1, <2>1
  <2>4. UnitsPerEntry * q <= Len(n) - 1
    BY <1>1, <1>3, <1>4 DEF a
  <2>5. QED
    BY <1>1, <1>4, <2>2, <2>3, <2>4
<1>6. UnitsPerEntry * (q + 1) = UnitsPerEntry * q + UnitsPerEntry
  BY <1>1, <1>3
<1>7. Len(n) <= UnitsPerEntry * q + UnitsPerEntry
  BY <1>1, <1>3, <1>4 DEF a
<1>8. QED
  BY <1>2, <1>3, <1>5, <1>6, <1>7

\* The end of what the first i entries hold.
EndOf(n, i) == IF UnitsPerEntry * i <= Len(n) THEN UnitsPerEntry * i ELSE Len(n)

\* An entry is read back as the units it was given, without the mark and the
\* filling behind the name (mkLongDirEntry, readLongEntryName).
LEMMA EntryRead ==
    ASSUME NEW n \in Seq(Alphabet), n # <<>>, NEW i \in 1 .. longEntries(n), NEW sum
    PROVE  readLongEntryName(mkLongDirEntry(n, i, sum)) =
              SubSeq(n, UnitsPerEntry * (i - 1) + 1, EndOf(n, i))
<1> DEFINE U == UnitsPerEntry
           Unit == Alphabet \cup {End, Fill}
           o == U * (i - 1)
           e == EndOf(n, i)
           t == SubSeq(n, o + 1, e)
           units == mkLongDirEntry(n, i, sum).units
           cut == Spots(units, End) \cup Spots(units, Fill)
<1>1. U \in Nat \ {0} /\ Len(n) \in Nat /\ longEntries(n) \in Nat /\ i \in Nat /\ i - 1 \in Nat
  <2>1. U \in Nat \ {0} /\ Len(n) \in Nat
    BY LenProperties, NameAssumption
  <2>2. longEntries(n) \in Nat
    BY EntriesAre
  <2>3. QED
    BY <2>1, <2>2
<1>2. o \in Nat /\ o < Len(n)
  <2>1. i - 1 \in 0 .. longEntries(n) - 1
    BY <1>1
  <2>2. U * (i - 1) < Len(n)
    BY <2>1, EntriesAre
  <2>3. U * (i - 1) \in Nat
    BY <1>1
  <2>4. QED
    BY <2>2, <2>3
<1>3. U * i = o + U
  BY <1>1
<1>4. (i - 1) * U = o
  BY <1>1
<1> HIDE DEF o
<1>5. e = IF o + U <= Len(n) THEN o + U ELSE Len(n)
  BY <1>3 DEF EndOf
<1> HIDE DEF U, e
<1>6. e \in Nat /\ o < e /\ e <= Len(n) /\ e - o <= U
  BY <1>1, <1>2, <1>5
<1> DEFINE c(k) == CASE o + k <= Len(n) -> n[o + k]
                     [] o + k = Len(n) + 1 -> End
                     [] OTHER -> Fill
<1>7. units = [k \in 1 .. U |-> c(k)]
  BY <1>4 DEF mkLongDirEntry, U
<1> HIDE DEF units
<1>8. /\ \A k \in 1 .. U : o + k <= Len(n) => c(k) = n[o + k] /\ n[o + k] \in Alphabet
      /\ \A k \in 1 .. U : o + k = Len(n) + 1 => c(k) = End
      /\ \A k \in 1 .. U : ~(o + k <= Len(n)) => c(k) \in {End, Fill}
  <2>1. \A k \in 1 .. U : o + k <= Len(n) => o + k \in 1 .. Len(n)
    BY <1>1, <1>2
  <2>2. \A k \in 1 .. U : o + k = Len(n) + 1 => ~(o + k <= Len(n))
    BY <1>1, <1>2
  <2>3. QED
    BY <2>1, <2>2, ElementOfSeq
<1> HIDE DEF c
<1>9. /\ units \in Seq(Unit) /\ Len(units) = U /\ DOMAIN units = 1 .. U
      /\ \A k \in 1 .. U : units[k] = c(k)
  <2>1. \A k \in 1 .. U : c(k) \in Unit
    BY <1>8
  <2> HIDE DEF Unit
  <2>2. QED
    BY <1>1, <1>7, <2>1
<1>10. /\ t \in Seq(Alphabet) /\ Len(t) = e - o
       /\ \A k \in 1 .. e - o : t[k] = n[o + k]
  <2> DEFINE m == o + 1
  <2>1. m \in Int /\ e \in Int /\ m <= e /\ e - m + 1 = e - o
    BY <1>2, <1>6
  <2>2. \A k \in m .. e : n[k] \in Alphabet
    <3>1. \A k \in m .. e : k \in 1 .. Len(n)
      BY <1>1, <1>2, <1>6
    <3>2. QED
      BY <3>1, ElementOfSeq
  <2>3. \A k \in 1 .. e - o : m + k - 1 = o + k
    BY <1>2, <1>6
  <2> HIDE DEF m
  <2>4. /\ SubSeq(n, m, e) \in Seq(Alphabet)
        /\ Len(SubSeq(n, m, e)) = (IF m <= e THEN e - m + 1 ELSE 0)
        /\ \A k \in 1 .. e - m + 1 : SubSeq(n, m, e)[k] = n[m + k - 1]
    BY <2>1, <2>2, SubSeqProperties
  <2>5. t = SubSeq(n, m, e)
    BY DEF m
  <2> HIDE DEF t
  <2>6. QED
    BY <2>1, <2>3, <2>4, <2>5
<1> HIDE DEF t
<1>11. t \in Seq(Unit) /\ Len(t) <= Len(units)
  BY <1>6, <1>9, <1>10, SeqMonotonic
<1> HIDE DEF Unit
<1>12. ASSUME NEW k \in 1 .. Len(t) PROVE t[k] = units[k] /\ k \notin cut
  <2>1. k \in 1 .. U /\ o + k <= Len(n)
    BY <1>1, <1>2, <1>6, <1>10
  <2>2. units[k] = n[o + k] /\ t[k] = n[o + k] /\ n[o + k] \in Alphabet
    BY <1>8, <1>9, <1>10, <2>1
  <2>3. units[k] # End /\ units[k] # Fill
    BY <2>2, CharIs
  <2>4. QED
    BY <2>2, <2>3 DEF Spots
<1>13. Len(t) = Len(units) \/ Len(t) + 1 \in cut
  <2>1. SUFFICES ASSUME Len(t) # U PROVE Len(t) + 1 \in Spots(units, End)
    BY <1>9
  <2>2. Len(t) + 1 \in 1 .. U /\ o + (Len(t) + 1) = Len(n) + 1
    BY <1>1, <1>2, <1>5, <1>6, <1>10, <2>1
  <2>3. units[Len(t) + 1] = End
    BY <1>8, <1>9, <2>2
  <2>4. QED
    BY <1>9, <2>2, <2>3 DEF Spots
<1>14. cut \in SUBSET (1 .. Len(units))
  BY <1>9 DEF Spots
<1> HIDE DEF cut
<1>15. Before(units, cut) = t
  BY <1>9, <1>11, <1>12, <1>13, <1>14, BeforeAt
<1>16. readLongEntryName(mkLongDirEntry(n, i, sum)) = Before(units, cut)
  BY DEF readLongEntryName, units, cut
<1>17. QED
  BY <1>15, <1>16 DEF t, o, U, e

\* The entries of a run, read one after the other, give the name
\* (lookupFileInner, fromIno), exact multiples of an entry included.
LEMMA LongReads ==
    ASSUME NEW n \in Seq(Alphabet), n # <<>>
    PROVE  /\ crtFileInner(n).long # <<>>
           /\ crtFileInner(n).long[1].sum = chkSum(genBasisNameFromLong(n))
           /\ longName(crtFileInner(n)) = n
<1> DEFINE count == longEntries(n)
           sum == chkSum(genBasisNameFromLong(n))
           long == [k \in 1 .. count |-> mkLongDirEntry(n, count + 1 - k, sum)]
           part(i) == SubSeq(n, UnitsPerEntry * (i - 1) + 1, EndOf(n, i))
           parts == [k \in 1 .. count |-> readLongEntryName(long[k])]
           rev == [k \in 1 .. count |-> part(k)]
<1>1. /\ count \in Nat \ {0} /\ Len(n) \in Nat /\ UnitsPerEntry \in Nat \ {0}
      /\ \A i \in 0 .. count - 1 : UnitsPerEntry * i < Len(n)
      /\ Len(n) <= UnitsPerEntry * count
  BY EntriesAre, LenProperties, NameAssumption
<1>2. crtFileInner(n).long = long
  BY DEF crtFileInner
<1> HIDE DEF count, sum
<1>3. ASSUME NEW k \in 1 .. count PROVE parts[k] = part(count + 1 - k)
  <2>1. count + 1 - k \in 1 .. longEntries(n)
    BY <1>1 DEF count
  <2>2. parts[k] = readLongEntryName(mkLongDirEntry(n, count + 1 - k, sum))
    OBVIOUS
  <2>3. QED
    BY <2>1, <2>2, EntryRead
<1>4. DOMAIN long = 1 .. count /\ long # <<>> /\ long[1].sum = sum
  <2>1. 1 \in 1 .. count
    BY <1>1
  <2>2. long[1] = mkLongDirEntry(n, count + 1 - 1, sum)
    BY <2>1
  <2>3. DOMAIN long = 1 .. count
    OBVIOUS
  <2>4. long # <<>>
    <3>1. DOMAIN <<>> = {}
      OBVIOUS
    <3>2. QED
      BY <2>1, <2>3, <3>1
  <2>5. QED
    BY <2>2, <2>3, <2>4 DEF mkLongDirEntry
<1>5. longName(crtFileInner(n)) = FlattenSeq(Reverse(parts))
  BY <1>2, <1>4 DEF longName
<1> HIDE DEF long, parts
<1>6. Reverse(parts) = rev
  <2>1. DOMAIN parts = 1 .. count
    BY DEF parts
  <2>2. Len(parts) = count
    BY <1>1 DEF parts
  <2>3. Reverse(parts) = [k \in 1 .. count |-> parts[(count - k) + 1]]
    BY <2>2 DEF Reverse
  <2>4. ASSUME NEW k \in 1 .. count PROVE parts[(count - k) + 1] = part(k)
    <3>1. (count - k) + 1 \in 1 .. count /\ count + 1 - ((count - k) + 1) = k
      BY <1>1
    <3>2. parts[(count - k) + 1] = part(count + 1 - ((count - k) + 1))
      BY <1>3, <3>1
    <3>3. QED
      BY <3>1, <3>2
  <2> HIDE DEF part
  <2>5. QED
    BY <2>3, <2>4
<1>7. \A i \in 0 .. count : EndOf(n, i) \in 0 .. Len(n)
  <2>1. TAKE i \in 0 .. count
  <2>2. UnitsPerEntry * i \in Nat
    BY <1>1
  <2>3. QED
    BY <1>1, <2>2 DEF EndOf
<1>8. ASSUME NEW i \in 1 .. count
      PROVE  /\ EndOf(n, i - 1) = UnitsPerEntry * (i - 1)
             /\ EndOf(n, i - 1) \in 0 .. EndOf(n, i) - 1
  <2>1. i - 1 \in 0 .. count - 1 /\ i \in 0 .. count
    BY <1>1
  <2>2. UnitsPerEntry * (i - 1) < Len(n)
    BY <1>1, <2>1
  <2>3. UnitsPerEntry * (i - 1) \in Nat /\ UnitsPerEntry * i = UnitsPerEntry * (i - 1) + UnitsPerEntry
    BY <1>1
  <2>4. QED
    BY <1>1, <2>2, <2>3 DEF EndOf
<1>9. \A i \in 1 .. count : part(i) = SubSeq(n, EndOf(n, i - 1) + 1, EndOf(n, i))
  BY <1>8
<1> HIDE DEF part
<1>10. rev \in Seq(Seq(Alphabet)) /\ Len(rev) = count /\ rev # <<>>
  <2>1. ASSUME NEW i \in 1 .. count PROVE part(i) \in Seq(Alphabet)
    <3> DEFINE m == EndOf(n, i - 1) + 1
               e == EndOf(n, i)
    <3>1. m \in Int /\ e \in Int /\ \A k \in m .. e : k \in 1 .. Len(n)
      <4>1. i \in 0 .. count
        BY <1>1
      <4>2. QED
        BY <1>1, <1>7, <1>8, <4>1
    <3>2. \A k \in m .. e : n[k] \in Alphabet
      BY <3>1, ElementOfSeq
    <3>3. part(i) = SubSeq(n, m, e)
      BY <1>9
    <3> HIDE DEF m, e
    <3>4. QED
      BY <3>1, <3>2, <3>3, SubSeqProperties
  <2>2. rev \in Seq(Seq(Alphabet)) /\ Len(rev) = count
    BY <1>1, <2>1
  <2>3. QED
    BY <1>1, <2>2, EmptySeq
<1>11. \A i \in 1 .. count : rev[i] = part(i)
  OBVIOUS
<1> HIDE DEF rev
<1>12. PICK f \in [1 .. count -> Seq(Alphabet)] :
          /\ f[1] = rev[1]
          /\ \A i \in 2 .. count : f[i] = f[i - 1] \o rev[i]
          /\ FlattenSeq(rev) = f[count]
  BY <1>10, FlattenIs
<1> DEFINE T == {k \in Nat : k < count => f[k + 1] = SubSeq(n, 1, EndOf(n, k + 1))}
<1>13. 0 \in T
  <2>1. 1 \in 1 .. count /\ 0 + 1 = 1 /\ 1 - 1 = 0
    BY <1>1
  <2>2. EndOf(n, 0) = 0
    BY <1>1, <1>8, <2>1
  <2>3. f[1] = SubSeq(n, 0 + 1, EndOf(n, 1))
    BY <1>9, <1>11, <1>12, <2>1, <2>2
  <2>4. QED
    BY <2>1, <2>3
<1>14. ASSUME NEW k \in T PROVE k + 1 \in T
  <2>1. SUFFICES ASSUME k + 1 < count PROVE f[k + 2] = SubSeq(n, 1, EndOf(n, k + 2))
    <3>1. (k + 1) + 1 = k + 2 /\ k + 1 \in Nat
      OBVIOUS
    <3>2. QED
      BY <3>1
  <2>2. /\ k \in Nat /\ k < count /\ k + 2 \in 2 .. count /\ k + 2 \in 1 .. count
        /\ (k + 2) - 1 = k + 1 /\ k + 1 \in 1 .. count
    BY <1>1, <2>1
  <2>3. f[k + 1] = SubSeq(n, 1, EndOf(n, k + 1))
    BY <2>2
  <2>4. f[k + 2] = f[k + 1] \o SubSeq(n, EndOf(n, k + 1) + 1, EndOf(n, k + 2))
    BY <1>9, <1>11, <1>12, <2>2
  <2>5. /\ 1 \in 1 .. Len(n) + 1 /\ EndOf(n, k + 1) \in 1 - 1 .. Len(n)
        /\ EndOf(n, k + 2) \in EndOf(n, k + 1) .. Len(n)
    <3>1. k + 1 \in 0 .. count /\ k + 2 \in 0 .. count
      BY <2>2
    <3>2. EndOf(n, k + 1) \in 0 .. EndOf(n, k + 2) - 1
      BY <1>8, <2>2
    <3>3. EndOf(n, k + 1) \in 0 .. Len(n) /\ EndOf(n, k + 2) \in 0 .. Len(n)
      BY <1>7, <3>1
    <3>4. QED
      BY <1>1, <3>2, <3>3
  <2>6. SubSeq(n, 1, EndOf(n, k + 1)) \o SubSeq(n, EndOf(n, k + 1) + 1, EndOf(n, k + 2))
           = SubSeq(n, 1, EndOf(n, k + 2))
    BY <2>5, ConcatAdjacentSubSeq
  <2>7. QED
    BY <2>3, <2>4, <2>6
<1>15. T = Nat
  BY <1>13, <1>14, NatInduct
<1>16. f[count] = SubSeq(n, 1, EndOf(n, count))
  <2>1. count - 1 \in Nat /\ count - 1 < count /\ (count - 1) + 1 = count
    BY <1>1
  <2>2. count - 1 \in T
    BY <1>15, <2>1
  <2>3. QED
    BY <2>1, <2>2
<1>17. EndOf(n, count) = Len(n)
  <2>1. UnitsPerEntry * count \in Nat
    BY <1>1
  <2>2. QED
    BY <1>1, <2>1 DEF EndOf
<1>18. longName(crtFileInner(n)) = n
  BY <1>5, <1>6, <1>12, <1>16, <1>17, SubSeqFull
<1>19. QED
  BY <1>2, <1>4, <1>18 DEF sum

-----------------------------------------------------------------------------
(***************************************************************************)
(* From GBK and back.                                                      *)
(***************************************************************************)
\* The characters read when the first k bytes are, for every k.
Decodes(s, g, k) == g = [j \in 0 .. k |-> IF j = 0 THEN <<>> ELSE decoded(g[j - 1], s[j])]

\* The characters read of the first bytes exist, however many bytes there are.
LEMMA DecodingExists ==
    ASSUME NEW s
    PROVE  \A k \in Nat : \E g : Decodes(s, g, k)
<1> DEFINE S == {k \in Nat : \E g : g = [j \in 0 .. k |-> IF j = 0 THEN <<>> ELSE decoded(g[j - 1], s[j])]}
<1>1. 0 \in S
  <2> DEFINE g == [j \in 0 .. 0 |-> <<>>]
  <2>1. g = [j \in 0 .. 0 |-> IF j = 0 THEN <<>> ELSE decoded(g[j - 1], s[j])]
    OBVIOUS
  <2> HIDE DEF g
  <2>2. QED
    BY <2>1
<1>2. ASSUME NEW k \in S PROVE k + 1 \in S
  <2>1. PICK f : f = [j \in 0 .. k |-> IF j = 0 THEN <<>> ELSE decoded(f[j - 1], s[j])]
    OBVIOUS
  <2> DEFINE step(h, j) == IF j = 0 THEN <<>> ELSE decoded(h[j - 1], s[j])
             g == [j \in 0 .. k + 1 |-> IF j <= k THEN f[j] ELSE step(f, j)]
  <2>2. \A j \in 0 .. k + 1 : step(g, j) = step(f, j)
    <3>1. \A j \in 0 .. k + 1 : j # 0 => g[j - 1] = f[j - 1]
      OBVIOUS
    <3> HIDE DEF g
    <3>2. QED
      BY <3>1
  <2>3. \A j \in 0 .. k : f[j] = step(f, j)
    BY <2>1
  <2>4. g = [j \in 0 .. k + 1 |-> step(f, j)]
    <3> HIDE DEF step
    <3>1. QED
      BY <2>3
  <2>5. g = [j \in 0 .. k + 1 |-> step(g, j)]
    <3> HIDE DEF g, step
    <3>1. QED
      BY <2>2, <2>4
  <2> HIDE DEF g
  <2>6. \E h : h = [j \in 0 .. k + 1 |-> IF j = 0 THEN <<>> ELSE decoded(h[j - 1], s[j])]
    BY <2>5
  <2>7. k + 1 \in Nat
    OBVIOUS
  <2>8. QED
    BY <2>6, <2>7
<1>3. S = Nat
  BY <1>1, <1>2, NatInduct
<1>4. QED
  BY <1>3 DEF Decodes

\* gbkToUtf8 reads one byte after the other.
Decoding(s, g) ==
    /\ g[0] = <<>>
    /\ \A j \in 1 .. Len(s) : g[j] = decoded(g[j - 1], s[j])
    /\ gbkToUtf8(s) = g[Len(s)]

\* gbkToUtf8 answers the last member of such a sequence.
LEMMA DecodeIs ==
    ASSUME NEW s \in Seq(Byte)
    PROVE  \E g : Decoding(s, g)
<1> DEFINE n == Len(s)
           g == CHOOSE h : Decodes(s, h, n)
<1>1. n \in Nat
  BY LenProperties
<1>2. gbkToUtf8(s) = g[n]
  BY DEF gbkToUtf8, Decodes
<1>3. Decodes(s, g, n)
  <2>1. \E h : Decodes(s, h, n)
    BY <1>1, DecodingExists
  <2>2. QED
    BY <2>1
<1> HIDE DEF g, n
<1>4. \A j \in 0 .. n : g[j] = IF j = 0 THEN <<>> ELSE decoded(g[j - 1], s[j])
  BY <1>3 DEF Decodes
<1>5. 0 \in 0 .. n /\ \A j \in 1 .. n : j \in 0 .. n /\ j # 0
  BY <1>1
<1>6. g[0] = <<>> /\ \A j \in 1 .. n : g[j] = decoded(g[j - 1], s[j])
  BY <1>4, <1>5
<1>7. QED
  BY <1>2, <1>6 DEF n, Decoding

\* What the bytes of one more character add to complete ones: the first is not
\* taken for the second of the character before, and a byte above 128 waits for
\* its second.
LEMMA DecodedChar ==
    ASSUME NEW n \in Seq(Alphabet), NEW ch \in Alphabet
    PROVE  /\ Len(ch) = 1 => decoded(n, ch[1]) = Append(n, ch)
           /\ Len(ch) = 2 => decoded(decoded(n, ch[1]), ch[2]) = Append(n, ch)
<1> DEFINE Text == Seq(Byte)
<1>1. /\ ch \in Seq(Byte) /\ Len(ch) \in {1, 2}
      /\ Len(ch) = 2 => ch[1] > 128
  BY CharIs
<1>2. n \in Seq(Text)
  <2>1. Alphabet \subseteq Text
    BY CharIs
  <2>2. QED
    BY <2>1, SeqMonotonic
<1>3. ch[1] \in Byte /\ (Len(ch) = 2 => ch[2] \in Byte)
  BY <1>1, ElementOfSeq
<1>4. ~(n # <<>> /\ Len(Last(n)) = 1 /\ Last(n)[1] > 128)
  <2>1. SUFFICES ASSUME n # <<>>, Len(Last(n)) = 1 PROVE ~(Last(n)[1] > 128)
    OBVIOUS
  <2>2. Len(n) \in Nat \ {0}
    BY <2>1, EmptySeq
  <2>3. n[Len(n)] \in Alphabet
    BY <2>2, ElementOfSeq
  <2> DEFINE l == Last(n)
  <2>4. l \in Alphabet /\ Len(l) = 1
    BY <2>1, <2>3 DEF Last
  <2> HIDE DEF l
  <2>5. l \in Seq(Byte) /\ l[1] < 128
    BY <2>4, CharIs
  <2>6. l[1] \in 0 .. 255
    <3>1. 1 \in 1 .. Len(l)
      BY <2>4
    <3>2. QED
      BY <2>5, <3>1, ElementOfSeq DEF Byte
  <2>7. ~(l[1] > 128)
    <3>1. \A x \in 0 .. 255 : x < 128 => ~(x > 128)
      OBVIOUS
    <3>2. QED
      BY <2>5, <2>6, <3>1
  <2>8. QED
    BY <2>7 DEF l
<1>5. decoded(n, ch[1]) = Append(n, <<ch[1]>>)
  BY <1>4 DEF decoded
<1>6. CASE Len(ch) = 1
  <2>1. <<ch[1]>> = ch
    <3>1. <<ch[1]>> \in Seq(Byte) /\ Len(<<ch[1]>>) = 1 /\ <<ch[1]>>[1] = ch[1]
      BY <1>3
    <3>2. QED
      BY <1>1, <1>6, <3>1, SeqEqual
  <2>2. QED
    BY <1>5, <1>6, <2>1
<1>7. CASE Len(ch) = 2
  <2> DEFINE m == Append(n, <<ch[1]>>)
  <2>1. <<ch[1]>> \in Text
    BY <1>3
  <2> HIDE DEF Text
  <2>2. /\ m \in Seq(Text) /\ m # <<>> /\ Len(m) = Len(n) + 1
        /\ \A i \in 1 .. Len(n) : m[i] = n[i]
        /\ m[Len(n) + 1] = <<ch[1]>>
    BY <1>2, <2>1, AppendProperties
  <2> HIDE DEF m
  <2>3. Len(n) \in Nat
    BY LenProperties
  <2>4. Last(m) = <<ch[1]>> /\ Len(Last(m)) = 1 /\ Last(m)[1] > 128
    BY <1>1, <1>7, <2>2 DEF Last
  <2>5. Front(m) = n
    <3>1. Front(m) = SubSeq(m, 1, Len(n))
      BY <2>2, <2>3 DEF Front
    <3>2. /\ SubSeq(m, 1, Len(n)) \in Seq(Text)
          /\ Len(SubSeq(m, 1, Len(n))) = (IF 1 <= Len(n) THEN Len(n) - 1 + 1 ELSE 0)
          /\ \A i \in 1 .. Len(n) - 1 + 1 : SubSeq(m, 1, Len(n))[i] = m[1 + i - 1]
      <4>1. 1 \in Int /\ Len(n) \in Int /\ \A i \in 1 .. Len(n) : m[i] \in Text
        BY <1>2, <2>2, <2>3, ElementOfSeq
      <4>2. QED
        BY <4>1, SubSeqProperties
    <3>3. Len(SubSeq(m, 1, Len(n))) = Len(n)
      BY <2>3, <3>2
    <3>4. \A i \in 1 .. Len(n) : SubSeq(m, 1, Len(n))[i] = n[i]
      <4>1. \A i \in 1 .. Len(n) : i \in 1 .. Len(n) - 1 + 1 /\ 1 + i - 1 = i
        BY <2>3
      <4>2. QED
        BY <2>2, <3>2, <4>1
    <3>5. QED
      BY <1>2, <3>1, <3>2, <3>3, <3>4, SeqEqual
  <2>6. <<ch[1], ch[2]>> = ch
    <3>1. /\ <<ch[1], ch[2]>> \in Seq(Byte) /\ Len(<<ch[1], ch[2]>>) = 2
          /\ <<ch[1], ch[2]>>[1] = ch[1] /\ <<ch[1], ch[2]>>[2] = ch[2]
      BY <1>3, <1>7
    <3>2. \A i \in 1 .. 2 : i = 1 \/ i = 2
      OBVIOUS
    <3>3. QED
      BY <1>1, <1>7, <3>1, <3>2, SeqEqual
  <2>7. decoded(m, ch[2]) = Append(Front(m), <<Last(m)[1], ch[2]>>)
    BY <2>2, <2>4 DEF decoded
  <2>8. Last(m)[1] = ch[1]
    BY <2>4
  <2>9. decoded(m, ch[2]) = Append(n, ch)
    BY <2>5, <2>6, <2>7, <2>8
  <2>10. decoded(n, ch[1]) = m
    BY <1>5 DEF m
  <2>11. QED
    BY <1>7, <2>9, <2>10
<1>8. QED
  BY <1>1, <1>6, <1>7

\* A name in GBK is read back as the characters it was made of: no byte is
\* taken for a part of a wrong character (utf8ToGbk, gbkToUtf8).
LEMMA RoundTrip ==
    ASSUME NEW n \in Seq(Alphabet), n # <<>>
    PROVE  utf8ToGbk(n) \in Seq(Byte) /\ gbkToUtf8(utf8ToGbk(n)) = n
<1> DEFINE N == Len(n)
           s == utf8ToGbk(n)
<1>1. N \in Nat \ {0} /\ \A i \in 1 .. N : n[i] \in Alphabet
  BY EmptySeq, ElementOfSeq
<1>2. n \in Seq(Seq(Byte))
  <2>1. Alphabet \subseteq Seq(Byte)
    BY CharIs
  <2>2. QED
    BY <2>1, SeqMonotonic
<1>3. PICK f \in [1 .. N -> Seq(Byte)] :
         f[1] = n[1] /\ (\A i \in 2 .. N : f[i] = f[i - 1] \o n[i]) /\ s = f[N]
  BY <1>2, FlattenIs DEF utf8ToGbk
<1> HIDE DEF N, s
<1>4. N \in 1 .. N /\ s \in Seq(Byte)
  BY <1>1, <1>3
<1>d. PICK g : Decoding(s, g)
  BY <1>4, DecodeIs
<1>5. /\ g[0] = <<>> /\ \A j \in 1 .. Len(s) : g[j] = decoded(g[j - 1], s[j])
      /\ gbkToUtf8(s) = g[Len(s)]
  BY <1>d DEF Decoding
\* Every prefix of characters is a prefix of bytes.
<1> DEFINE Begins(i) == Len(f[i]) <= Len(s) /\ \A q \in 1 .. Len(f[i]) : s[q] = f[i][q]
           T == {d \in Nat : d < N => Begins(N - d)}
<1>6. 0 \in T
  BY <1>1, <1>3, <1>4, LenProperties
<1>7. ASSUME NEW d \in T PROVE d + 1 \in T
  <2>1. SUFFICES ASSUME d + 1 < N PROVE Begins(N - (d + 1))
    OBVIOUS
  <2> DEFINE i == N - (d + 1)
  <2>2. i \in 1 .. N /\ i + 1 \in 2 .. N /\ i + 1 \in 1 .. N /\ N - d = i + 1 /\ d < N /\ (i + 1) - 1 = i
    BY <1>1, <2>1
  <2> HIDE DEF i
  <2>3. Begins(i + 1)
    BY <2>2
  <2>4. f[i + 1] = f[i] \o n[i + 1] /\ f[i] \in Seq(Byte) /\ n[i + 1] \in Seq(Byte)
    BY <1>1, <1>2, <1>3, <2>2, CharIs
  <2> DEFINE u == f[i]
             v == n[i + 1]
             w == f[i + 1]
  <2>5. w = u \o v /\ u \in Seq(Byte) /\ v \in Seq(Byte)
    BY <2>4
  <2>6. Len(w) <= Len(s) /\ \A q \in 1 .. Len(w) : s[q] = w[q]
    BY <2>3
  <2> HIDE DEF u, v, w
  <2>7. Begins(i)
    <3>1. /\ Len(u) \in Nat /\ Len(v) \in Nat /\ Len(u \o v) = Len(u) + Len(v)
          /\ \A q \in 1 .. Len(u) : q \in 1 .. Len(u \o v) /\ (u \o v)[q] = u[q]
      BY <2>5, PairIs
    <3>2. Len(s) \in Nat
      BY <1>4, LenProperties
    <3>3. Len(u) <= Len(s)
      BY <2>5, <2>6, <3>1, <3>2
    <3>4. \A q \in 1 .. Len(u) : s[q] = u[q]
      BY <2>5, <2>6, <3>1
    <3>5. QED
      BY <3>3, <3>4 DEF u
  <2>8. QED
    BY <2>7 DEF i
<1>8. T = Nat
  BY <1>6, <1>7, NatInduct
<1>9. \A i \in 1 .. N : Begins(i)
  <2>1. SUFFICES ASSUME NEW i \in 1 .. N PROVE Begins(i)
    OBVIOUS
  <2>2. N - i \in Nat /\ N - i < N /\ N - (N - i) = i
    BY <1>1
  <2> HIDE DEF Begins
  <2>3. N - i \in T
    BY <1>8, <2>2
  <2>4. QED
    BY <2>2, <2>3
\* Where a character ends, the characters up to it have been read.
<1> DEFINE R == {k \in Nat : k < N => g[Len(f[k + 1])] = SubSeq(n, 1, k + 1)}
<1>10. ASSUME NEW i \in 1 .. N, NEW p \in Nat, g[p] = SubSeq(n, 1, i - 1),
              Len(f[i]) = p + Len(n[i]), \A q \in 1 .. Len(n[i]) : f[i][p + q] = n[i][q]
       PROVE  g[Len(f[i])] = SubSeq(n, 1, i)
  <2> DEFINE m == SubSeq(n, 1, i - 1)
             ch == n[i]
  <2>1. m \in Seq(Alphabet) /\ SubSeq(n, 1, i) = Append(m, ch)
    <3>1. 1 \in 1 .. Len(n) /\ i \in 1 .. Len(n)
      BY <1>1 DEF N
    <3>2. SubSeq(n, 1, i) = m \o <<ch>>
      BY <3>1, SubSeqRecursiveSecond
    <3>3. m \in Seq(Alphabet)
      <4>1. 1 \in Int /\ i - 1 \in Int /\ \A k \in 1 .. i - 1 : n[k] \in Alphabet
        BY <1>1
      <4>2. QED
        BY <4>1, SubSeqProperties
    <3>4. ch \in Alphabet
      BY <1>1
    <3> HIDE DEF m, ch
    <3>5. QED
      BY <3>2, <3>3, <3>4, AppendIsConcat
  <2>2. ch \in Alphabet /\ Len(ch) \in {1, 2}
    BY <1>1, CharIs
  <2>3. Len(f[i]) <= Len(s) /\ \A q \in 1 .. Len(f[i]) : s[q] = f[i][q]
    BY <1>9
  <2>4. Len(s) \in Nat
    BY <1>4, LenProperties
  <2> HIDE DEF m
  <2>5. \A q \in 1 .. Len(ch) : g[p + q] = decoded(g[p + q - 1], ch[q])
    <3>1. SUFFICES ASSUME NEW q \in 1 .. Len(ch) PROVE g[p + q] = decoded(g[p + q - 1], ch[q])
      OBVIOUS
    <3>2. p + q \in 1 .. Len(f[i]) /\ p + q \in 1 .. Len(s)
      BY <1>10, <2>2, <2>3, <2>4
    <3>3. s[p + q] = ch[q]
      BY <1>10, <2>3, <3>2
    <3>4. QED
      BY <1>5, <3>2, <3>3
  <2> HIDE DEF ch
  <2>6. CASE Len(ch) = 1
    <3>1. 1 \in 1 .. Len(ch) /\ p + 1 - 1 = p /\ Len(f[i]) = p + 1
      BY <1>10, <2>6 DEF ch
    <3>2. g[p + 1] = decoded(m, ch[1])
      BY <1>10, <2>5, <3>1 DEF m
    <3>3. QED
      BY <2>1, <2>2, <2>6, <3>1, <3>2, DecodedChar
  <2>7. CASE Len(ch) = 2
    <3>1. /\ 1 \in 1 .. Len(ch) /\ 2 \in 1 .. Len(ch) /\ p + 1 - 1 = p /\ p + 2 - 1 = p + 1
          /\ Len(f[i]) = p + 2
      BY <1>10, <2>7 DEF ch
    <3>2. g[p + 1] = decoded(m, ch[1]) /\ g[p + 2] = decoded(g[p + 1], ch[2])
      BY <1>10, <2>5, <3>1 DEF m
    <3>3. QED
      BY <2>1, <2>2, <2>7, <3>1, <3>2, DecodedChar
  <2>8. QED
    BY <2>2, <2>6, <2>7
<1>11. 0 \in R
  <2>1. 1 \in 1 .. N /\ 0 + 1 = 1 /\ 1 - 1 = 0 /\ 0 \in Nat
    BY <1>1
  <2>2. Len(f[1]) = 0 + Len(n[1]) /\ \A q \in 1 .. Len(n[1]) : f[1][0 + q] = n[1][q]
    <3>1. Len(n[1]) \in Nat
      BY <1>1, <2>1, CharIs
    <3>2. QED
      BY <1>3, <3>1
  <2>3. SubSeq(n, 1, 0) = <<>>
    BY SubSeqEmpty
  <2>4. g[Len(f[1])] = SubSeq(n, 1, 1)
    BY <1>5, <1>10, <2>1, <2>2, <2>3
  <2>5. QED
    BY <2>1, <2>4
<1>12. ASSUME NEW k \in R PROVE k + 1 \in R
  <2>1. SUFFICES ASSUME k + 1 < N PROVE g[Len(f[k + 2])] = SubSeq(n, 1, k + 2)
    <3>1. (k + 1) + 1 = k + 2 /\ k + 1 \in Nat
      OBVIOUS
    <3>2. QED
      BY <3>1
  <2>2. /\ k \in Nat /\ k < N /\ k + 2 \in 2 .. N /\ k + 2 \in 1 .. N /\ k + 1 \in 1 .. N
        /\ (k + 2) - 1 = k + 1
    BY <1>1, <2>1
  <2>3. g[Len(f[k + 1])] = SubSeq(n, 1, k + 1)
    BY <2>2
  <2>4. f[k + 2] = f[k + 1] \o n[k + 2] /\ f[k + 1] \in Seq(Byte) /\ n[k + 2] \in Seq(Byte)
    BY <1>1, <1>3, <2>2, CharIs
  <2> DEFINE u == f[k + 1]
             v == n[k + 2]
  <2> HIDE DEF u, v
  <2>5. u \in Seq(Byte) /\ v \in Seq(Byte)
    BY <2>4 DEF u, v
  <2>6. /\ Len(u) \in Nat /\ Len(u \o v) = Len(u) + Len(v)
        /\ \A q \in 1 .. Len(v) : (u \o v)[Len(u) + q] = v[q]
    BY <2>5, PairIs
  <2>7. /\ Len(f[k + 1]) \in Nat /\ Len(f[k + 2]) = Len(f[k + 1]) + Len(n[k + 2])
        /\ \A q \in 1 .. Len(n[k + 2]) : f[k + 2][Len(f[k + 1]) + q] = n[k + 2][q]
    BY <2>4, <2>6 DEF u, v
  <2>8. g[Len(f[k + 1])] = SubSeq(n, 1, (k + 2) - 1)
    BY <2>2, <2>3
  <2>9. QED
    BY <1>10, <2>2, <2>7, <2>8
<1>13. R = Nat
  BY <1>11, <1>12, NatInduct
<1>14. g[Len(s)] = SubSeq(n, 1, N)
  <2>1. N - 1 \in Nat /\ N - 1 < N /\ (N - 1) + 1 = N
    BY <1>1
  <2>2. N - 1 \in R
    BY <1>13, <2>1
  <2>3. QED
    BY <1>3, <2>1, <2>2
<1>15. QED
  BY <1>4, <1>5, <1>14, SubSeqFull DEF N, s

-----------------------------------------------------------------------------
(***************************************************************************)
(* Names that were created, and short names of other drivers.              *)
(***************************************************************************)
\* The first byte of a short name is that of its primary part, or a space.
LEMMA FirstByte ==
    ASSUME NEW p \in Seq(Byte), NEW e \in Seq(Byte)
    PROVE  /\ basis(p, e) \in Seq(Byte) /\ Len(basis(p, e)) = PrimarySize + ExtensionSize
           /\ basis(p, e)[1] = IF 1 <= Len(p) THEN p[1] ELSE Space
<1>1. PrimarySize \in Nat \ {0} /\ ExtensionSize \in Nat
  BY NameAssumption
<1> DEFINE pp == Padded(p, PrimarySize)
           pe == Padded(e, ExtensionSize)
<1>2. /\ pp \in Seq(Byte) /\ Len(pp) = PrimarySize /\ pe \in Seq(Byte) /\ Len(pe) = ExtensionSize
      /\ \A k \in 1 .. PrimarySize : pp[k] = IF k <= Len(p) THEN p[k] ELSE Space
  BY <1>1, PaddedIs
<1> HIDE DEF pp, pe
<1>3. /\ pp \o pe \in Seq(Byte) /\ Len(pp \o pe) = Len(pp) + Len(pe)
      /\ \A q \in 1 .. Len(pp) : (pp \o pe)[q] = pp[q]
  BY <1>2, PairIs
<1>4. 1 \in 1 .. PrimarySize
  BY <1>1
<1>5. QED
  BY <1>2, <1>3, <1>4 DEF basis, pp, pe

\* The run of a plain name is read as that name, whichever name it is looked up
\* for: the short entry is in use, and its checksum is the one in the long
\* entries.
LEMMA PlainRun ==
    ASSUME NEW n \in Seq(Alphabet), n # <<>>, Plain(n)
    PROVE  \A m : lookupFileInner(crtFileInner(n), m) = "found" <=> m = n
<1> DEFINE p == primary(core(n))
           e == extension(core(n))
           b == basis(p, e)
           run == crtFileInner(n)
           read == readShortEntryName(run.short)
<1>1. /\ p \in Seq(Byte) /\ Len(p) <= PrimarySize
      /\ e \in Seq(Byte) /\ Len(e) <= ExtensionSize
      /\ \A k \in 1 .. Len(p) : p[k] # Period /\ p[k] # 0
  BY CoreIs, PartsAre
<1>2. genBasisNameFromLong(n) = b /\ run.short = b
  BY DEF genBasisNameFromLong, crtFileInner
<1>3. /\ \A k \in 1 .. Len(p) : p[k] # Space
      /\ \A k \in 1 .. Len(e) : e[k] # Space
      /\ b[1] # ErasedMark /\ b[1] # KanjiMark
  <2>1. Space \notin ToSet(p) /\ Space \notin ToSet(e) /\ b[1] # ErasedMark /\ b[1] # KanjiMark
    BY <1>2 DEF Plain
  <2> HIDE DEF p, e
  <2>2. DOMAIN p = 1 .. Len(p) /\ DOMAIN e = 1 .. Len(e)
    BY <1>1, LenProperties
  <2>3. QED
    BY <2>1, <2>2 DEF ToSet
<1> HIDE DEF p, e
<1>4. read = Joined(p, e) /\ genBasisNameFromShort(read) = b
  BY <1>1, <1>2, <1>3, ShortReads, ShortRegained
<1>5. parseEntryType(run.short) = "KExist"
  <2>1. Len(p) \in Nat /\ (1 <= Len(p) => 1 \in 1 .. Len(p))
    BY <1>1, LenProperties
  <2>2. b[1] = IF 1 <= Len(p) THEN p[1] ELSE Space
    BY <1>1, FirstByte
  <2>3. b[1] # 0
    BY <1>1, <2>1, <2>2 DEF Space
  <2> HIDE DEF b
  <2>4. QED
    BY <1>2, <1>3, <2>3 DEF parseEntryType
<1>6. run.long # <<>> /\ run.long[1].sum = chkSum(b) /\ longName(run) = n
  BY <1>2, LongReads
<1> HIDE DEF b, run
<1>7. TAKE m
<1>8. lookupFileInner(run, m) =
         CASE parseEntryType(run.short) # "KExist" -> "absent"
           [] run.long # <<>> /\ chkSum(genBasisNameFromShort(read)) # run.long[1].sum -> "aborts"
           [] \/ run.long # <<>> /\ longName(run) = m
              \/ run.long = <<>> /\ read = utf8ToGbk(toUpper(m)) -> "found"
           [] OTHER -> "absent"
  BY DEF lookupFileInner
<1> HIDE DEF read
<1>9. chkSum(genBasisNameFromShort(read)) = run.long[1].sum
  BY <1>4, <1>6
<1>10. QED
  BY <1>5, <1>6, <1>8, <1>9 DEF run

\* An entry whose first byte stands for ErasedMark reads as the one it stands
\* for (readShortEntryName).
LEMMA KanjiRead ==
    ASSUME NEW b \in Seq(Byte), Len(b) = PrimarySize + ExtensionSize, b[1] = ErasedMark
    PROVE  readShortEntryName([b EXCEPT ![1] = KanjiMark]) = readShortEntryName(b)
<1> DEFINE c == [b EXCEPT ![1] = KanjiMark]
           u == Upto(b, PrimarySize)
           v == Upto(c, PrimarySize)
           x == SubSeq(b, PrimarySize + 1, PrimarySize + ExtensionSize)
           y == SubSeq(c, PrimarySize + 1, PrimarySize + ExtensionSize)
           fu == Before(u, Spots(u, Space))
           fv == Before(v, Spots(v, Space))
<1>1. PrimarySize \in Nat \ {0} /\ ExtensionSize \in Nat /\ PrimarySize + ExtensionSize \in Nat
      /\ PrimarySize <= PrimarySize + ExtensionSize /\ 1 \in 1 .. PrimarySize
      /\ KanjiMark \in Byte /\ KanjiMark # Space /\ ErasedMark # Space /\ ErasedMark # KanjiMark
  <2>1. PrimarySize \in Nat \ {0} /\ ExtensionSize \in Nat
    BY NameAssumption
  <2>2. PrimarySize + ExtensionSize \in Nat /\ PrimarySize <= PrimarySize + ExtensionSize
    BY <2>1
  <2>3. KanjiMark \in Byte /\ KanjiMark # Space /\ ErasedMark # Space /\ ErasedMark # KanjiMark
    BY DEF KanjiMark, Byte, Space, ErasedMark
  <2>4. QED
    BY <2>1, <2>2, <2>3
<1>2. /\ c \in Seq(Byte) /\ Len(c) = Len(b) /\ c[1] = KanjiMark
      /\ \A k \in 1 .. Len(b) : k # 1 => c[k] = b[k]
  <2>1. 1 \in 1 .. Len(b)
    BY <1>1
  <2>2. QED
    BY <1>1, <2>1, ExceptSeq
<1> HIDE DEF c
<1>3. /\ u \in Seq(Byte) /\ Len(u) = PrimarySize /\ DOMAIN u = 1 .. PrimarySize
      /\ v \in Seq(Byte) /\ Len(v) = PrimarySize /\ DOMAIN v = 1 .. PrimarySize
      /\ \A k \in 1 .. PrimarySize : u[k] = b[k] /\ v[k] = c[k]
  <2>1. /\ u \in Seq(Byte) /\ Len(u) = (IF PrimarySize <= Len(b) THEN PrimarySize ELSE Len(b))
        /\ \A k \in 1 .. Len(u) : u[k] = b[k]
    BY <1>1, UptoIs
  <2>2. /\ v \in Seq(Byte) /\ Len(v) = (IF PrimarySize <= Len(c) THEN PrimarySize ELSE Len(c))
        /\ \A k \in 1 .. Len(v) : v[k] = c[k]
    BY <1>1, <1>2, UptoIs
  <2> HIDE DEF u, v
  <2>3. QED
    BY <1>1, <1>2, <2>1, <2>2, LenProperties
<1> HIDE DEF u, v
<1>4. /\ u[1] = ErasedMark /\ v[1] = KanjiMark
      /\ \A k \in 1 .. PrimarySize : k # 1 => v[k] = u[k]
  <2>1. \A k \in 1 .. PrimarySize : k \in 1 .. Len(b)
    BY <1>1
  <2>2. QED
    BY <1>1, <1>2, <1>3, <2>1
<1>5. Spots(u, Space) = Spots(v, Space) /\ Spots(u, Space) \in SUBSET (1 .. PrimarySize)
      /\ 1 \notin Spots(u, Space)
  BY <1>1, <1>3, <1>4 DEF Spots
<1> DEFINE cut == Spots(u, Space)
<1> HIDE DEF cut
<1>6. /\ fu \in Seq(Byte) /\ Len(fu) \in 0 .. PrimarySize
      /\ \A k \in 1 .. Len(fu) : fu[k] = u[k] /\ k \notin cut
      /\ Len(fu) = PrimarySize \/ Len(fu) + 1 \in cut
  BY <1>3, <1>5, BeforeIs DEF cut
<1>7. /\ fv \in Seq(Byte) /\ Len(fv) \in 0 .. PrimarySize
      /\ \A k \in 1 .. Len(fv) : fv[k] = v[k] /\ k \notin cut
      /\ Len(fv) = PrimarySize \/ Len(fv) + 1 \in cut
  BY <1>3, <1>5, BeforeIs DEF cut
<1> HIDE DEF fu, fv
<1>8. Len(fv) = Len(fu) /\ 1 \in 1 .. Len(fu)
  <2>1. ~(Len(fu) < Len(fv))
    <3>1. SUFFICES ASSUME Len(fu) < Len(fv) PROVE FALSE
      OBVIOUS
    <3>2. Len(fu) + 1 \in 1 .. Len(fv) /\ Len(fu) # PrimarySize
      BY <1>1, <1>6, <1>7, <3>1
    <3>3. QED
      BY <1>6, <1>7, <3>2
  <2>2. ~(Len(fv) < Len(fu))
    <3>1. SUFFICES ASSUME Len(fv) < Len(fu) PROVE FALSE
      OBVIOUS
    <3>2. Len(fv) + 1 \in 1 .. Len(fu) /\ Len(fv) # PrimarySize
      BY <1>1, <1>6, <1>7, <3>1
    <3>3. QED
      BY <1>6, <1>7, <3>2
  <2>3. Len(fu) # 0
    <3>1. SUFFICES ASSUME Len(fu) = 0 PROVE FALSE
      OBVIOUS
    <3>2. Len(fu) # PrimarySize /\ Len(fu) + 1 = 1
      BY <1>1, <3>1
    <3>3. QED
      BY <1>5, <1>6, <3>2 DEF cut
  <2>4. QED
    BY <1>1, <1>6, <1>7, <2>1, <2>2, <2>3
<1>9. [fv EXCEPT ![1] = ErasedMark] = fu
  <2> DEFINE w == [fv EXCEPT ![1] = ErasedMark]
  <2>1. ErasedMark \in Byte
    BY DEF ErasedMark, Byte
  <2>2. /\ w \in Seq(Byte) /\ Len(w) = Len(fv)
        /\ \A j \in 1 .. Len(fv) : w[j] = IF j = 1 THEN ErasedMark ELSE fv[j]
    BY <1>7, <1>8, <2>1, ExceptSeq
  <2> HIDE DEF w
  <2>3. ASSUME NEW j \in 1 .. Len(w) PROVE w[j] = fu[j]
    <3>1. j \in 1 .. PrimarySize /\ j \in 1 .. Len(fu) /\ j \in 1 .. Len(fv)
      BY <1>1, <1>6, <1>8, <2>2
    <3>2. fu[j] = u[j] /\ fv[j] = v[j] /\ w[j] = IF j = 1 THEN ErasedMark ELSE fv[j]
      BY <1>6, <1>7, <2>2, <3>1
    <3>3. QED
      BY <1>4, <3>1, <3>2
  <2>4. QED
    BY <1>6, <1>8, <2>2, <2>3, SeqEqual DEF w
<1>10. Spots(fu, KanjiMark) \cap {1} = {} /\ Spots(fv, KanjiMark) \cap {1} # {}
  <2>1. fu[1] = ErasedMark /\ fv[1] = KanjiMark
    BY <1>4, <1>6, <1>7, <1>8
  <2>2. 1 \in DOMAIN fv
    BY <1>7, <1>8, LenProperties
  <2>3. QED
    BY <1>1, <2>1, <2>2 DEF Spots
<1>11. x = y
  <2> DEFINE m == PrimarySize + 1
             w == PrimarySize + ExtensionSize
  <2>1. m \in Int /\ w \in Int /\ \A i \in m .. w : i \in 1 .. Len(b) /\ i # 1
    BY <1>1
  <2>2. \A i \in m .. w : b[i] \in Byte /\ c[i] \in Byte /\ c[i] = b[i]
    BY <1>2, <2>1, ElementOfSeq
  <2>3. \A i \in 1 .. w - m + 1 : m + i - 1 \in m .. w
    BY <1>1
  <2> HIDE DEF m, w
  <2>4. /\ SubSeq(b, m, w) \in Seq(Byte) /\ SubSeq(c, m, w) \in Seq(Byte)
        /\ Len(SubSeq(b, m, w)) = (IF m <= w THEN w - m + 1 ELSE 0)
        /\ Len(SubSeq(c, m, w)) = (IF m <= w THEN w - m + 1 ELSE 0)
        /\ \A i \in 1 .. w - m + 1 : SubSeq(b, m, w)[i] = b[m + i - 1]
        /\ \A i \in 1 .. w - m + 1 : SubSeq(c, m, w)[i] = c[m + i - 1]
    BY <2>1, <2>2, SubSeqProperties
  <2>5. ASSUME NEW i \in 1 .. Len(SubSeq(b, m, w))
        PROVE  SubSeq(b, m, w)[i] = SubSeq(c, m, w)[i]
    <3>1. i \in 1 .. w - m + 1
      BY <2>1, <2>4
    <3>2. QED
      BY <2>2, <2>3, <2>4, <3>1
  <2>6. SubSeq(b, m, w) = SubSeq(c, m, w)
    BY <2>4, <2>5, SeqEqual
  <2>7. QED
    BY <2>6 DEF m, w
<1> DEFINE back == Before(x, Spots(x, Space))
           rest == IF back = <<>> THEN <<>> ELSE <<Period>> \o back
<1>12. readShortEntryName(b) =
          (IF Spots(fu, KanjiMark) \cap {1} # {} THEN [fu EXCEPT ![1] = ErasedMark] ELSE fu) \o rest
  BY DEF readShortEntryName, fu, u
<1>13. readShortEntryName(c) =
          (IF Spots(fv, KanjiMark) \cap {1} # {} THEN [fv EXCEPT ![1] = ErasedMark] ELSE fv) \o rest
  BY <1>11 DEF readShortEntryName, fv, v
<1>14. QED
  BY <1>9, <1>10, <1>12, <1>13 DEF c

\* What a short name of another driver is read as, and found under.
LEMMA ListedRun ==
    ASSUME NEW n \in Seq(Alphabet), n # <<>>, ShortForm(n).proper
    PROVE  lookupFileInner(ShortForm(n).run, fileName(ShortForm(n).run)) = "found"
<1> DEFINE s == utf8ToGbk(n)
           b == genBasisNameFromShort(s)
           run == ShortForm(n).run
           short == IF b[1] = ErasedMark THEN [b EXCEPT ![1] = KanjiMark] ELSE b
<1>1. /\ run.long = <<>> /\ run.short = short
      /\ readShortEntryName(b) = s
      /\ \A k \in DOMAIN b : ~isInvalidShortEntryChr(b[k])
      /\ \A k \in DOMAIN n : Len(n[k]) = 2 \/ upper(n[k][1]) = n[k][1]
  BY DEF ShortForm
<1>2. s \in Seq(Byte) /\ gbkToUtf8(s) = n
  BY RoundTrip
<1>3. /\ PrimarySize \in Nat \ {0} /\ ExtensionSize \in Nat
  BY NameAssumption
<1> HIDE DEF s, run
<1>4. b \in Seq(Byte) /\ Len(b) = PrimarySize + ExtensionSize
  <2> DEFINE f == Before(s, Spots(s, Period))
             front == Upto(f, PrimarySize)
             t == SubSeq(s, Len(front) + 2, Len(s))
             back == Upto(t, ExtensionSize)
  <2>1. Len(s) \in Nat /\ DOMAIN s = 1 .. Len(s) /\ \A k \in 1 .. Len(s) : s[k] \in Byte
    BY <1>2, LenProperties, ElementOfSeq
  <2>2. f \in Seq(Byte)
    <3>1. Spots(s, Period) \in SUBSET (1 .. Len(s))
      BY <2>1 DEF Spots
    <3>2. QED
      BY <1>2, <3>1, BeforeIs
  <2> HIDE DEF f
  <2>3. front \in Seq(Byte) /\ Len(front) \in Nat
    BY <1>3, <2>2, UptoIs, LenProperties
  <2> HIDE DEF front
  <2>4. t \in Seq(Byte)
    <3> DEFINE m == Len(front) + 2
    <3>1. m \in Int /\ \A k \in m .. Len(s) : s[k] \in Byte
      BY <2>1, <2>3
    <3> HIDE DEF m
    <3>2. SubSeq(s, m, Len(s)) \in Seq(Byte)
      BY <2>1, <3>1, SubSeqProperties
    <3>3. QED
      BY <3>2 DEF m
  <2> HIDE DEF t
  <2>5. back \in Seq(Byte)
    BY <1>3, <2>4, UptoIs
  <2>6. b = basis(front, back)
    BY DEF genBasisNameFromShort, front, f, t
  <2> HIDE DEF back, b
  <2>7. QED
    BY <2>3, <2>5, <2>6, FirstByte
<1> HIDE DEF b
<1>5. readShortEntryName(short) = s
  <2>1. CASE b[1] = ErasedMark
    BY <1>1, <1>4, <2>1, KanjiRead
  <2>2. CASE b[1] # ErasedMark
    BY <1>1, <2>2
  <2>3. QED
    BY <2>1, <2>2
<1>6. parseEntryType(short) = "KExist"
  <2>1. 1 \in DOMAIN b
    <3>1. 1 \in 1 .. Len(b)
      BY <1>3, <1>4
    <3>2. QED
      BY <1>4, <3>1, LenProperties
  <2>2. b[1] # 0
    BY <1>1, <2>1 DEF isInvalidShortEntryChr, KanjiMark
  <2>3. short[1] # ErasedMark /\ short[1] # 0
    <3>1. CASE b[1] = ErasedMark
      <4>1. short[1] = KanjiMark
        BY <2>1, <3>1
      <4>2. QED
        BY <4>1 DEF KanjiMark, ErasedMark
    <3>2. CASE b[1] # ErasedMark
      BY <2>2, <3>2
    <3>3. QED
      BY <3>1, <3>2
  <2> HIDE DEF short
  <2>4. QED
    BY <2>3 DEF parseEntryType
<1> HIDE DEF short
<1>7. fileName(run) = n
  BY <1>1, <1>2, <1>5 DEF fileName
<1>8. toUpper(n) = n
  <2>1. Len(n) \in Nat /\ DOMAIN n = 1 .. Len(n) /\ \A k \in 1 .. Len(n) : n[k] \in Alphabet
    BY LenProperties, ElementOfSeq
  <2> DEFINE c(k) == IF Len(n[k]) = 1 THEN <<upper(n[k][1])>> ELSE n[k]
  <2>2. ASSUME NEW k \in 1 .. Len(n) PROVE c(k) = n[k]
    <3>1. CASE Len(n[k]) = 1
      <4>1. upper(n[k][1]) = n[k][1]
        <5>1. k \in DOMAIN n
          BY <2>1
        <5>2. Len(n[k]) = 2 \/ upper(n[k][1]) = n[k][1]
          BY <1>1, <5>1
        <5>3. QED
          BY <3>1, <5>2
      <4>2. n[k] \in Seq(Byte)
        BY <2>1, CharIs
      <4>3. n[k][1] \in Byte
        BY <3>1, <4>2, ElementOfSeq
      <4> DEFINE x == n[k][1]
      <4>4. <<x>> \in Seq(Byte) /\ Len(<<x>>) = 1 /\ <<x>>[1] = x
        BY <4>3
      <4>5. <<x>> = n[k]
        BY <3>1, <4>2, <4>4, SeqEqual
      <4>6. QED
        BY <3>1, <4>1, <4>5
    <3>2. CASE Len(n[k]) # 1
      BY <3>2
    <3>3. QED
      BY <3>1, <3>2
  <2>3. toUpper(n) = [k \in 1 .. Len(n) |-> c(k)]
    BY <2>1 DEF toUpper
  <2> HIDE DEF c
  <2>4. toUpper(n) = [k \in 1 .. Len(n) |-> n[k]]
    BY <2>2, <2>3
  <2>5. n = [k \in 1 .. Len(n) |-> n[k]]
    BY LenProperties
  <2>6. QED
    BY <2>4, <2>5
<1> DEFINE read == readShortEntryName(run.short)
<1>9. lookupFileInner(run, n) =
         CASE parseEntryType(run.short) # "KExist" -> "absent"
           [] run.long # <<>> /\ chkSum(genBasisNameFromShort(read)) # run.long[1].sum -> "aborts"
           [] \/ run.long # <<>> /\ longName(run) = n
              \/ run.long = <<>> /\ read = utf8ToGbk(toUpper(n)) -> "found"
           [] OTHER -> "absent"
  BY DEF lookupFileInner
<1>10. read = utf8ToGbk(toUpper(n))
  BY <1>1, <1>5, <1>8 DEF s
<1> HIDE DEF read
<1>11. lookupFileInner(run, n) = "found"
  BY <1>1, <1>6, <1>9, <1>10
<1>12. QED
  BY <1>7, <1>11 DEF run

-----------------------------------------------------------------------------
(***************************************************************************)
(* The theorems.                                                           *)
(***************************************************************************)
\* A name is a sequence of characters and never empty.
Named == name \in Seq(Alphabet) /\ name # <<>>

\* Every name typed is one: characters are only ever added.
LEMMA NamedAlways == NameSpec => []Named
<1>1. NameInit => Named
  <2>1. SUFFICES ASSUME NEW ch \in Alphabet, name = <<ch>> PROVE Named
    BY DEF NameInit
  <2>2. <<ch>> \in Seq(Alphabet) /\ Len(<<ch>>) = 1
    OBVIOUS
  <2>3. <<ch>> # <<>>
    BY <2>2, EmptySeq
  <2>4. QED
    BY <2>1, <2>2, <2>3 DEF Named
<1>2. Named /\ [TypeChar]_name => Named'
  <2>1. SUFFICES ASSUME Named, TypeChar PROVE Named'
    BY DEF Named
  <2>2. PICK ch \in Alphabet : name' = Append(name, ch)
    BY <2>1 DEF TypeChar
  <2>3. Append(name, ch) \in Seq(Alphabet) /\ Append(name, ch) # <<>>
    BY <2>1, AppendProperties DEF Named
  <2>4. QED
    BY <2>2, <2>3 DEF Named
<1>3. QED
  BY <1>1, <1>2, PTL DEF NameSpec

\* A name without spaces inside of its short form is found under itself, for
\* every width of the fields (crtFileInner, lookupFileInner, fromIno).
THEOREM PlainAlwaysFound == NameSpec => []PlainIsFound
<1>1. Named => PlainIsFound
  <2>1. SUFFICES ASSUME Named, Plain(name) PROVE CreatedIsFound
    BY DEF PlainIsFound
  <2>2. lookupFileInner(crtFileInner(name), name) = "found"
    BY <2>1, PlainRun DEF Named
  <2>3. crtFileInner(name).long # <<>> /\ longName(crtFileInner(name)) = name
    BY <2>1, LongReads DEF Named
  <2>4. fileName(crtFileInner(name)) = name
    BY <2>3 DEF fileName
  <2>5. QED
    BY <2>2, <2>4 DEF CreatedIsFound
<1>2. QED
  BY <1>1, NamedAlways, PTL

\* And under no other: whatever name is looked up, a run answers only to the one
\* it was made for, so that no two files of a directory shadow each other
\* (lookupFileInner).
FoundUnderNoOther ==
    Plain(name) =>
        \A m : lookupFileInner(crtFileInner(name), m) = "found" => m = name

\* What FoundUnderNoOther says holds of every name that can be typed, of any
\* length (lookupFileInner).
THEOREM FoundOnlyUnderItself == NameSpec => []FoundUnderNoOther
<1>1. Named => FoundUnderNoOther
  BY PlainRun DEF Named, FoundUnderNoOther
<1>2. QED
  BY <1>1, NamedAlways, PTL

\* A short name of another driver is found under the name a listing gives it
\* (readShortEntryName, gbkToUtf8, lookupFileInner).
THEOREM ListedAlwaysFound == NameSpec => []ListedIsFound
<1>1. Named => ListedIsFound
  BY ListedRun DEF Named, ListedIsFound
<1>2. QED
  BY <1>1, NamedAlways, PTL

-----------------------------------------------------------------------------
(***************************************************************************)
(* The calendar.                                                           *)
(***************************************************************************)
Leaps(n) == {k \in 0 .. n - 1 : leap(k)}

\* The leap years before a year can be counted.
LEMMA LeapsFinite ==
    ASSUME NEW n \in Int
    PROVE  IsFiniteSet(Leaps(n)) /\ Cardinality(Leaps(n)) \in Nat
<1>1. IsFiniteSet(0 .. n - 1)
  BY FS_Interval
<1>2. QED
  BY <1>1, FS_Subset, FS_CardinalityType DEF Leaps

\* Every year has 365 days or 366.
LEMMA YearsAre ==
    /\ yearStart[0] = 0
    /\ \A y \in 0 .. 128 : yearStart[y] \in Nat
    /\ \A y \in 0 .. 127 : yearStart[y + 1] = yearStart[y] + 365 + (IF leap(y) THEN 1 ELSE 0)
<1>1. ASSUME NEW y \in 0 .. 128
      PROVE  yearStart[y] = 365 * y + Cardinality(Leaps(y)) /\ Cardinality(Leaps(y)) \in Nat
  <2>1. yearStart[y] = 365 * y + Cardinality(Leaps(y))
    BY DEF yearStart, Leaps
  <2>2. y \in Int
    OBVIOUS
  <2>3. QED
    BY <2>1, <2>2, LeapsFinite
<1>2. Cardinality(Leaps(0)) = 0
  <2>1. Leaps(0) = {}
    BY DEF Leaps
  <2>2. QED
    BY <2>1, FS_EmptySet
<1>3. yearStart[0] = 0
  BY <1>1, <1>2
<1>4. ASSUME NEW y \in 0 .. 127
      PROVE  yearStart[y + 1] = yearStart[y] + 365 + (IF leap(y) THEN 1 ELSE 0)
  <2>1. y \notin Leaps(y) /\ IsFiniteSet(Leaps(y)) /\ Cardinality(Leaps(y)) \in Nat
    <3>1. y \notin Leaps(y)
      BY DEF Leaps
    <3>2. QED
      BY <3>1, LeapsFinite
  <2>2. Leaps(y + 1) = IF leap(y) THEN Leaps(y) \cup {y} ELSE Leaps(y)
    BY DEF Leaps
  <2>3. Cardinality(Leaps(y + 1)) = Cardinality(Leaps(y)) + (IF leap(y) THEN 1 ELSE 0)
    BY <2>1, <2>2, FS_AddElement
  <2>4. y \in 0 .. 128 /\ y + 1 \in 0 .. 128 /\ 365 * (y + 1) = 365 * y + 365
    OBVIOUS
  <2>5. QED
    BY <1>1, <2>1, <2>3, <2>4
<1>5. ASSUME NEW y \in 0 .. 128 PROVE yearStart[y] \in Nat
  BY <1>1
<1>6. QED
  BY <1>3, <1>4, <1>5

\* The days that seven bits of years can tell end with LastDay.
LEMMA YearsReach == LastDay < yearStart[128]
<1> DEFINE n == 31
           s == [i \in 1 .. n |-> IF i <= 30 THEN 4 * (i - 1) ELSE 124]
           S == {s[i] : i \in 1 .. n}
<1>1. \A i \in 1 .. n : s[i] \in 0 .. 127 /\ leap(s[i])
  <2>1. ASSUME NEW j \in 0 .. 29
        PROVE  4 * j \in 0 .. 127 /\ leap(4 * j)
    <3>1. (4 * j) % 4 = 0
      OBVIOUS
    <3>2. j = 5 \/ (1980 + 4 * j) % 100 # 0
      OBVIOUS
    <3>3. (1980 + 4 * 5) % 400 = 0
      OBVIOUS
    <3>4. QED
      BY <3>1, <3>2, <3>3 DEF leap
  <2>2. leap(124)
    BY DEF leap
  <2>3. \A i \in 1 .. n : i <= 30 => i - 1 \in 0 .. 29
    OBVIOUS
  <2>4. QED
    BY <2>1, <2>2, <2>3
<1>2. Cardinality(S) = n
  <2>1. \A i, j \in 1 .. n : s[i] = s[j] => i = j
    OBVIOUS
  <2>2. (\A i \in 1 .. n : s[i] \in S) /\ \A x \in S : \E i \in 1 .. n : s[i] = x
    OBVIOUS
  <2>3. n \in Nat
    OBVIOUS
  <2> HIDE DEF n, s, S
  <2>4. QED
    BY <2>1, <2>2, <2>3, CountImage
<1>3. S \subseteq Leaps(128)
  BY <1>1 DEF Leaps
<1> HIDE DEF S
<1>4. IsFiniteSet(Leaps(128)) /\ Cardinality(Leaps(128)) \in Nat
  BY LeapsFinite
<1>5. Cardinality(S) <= Cardinality(Leaps(128))
  BY <1>3, <1>4, FS_Subset
<1>6. yearStart[128] = 365 * 128 + Cardinality(Leaps(128))
  BY DEF yearStart, Leaps
<1>7. QED
  BY <1>2, <1>4, <1>5, <1>6 DEF LastDay

\* The days before a month: the first of a year is its first day, the last month
\* ends with the year, and none is longer than 31 days.
LEMMA MonthsAre ==
    ASSUME NEW y \in 0 .. 127
    PROVE  /\ monthStart[y][1] = 0
           /\ monthStart[y][13] = 365 + (IF leap(y) THEN 1 ELSE 0)
           /\ \A m \in 1 .. 13 : monthStart[y][m] \in Nat
           /\ \A m \in 1 .. 12 : monthStart[y][m + 1] - monthStart[y][m] <= 31
<1> DEFINE l == IF leap(y) THEN 1 ELSE 0
<1>1. l \in 0 .. 1
  OBVIOUS
<1>2. \A m \in 1 .. 13 : monthStart[y][m] = firstOfMonth[m] + (IF m > 2 THEN l ELSE 0)
  BY DEF monthStart
<1> HIDE DEF l
<1>3. /\ firstOfMonth[1] = 0 /\ firstOfMonth[2] = 31 /\ firstOfMonth[3] = 59
      /\ firstOfMonth[4] = 90 /\ firstOfMonth[5] = 120 /\ firstOfMonth[6] = 151
      /\ firstOfMonth[7] = 181 /\ firstOfMonth[8] = 212 /\ firstOfMonth[9] = 243
      /\ firstOfMonth[10] = 273 /\ firstOfMonth[11] = 304 /\ firstOfMonth[12] = 334
      /\ firstOfMonth[13] = 365
  BY DEF firstOfMonth
<1>4. ASSUME NEW m \in 1 .. 13 PROVE monthStart[y][m] \in Nat
  <2>1. firstOfMonth[m] \in Nat
    BY <1>3
  <2>2. QED
    BY <1>1, <1>2, <2>1
<1>5. ASSUME NEW m \in 1 .. 12 PROVE monthStart[y][m + 1] - monthStart[y][m] <= 31
  <2>1. m + 1 \in 1 .. 13 /\ m \in 1 .. 13
    OBVIOUS
  <2>2. /\ firstOfMonth[m + 1] \in Nat /\ firstOfMonth[m] \in Nat
        /\ firstOfMonth[m + 1] - firstOfMonth[m] <= IF m = 2 THEN 28 ELSE 31
    BY <1>3
  <2>3. QED
    BY <1>1, <1>2, <2>1, <2>2
<1>6. QED
  BY <1>1, <1>2, <1>3, <1>4, <1>5 DEF l

\* A row of numbers from at most d to more than d has a place where it passes d.
LEMMA Passing ==
    ASSUME NEW a \in Int, NEW b \in Int, 0 <= a, a < b, NEW row,
           \A n \in a .. b : row[n] \in Nat,
           NEW d \in Nat, row[a] <= d, d < row[b]
    PROVE  \E n \in a .. b - 1 : row[n] <= d /\ d < row[n + 1]
<1> DEFINE S == {n \in a .. b : d < row[n]}
<1>1. S \in SUBSET Nat /\ b \in S
  OBVIOUS
<1>2. PICK x \in S : \A z \in S : x <= z
  BY <1>1, LeastElement
<1>3. x # a
  BY <1>2
<1>4. x - 1 \in a .. b - 1 /\ x - 1 \in a .. b /\ x - 1 \notin S
  BY <1>2, <1>3
<1>5. row[x - 1] <= d /\ d < row[(x - 1) + 1]
  <2>1. (x - 1) + 1 = x
    BY <1>2
  <2>2. QED
    BY <1>2, <1>4, <2>1
<1>6. QED
  BY <1>4, <1>5

\* Every day is in a year, and every day of a year in a month.
LEMMA YearOf ==
    ASSUME NEW day \in 0 .. LastDay
    PROVE  \E n \in 0 .. 127 : yearStart[n] <= day /\ day < yearStart[n + 1]
<1>1. 128 \in 0 .. 128 /\ 0 \in 0 .. 128
  OBVIOUS
<1>2. yearStart[128] \in Nat /\ LastDay < yearStart[128] /\ yearStart[0] = 0
  BY <1>1, YearsAre, YearsReach
<1>3. day \in Nat /\ yearStart[0] <= day /\ day < yearStart[128]
  BY <1>2 DEF LastDay
<1>4. \E n \in 0 .. 128 - 1 : yearStart[n] <= day /\ day < yearStart[n + 1]
  <2> DEFINE a == 0
             b == 128
  <2>1. a \in Int /\ b \in Int /\ 0 <= a /\ a < b
    OBVIOUS
  <2>2. \A n \in a .. b : yearStart[n] \in Nat
    BY YearsAre
  <2>3. day \in Nat /\ yearStart[a] <= day /\ day < yearStart[b]
    BY <1>3
  <2> HIDE DEF a, b
  <2>4. \E n \in a .. b - 1 : yearStart[n] <= day /\ day < yearStart[n + 1]
    BY <2>1, <2>2, <2>3, Passing
  <2>5. QED
    BY <2>4 DEF a, b
<1>5. QED
  BY <1>4

\* Every day of a year lies in one of its months.
LEMMA MonthOf ==
    ASSUME NEW y \in 0 .. 127, NEW rest \in Nat, rest < 365 + (IF leap(y) THEN 1 ELSE 0)
    PROVE  \E n \in 1 .. 12 : monthStart[y][n] <= rest /\ rest < monthStart[y][n + 1]
<1> DEFINE row == monthStart[y]
           a == 1
           b == 13
<1>1. row[1] = 0 /\ row[13] = 365 + (IF leap(y) THEN 1 ELSE 0)
  BY MonthsAre
<1>2. \A m \in a .. b : row[m] \in Nat
  BY MonthsAre
<1> HIDE DEF row
<1>3. row[a] <= rest /\ rest < row[b]
  BY <1>1
<1>4. a \in Int /\ b \in Int /\ 0 <= a /\ a < b
  OBVIOUS
<1> HIDE DEF a, b
<1>5. \E n \in a .. b - 1 : row[n] <= rest /\ rest < row[n + 1]
  BY <1>2, <1>3, <1>4, Passing
<1>6. QED
  BY <1>5 DEF row, a, b

\* gmtime and mktime are inverse for the days of these years.
LEMMA GmtimeIs ==
    ASSUME NEW day \in 0 .. LastDay
    PROVE  LET t == gmtime(day)
           IN  /\ t.year \in 0 .. 127 /\ t.mon \in 1 .. 12 /\ t.mday \in 1 .. 31
               /\ yearStart[t.year] + monthStart[t.year][t.mon] + t.mday - 1 = day
<1> DEFINE y == CHOOSE n \in 0 .. 127 : yearStart[n] <= day /\ day < yearStart[n + 1]
           rest == day - yearStart[y]
           m == CHOOSE n \in 1 .. 12 : monthStart[y][n] <= rest /\ rest < monthStart[y][n + 1]
<1>1. gmtime(day) = [year |-> y, mon |-> m, mday |-> rest - monthStart[y][m] + 1]
  BY DEF gmtime
<1>2. y \in 0 .. 127 /\ yearStart[y] <= day /\ day < yearStart[y + 1]
  BY YearOf
<1>3. (\E n \in 1 .. 12 : monthStart[y][n] <= rest /\ rest < monthStart[y][n + 1])
         => m \in 1 .. 12 /\ monthStart[y][m] <= rest /\ rest < monthStart[y][m + 1]
  OBVIOUS
<1> HIDE DEF y, m
<1>4. /\ yearStart[y] \in Nat /\ yearStart[y + 1] \in Nat
      /\ yearStart[y + 1] = yearStart[y] + 365 + (IF leap(y) THEN 1 ELSE 0)
  <2>1. y \in 0 .. 128 /\ y + 1 \in 0 .. 128
    BY <1>2
  <2>2. yearStart[y + 1] = yearStart[y] + 365 + (IF leap(y) THEN 1 ELSE 0)
    BY <1>2, YearsAre
  <2>3. QED
    BY <2>1, <2>2, YearsAre
<1>5. rest \in Nat /\ rest < 365 + (IF leap(y) THEN 1 ELSE 0) /\ yearStart[y] + rest = day
  BY <1>2, <1>4 DEF LastDay
<1> HIDE DEF rest
<1>6. m \in 1 .. 12 /\ monthStart[y][m] <= rest /\ rest < monthStart[y][m + 1]
  BY <1>2, <1>3, <1>5, MonthOf
<1>7. m \in 1 .. 13 /\ m + 1 \in 1 .. 13
  BY <1>6
<1>8. /\ monthStart[y][m] \in Nat /\ monthStart[y][m + 1] \in Nat
      /\ monthStart[y][m + 1] - monthStart[y][m] <= 31
  BY <1>2, <1>6, <1>7, MonthsAre
<1>9. rest - monthStart[y][m] + 1 \in 1 .. 31
  BY <1>5, <1>6, <1>8
<1>10. yearStart[y] + monthStart[y][m] + (rest - monthStart[y][m] + 1) - 1 = day
  BY <1>4, <1>5, <1>8
<1>11. QED
  BY <1>1, <1>2, <1>6, <1>9, <1>10

-----------------------------------------------------------------------------
(***************************************************************************)
(* Fields.                                                                 *)
(***************************************************************************)
\* The fields of a date.
LEMMA DateIs ==
    ASSUME NEW day \in 0 .. LastDay
    PROVE  LET z == DosDate(day)
               y == z \div 512
           IN  yearStart[y] + monthStart[y][(z \div 32) % 16] + (z % 32) - 1 = day
<1> DEFINE t == gmtime(day)
           y == t.year
           m == t.mon
           k == t.mday
           z == DosDate(day)
<1>1. /\ y \in 0 .. 127 /\ m \in 1 .. 12 /\ k \in 1 .. 31
      /\ yearStart[y] + monthStart[y][m] + k - 1 = day
  BY GmtimeIs
<1>2. z = (y % 128) * 512 + (m % 16) * 32 + (k % 32)
  BY DEF DosDate
<1> HIDE DEF t, y, m, k, z
<1>3. y % 128 = y /\ m % 16 = m /\ k % 32 = k
  BY <1>1
<1>4. z = y * 512 + m * 32 + k
  BY <1>2, <1>3
<1>5. z \div 512 = y /\ z \div 32 = 16 * y + m /\ z % 32 = k
  BY <1>1, <1>4
<1>6. (16 * y + m) % 16 = m
  BY <1>1
<1>7. QED
  BY <1>1, <1>5, <1>6 DEF z

\* The seconds dos2UnixTs makes of a time.
Seconds(z) == (z \div 2048) * 3600 + ((z \div 32) % 64) * 60 + (z % 32) * 2 - Zone

\* The fields of a time: where local time is UTC they lose the odd second.
LEMMA TimeIs ==
    ASSUME Zone = 0, NEW sec \in 0 .. SecondsPerDay - 1
    PROVE  Seconds(DosTime(sec)) = sec - (sec % 2)
<1>1. sec \in Nat /\ sec < 86400
  BY DEF SecondsPerDay
<1> DEFINE n == sec \div 60
           h == sec \div 3600
           m == n % 60
           q == sec % 60
           s == q \div 2
           z == DosTime(sec)
<1>2. z = h * 2048 + m * 32 + (s % 32)
  BY DEF DosTime
<1>3. n \in Nat /\ q \in 0 .. 59 /\ sec = 60 * n + q
  BY <1>1
<1>4. n \div 60 = h
  BY <1>1
<1> HIDE DEF h, s, z, q
<1>5. h \in Nat /\ m \in 0 .. 59 /\ n = 60 * h + m
  BY <1>3, <1>4
<1> HIDE DEF n, m
<1>6. h \in 0 .. 23
  BY <1>1, <1>3, <1>5
<1>7. s \in 0 .. 29 /\ q = 2 * s + (q % 2) /\ q % 2 \in 0 .. 1 /\ s % 32 = s
  BY <1>3 DEF s
<1>8. z = h * 2048 + m * 32 + s
  BY <1>2, <1>7
<1>9. z \div 2048 = h /\ z \div 32 = 64 * h + m /\ z % 32 = s
  BY <1>5, <1>6, <1>7, <1>8
<1>10. (64 * h + m) % 64 = m
  BY <1>5, <1>6
<1>11. sec % 2 = q % 2
  BY <1>3
<1>12. h * 3600 + m * 60 + s * 2 - Zone = sec - (sec % 2)
  BY <1>3, <1>5, <1>6, <1>7, <1>11
<1>13. QED
  BY <1>9, <1>10, <1>12 DEF z, Seconds

\* A second of a day carries nothing into the next one.
LEMMA WithinDay ==
    ASSUME NEW e \in 0 .. SecondsPerDay - 1
    PROVE  /\ e \in Nat /\ SecondsPerDay \in Nat
           /\ e \div SecondsPerDay = 0 /\ e % SecondsPerDay = e
BY DEF SecondsPerDay

\* The day it makes of a date.
Days(z) == yearStart[z \div 512] + monthStart[z \div 512][(z \div 32) % 16] + (z % 32) - 1

\* What dos2UnixTs makes of the two fields of a stamp.
LEMMA UnpackIs ==
    ASSUME NEW ts
    PROVE  dos2UnixTs(ts) =
              [day |-> Days(ts.date) + Seconds(ts.time) \div SecondsPerDay,
               sec |-> Seconds(ts.time) % SecondsPerDay, hundredth |-> 0]
BY Zenon DEF dos2UnixTs, Seconds, Days

\* A stamp is read as a day and as the seconds that its time stands for, if they
\* are within the day.
LEMMA StampIs ==
    ASSUME NEW day \in 0 .. LastDay, NEW time, NEW e \in 0 .. SecondsPerDay - 1,
           Seconds(time) = e
    PROVE  dos2UnixTs([date |-> DosDate(day), time |-> time]) =
              [day |-> day, sec |-> e, hundredth |-> 0]
<1> DEFINE ts == [date |-> DosDate(day), time |-> time]
           d == Days(ts.date)
           s == Seconds(ts.time)
<1>1. ts.date = DosDate(day) /\ ts.time = time
  OBVIOUS
<1>2. d = day
  BY DateIs DEF Days
<1>3. s = e
  BY <1>1, WithinDay
<1>4. dos2UnixTs(ts) = [day |-> d + s \div SecondsPerDay, sec |-> s % SecondsPerDay, hundredth |-> 0]
  BY UnpackIs
<1> HIDE DEF ts, d, s
<1>5. s \div SecondsPerDay = 0 /\ s % SecondsPerDay = e
  BY <1>3, WithinDay
<1>6. d + s \div SecondsPerDay = day
  BY <1>2, <1>5 DEF LastDay
<1>7. dos2UnixTs(ts) = [day |-> day, sec |-> e, hundredth |-> 0]
  BY <1>4, <1>5, <1>6
<1>8. QED
  BY <1>7 DEF ts

-----------------------------------------------------------------------------
(***************************************************************************)
(* What stat answers.                                                      *)
(***************************************************************************)
\* Local time is UTC, and no odd second comes without hundredths.
Utc == Zone = 0
OddsKept == \A t \in Instant : t.sec % 2 = 1 => t.hundredth # 0

Which == {"crt", "acc", "wrt"}

\* The entry holds the stamps of the instants given last.
IInv ==
    /\ given \in [Which -> Instant]
    /\ meta = [crt |-> unix2DosTs_2(given["crt"]), acc |-> DosDate(given["acc"].day),
               wrt |-> unix2DosTs(given["wrt"])]

\* The fields of an instant, and its second rounded down to an even one.
LEMMA InstantIs ==
    ASSUME NEW t \in Instant
    PROVE  /\ t.day \in 0 .. LastDay /\ t.sec \in 0 .. SecondsPerDay - 1 /\ t.hundredth \in 0 .. 99
           /\ t = [day |-> t.day, sec |-> t.sec, hundredth |-> t.hundredth]
           /\ t.sec \in Nat /\ t.sec % 2 \in 0 .. 1
           /\ t.sec - (t.sec % 2) \in 0 .. SecondsPerDay - 1
<1>1. t \in [day : 0 .. LastDay, sec : 0 .. SecondsPerDay - 1, hundredth : 0 .. 99]
  BY TimeAssumption
<1>2. t.day \in 0 .. LastDay /\ t.sec \in 0 .. SecondsPerDay - 1 /\ t.hundredth \in 0 .. 99
      /\ t = [day |-> t.day, sec |-> t.sec, hundredth |-> t.hundredth]
  BY <1>1
<1> DEFINE sec == t.sec
<1>3. sec \in 0 .. SecondsPerDay - 1 /\ sec \in Nat /\ SecondsPerDay \in Nat
  BY <1>2, WithinDay
<1> HIDE DEF sec
<1>4. sec \in Nat /\ sec % 2 \in 0 .. 1 /\ sec % 2 <= sec
  BY <1>3
<1>5. sec - (sec % 2) \in 0 .. SecondsPerDay - 1
  BY <1>3, <1>4
<1>6. QED
  BY <1>2, <1>4, <1>5 DEF sec

\* A stamp of two seconds, read back.
LEMMA EvenIs ==
    ASSUME Utc, NEW t \in Instant
    PROVE  dos2UnixTs(unix2DosTs(t)) =
              [day |-> t.day, sec |-> t.sec - (t.sec % 2), hundredth |-> 0]
<1>1. unix2DosTs(t) = [date |-> DosDate(t.day), time |-> DosTime(t.sec)]
  BY DEF unix2DosTs
<1> DEFINE z == DosTime(t.sec)
           e == t.sec - (t.sec % 2)
<1>2. t.day \in 0 .. LastDay /\ t.sec \in 0 .. SecondsPerDay - 1 /\ e \in 0 .. SecondsPerDay - 1
  BY InstantIs
<1>3. Seconds(z) = e
  BY <1>2, TimeIs DEF Utc
<1> HIDE DEF z, e
<1>4. dos2UnixTs([date |-> DosDate(t.day), time |-> z]) = [day |-> t.day, sec |-> e, hundredth |-> 0]
  BY <1>2, <1>3, StampIs
<1>5. QED
  BY <1>1, <1>4 DEF z, e

\* With the byte tt the second and the hundredths come back.
LEMMA ExactIs ==
    ASSUME Utc, OddsKept, NEW t \in Instant
    PROVE  dos2UnixTs_2(unix2DosTs_2(t)) = t
<1> DEFINE even == dos2UnixTs(unix2DosTs(t))
           tt == t.hundredth + 100 * (t.sec % 2)
<1>1. unix2DosTs_2(t).tt = tt /\ unix2DosTs_2(t).ts = unix2DosTs(t)
  BY DEF unix2DosTs_2
<1>2. even = [day |-> t.day, sec |-> t.sec - (t.sec % 2), hundredth |-> 0]
  BY EvenIs
<1>3. /\ t.hundredth \in 0 .. 99 /\ t.sec \in Nat /\ t.sec % 2 \in 0 .. 1
      /\ t = [day |-> t.day, sec |-> t.sec, hundredth |-> t.hundredth]
  BY InstantIs
<1>4. dos2UnixTs_2(unix2DosTs_2(t)) =
         IF tt > 100 THEN [even EXCEPT !.sec = @ + 1, !.hundredth = tt - 100]
         ELSE [even EXCEPT !.hundredth = tt]
  BY <1>1 DEF dos2UnixTs_2
<1> HIDE DEF even
<1>5. CASE t.sec % 2 = 1
  <2>1. t.hundredth # 0
    BY <1>5 DEF OddsKept
  <2>2. tt > 100 /\ tt - 100 = t.hundredth /\ (t.sec - (t.sec % 2)) + 1 = t.sec
    BY <1>3, <1>5, <2>1
  <2>3. dos2UnixTs_2(unix2DosTs_2(t)) = [day |-> t.day, sec |-> t.sec, hundredth |-> t.hundredth]
    BY <1>2, <1>4, <2>2
  <2>4. QED
    BY <1>3, <2>3
<1>6. CASE t.sec % 2 = 0
  <2>1. ~(tt > 100) /\ tt = t.hundredth /\ t.sec - (t.sec % 2) = t.sec
    BY <1>3, <1>6
  <2>2. dos2UnixTs_2(unix2DosTs_2(t)) = [day |-> t.day, sec |-> t.sec, hundredth |-> t.hundredth]
    BY <1>2, <1>4, <2>1
  <2>3. QED
    BY <1>3, <2>2
<1>7. QED
  BY <1>3, <1>5, <1>6

\* The day of an access is its midnight.
LEMMA DayIs ==
    ASSUME Utc, NEW t \in Instant
    PROVE  dos2UnixTs([date |-> DosDate(t.day), time |-> 0]) =
              [day |-> t.day, sec |-> 0, hundredth |-> 0]
<1>1. t.day \in 0 .. LastDay
  BY InstantIs
<1> DEFINE z == 0
<1>2. Seconds(z) = z
  BY DEF Seconds, Utc
<1>3. z \in 0 .. SecondsPerDay - 1
  BY DEF SecondsPerDay
<1> HIDE DEF z
<1>4. dos2UnixTs([date |-> DosDate(t.day), time |-> z]) = [day |-> t.day, sec |-> z, hundredth |-> 0]
  BY <1>1, <1>2, <1>3, StampIs
<1>5. QED
  BY <1>4 DEF z

\* A handler that stamps a file leaves in the entry the stamp of the instant given.
LEMMA GiveKeeps ==
    ASSUME IInv, NEW w \in Which, NEW t \in Instant, Give(w, t)
    PROVE  IInv'
<1>1. given' \in [Which -> Instant] /\ \A v \in Which : given'[v] = IF v = w THEN t ELSE given[v]
  BY DEF IInv, Give, Which
<1>2. CASE w = "crt"
  <2>1. meta' = [meta EXCEPT !.crt = unix2DosTs_2(t)]
    BY <1>2 DEF Give, Stamped
  <2>2. QED
    BY <1>1, <1>2, <2>1 DEF IInv, Which
<1>3. CASE w = "acc"
  <2>1. meta' = [meta EXCEPT !.acc = DosDate(t.day)]
    BY <1>3 DEF Give, Stamped
  <2>2. QED
    BY <1>1, <1>3, <2>1 DEF IInv, Which
<1>4. CASE w = "wrt"
  <2>1. meta' = [meta EXCEPT !.wrt = unix2DosTs(t)]
    BY <1>4 DEF Give, Stamped
  <2>2. QED
    BY <1>1, <1>4, <2>1 DEF IInv, Which
<1>5. QED
  BY <1>2, <1>3, <1>4 DEF Which

\* stat answers the instant the file was given, to a hundredth, a day or two
\* seconds, on every day of seven bits of years and whatever reads, writes and
\* setattrs came in between (unix2DosTs, unix2DosTs_2, dos2UnixTs, dos2UnixTs_2).
THEOREM StatAlwaysRoundsDown == Utc /\ OddsKept => (TimeSpec => []StatRoundsDown)
<1> SUFFICES ASSUME Utc, OddsKept
             PROVE  TimeSpec => []StatRoundsDown
  OBVIOUS
<1>1. TimeInit => IInv
  <2> SUFFICES ASSUME NEW t \in Instant, Created(t)
               PROVE  IInv
    BY DEF TimeInit
  <2>1. given = [w \in Which |-> t] /\ meta = mkShortDirEntry(t)
    BY DEF Created, Which
  <2>2. given["crt"] = t /\ given["acc"] = t /\ given["wrt"] = t /\ given \in [Which -> Instant]
    BY <2>1 DEF Which
  <2>3. QED
    BY <2>1, <2>2 DEF IInv, mkShortDirEntry
<1>2. IInv /\ [TimeNext]_timeVars => IInv'
  <2> SUFFICES ASSUME IInv, [TimeNext]_timeVars
               PROVE  IInv'
    OBVIOUS
  <2>1. CASE UNCHANGED timeVars
    BY <2>1 DEF IInv, timeVars
  <2>2. CASE TimeNext
    <3>1. \E w \in Which, t \in Instant : Give(w, t)
      BY <2>2 DEF TimeNext, ReadFile, WriteFile, SetAttr, IInv, Which
    <3>2. QED
      BY <3>1, GiveKeeps
  <2>3. QED
    BY <2>1, <2>2
<1>3. IInv => StatRoundsDown
  <2> SUFFICES ASSUME IInv
               PROVE  StatRoundsDown
    OBVIOUS
  <2>1. given["crt"] \in Instant /\ given["acc"] \in Instant /\ given["wrt"] \in Instant
    BY DEF IInv, Which
  <2>2. /\ meta.crt = unix2DosTs_2(given["crt"]) /\ meta.acc = DosDate(given["acc"].day)
        /\ meta.wrt = unix2DosTs(given["wrt"])
    BY DEF IInv
  <2>3. readFileStat.crt = given["crt"]
    BY <2>1, <2>2, ExactIs DEF readFileStat
  <2>4. readFileStat.acc = [day |-> given["acc"].day, sec |-> 0, hundredth |-> 0]
    BY <2>1, <2>2, DayIs DEF readFileStat
  <2>5. readFileStat.wrt =
           [day |-> given["wrt"].day, sec |-> given["wrt"].sec - (given["wrt"].sec % 2),
            hundredth |-> 0]
    BY <2>1, <2>2, EvenIs DEF readFileStat
  <2>6. /\ readFileStat.wrt.day = given["wrt"].day
        /\ readFileStat.wrt.sec = given["wrt"].sec - (given["wrt"].sec % 2)
    BY <2>5
  <2> DEFINE sec == given["wrt"].sec
  <2>7. sec \in Nat /\ sec % 2 \in 0 .. 1
    BY <2>1, InstantIs
  <2> HIDE DEF sec
  <2>8. sec - (sec - (sec % 2)) \in {0, 1}
    BY <2>7
  <2>9. QED
    BY <2>3, <2>4, <2>6, <2>8 DEF StatRoundsDown, sec
<1>4. QED
  BY <1>1, <1>2, <1>3, PTL DEF TimeSpec
=============================================================================
