----------------------------- MODULE FileTimes -----------------------------
(***************************************************************************)
(* The times of a file (library/fat32.cpp, library/fs.cpp,                 *)
(* programs/fat32_fuse.cpp): stamps packed into 16-bit fields, changed by  *)
(* read, write and setattr, and turned back into seconds for stat.  When   *)
(* they get into the entry is the business of FileObjects.  An instant is  *)
(* its day since 1980, its second, and the hundredth the driver keeps.     *)
(***************************************************************************)
EXTENDS Integers, FiniteSets

CONSTANTS
    Instant,      \* the instants that occur
    Zone          \* seconds local time is ahead of UTC

SecondsPerDay == 86400
LastDay == 46750    \* 2107-12-31, the last day of seven bits of years

ASSUME TimeAssumption ==
    /\ Zone \in Int
    /\ Instant \subseteq
          [day : 0 .. LastDay, sec : 0 .. SecondsPerDay - 1, hundredth : 0 .. 99]

VARIABLES
    meta,     \* the stamps of the file
    given     \* history: the instants the file was given last

timeVars == <<meta, given>>

-----------------------------------------------------------------------------
(***************************************************************************)
(* gmtime and its inverse, by the first days of months and years.          *)
(***************************************************************************)
leap(y) == (y % 4 = 0 /\ (1980 + y) % 100 # 0) \/ (1980 + y) % 400 = 0

\* Years are counted from 1980, the days before a year from its first.
yearStart == [y \in 0 .. 128 |-> 365 * y + Cardinality({n \in 0 .. y - 1 : leap(n)})]
firstOfMonth == <<0, 31, 59, 90, 120, 151, 181, 212, 243, 273, 304, 334, 365>>
monthStart ==
    [y \in 0 .. 127 |->
        [m \in 1 .. 13 |-> firstOfMonth[m] + (IF m > 2 /\ leap(y) THEN 1 ELSE 0)]]
gmtime(day) ==
    LET y == CHOOSE n \in 0 .. 127 : yearStart[n] <= day /\ day < yearStart[n + 1]
        rest == day - yearStart[y]
        m == CHOOSE n \in 1 .. 12 : monthStart[y][n] <= rest /\ rest < monthStart[y][n + 1]
    IN  [year |-> y, mon |-> m, mday |-> rest - monthStart[y][m] + 1]

-----------------------------------------------------------------------------
(***************************************************************************)
(* Stamps.                                                                 *)
(***************************************************************************)
DosDate(day) == LET t == gmtime(day) IN (t.year % 128) * 512 + (t.mon % 16) * 32 + (t.mday % 32)
DosTime(sec) ==
    (sec \div 3600) * 2048 + ((sec \div 60) % 60) * 32 + (((sec % 60) \div 2) % 32)

unix2DosTs(t) == [date |-> DosDate(t.day), time |-> DosTime(t.sec)]

\* Fault: the odd second is dropped.
unix2DosTs_2Even(t) == [tt |-> t.hundredth, ts |-> unix2DosTs(t)]
\* The odd second and the hundredths are in the byte tt.
unix2DosTs_2(t) == [tt |-> t.hundredth + 100 * (t.sec % 2), ts |-> unix2DosTs(t)]

\* mktime takes its argument for local time.
dos2UnixTs(ts) ==
    LET year == ts.date \div 512
        day == yearStart[year] + monthStart[year][(ts.date \div 32) % 16] + (ts.date % 32) - 1
        sec == (ts.time \div 2048) * 3600 + ((ts.time \div 32) % 64) * 60 + (ts.time % 32) * 2
                   - Zone
    IN  [day |-> day + sec \div SecondsPerDay, sec |-> sec % SecondsPerDay, hundredth |-> 0]

dos2UnixTs_2(ts2) ==
    LET even == dos2UnixTs(ts2.ts)
    IN  IF ts2.tt > 100 THEN [even EXCEPT !.sec = @ + 1, !.hundredth = ts2.tt - 100]
        ELSE [even EXCEPT !.hundredth = ts2.tt]

\* Of the time of an access only the date is kept.
Stamped(old, w, t) ==
    CASE w = "crt" -> [old EXCEPT !.crt = unix2DosTs_2(t)]
      [] w = "acc" -> [old EXCEPT !.acc = DosDate(t.day)]
      [] w = "wrt" -> [old EXCEPT !.wrt = unix2DosTs(t)]
mkShortDirEntry(t) == [crt |-> unix2DosTs_2(t), acc |-> DosDate(t.day), wrt |-> unix2DosTs(t)]

readFileStat ==
    [crt |-> dos2UnixTs_2(meta.crt),
     acc |-> dos2UnixTs([date |-> meta.acc, time |-> 0]),
     wrt |-> dos2UnixTs(meta.wrt)]

-----------------------------------------------------------------------------
(***************************************************************************)
(* The handlers that give a file times.                                    *)
(***************************************************************************)
Created(t) == meta = mkShortDirEntry(t) /\ given = [w \in {"crt", "acc", "wrt"} |-> t]

Give(w, t) == meta' = Stamped(meta, w, t) /\ given' = [given EXCEPT ![w] = t]

\* read and write stamp the current time, setattr what it is asked for.
ReadFile == \E now \in Instant : Give("acc", now)
WriteFile == \E now \in Instant : Give("wrt", now)
SetAttr == \E w \in DOMAIN given, t \in Instant : Give(w, t)

TimeInit == \E t \in Instant : Created(t)
TimeNext == ReadFile \/ WriteFile \/ SetAttr
TimeSpec == TimeInit /\ [][TimeNext]_timeVars

-----------------------------------------------------------------------------
(***************************************************************************)
(* Properties.                                                             *)
(***************************************************************************)
\* What stat answers is the instant the file was given, rounded down to the
\* resolution of its field: a hundredth, a day, two seconds ("ASSERT_TRUE(gap
\* == 0 || gap == 1)", test_fat32.cpp).
StatRoundsDown ==
    LET st == readFileStat
    IN  /\ st.crt = given["crt"]
        /\ st.acc = [day |-> given["acc"].day, sec |-> 0, hundredth |-> 0]
        /\ st.wrt.day = given["wrt"].day /\ given["wrt"].sec - st.wrt.sec \in {0, 1}

\* The second that stat answers is the one given or the one before, wherever the
\* driver runs: a time on the volume is in UTC ("ASSERT_TRUE(gap == 0 || gap ==
\* 1)", test_fat32.cpp unixDosCvt; the comment in unix2DosTs).
SecondKept ==
    LET wrt == readFileStat.wrt
    IN  wrt.day = given["wrt"].day /\ given["wrt"].sec - wrt.sec \in {0, 1}

\* The hundredths of the creation time come back ("ASSERT_EQ(unix_ts.tv_nsec /
\* 10000000, parsed_unix_ts.tv_nsec / 10000000)", test_fat32.cpp unixDosCvt2).
HundredthsKept == readFileStat.crt.hundredth = given["crt"].hundredth
=============================================================================
