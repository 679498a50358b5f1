------------------------------ MODULE Indicators ------------------------------
(***************************************************************************)
(* The series of the indicators (src/strategy/src/indicator.cpp) and the   *)
(* searches in them (iridium/algorithm.hpp): an indicator computed by      *)
(* TA-Lib is aligned with its candles, the last cross over of two moving   *)
(* averages is looked for, and from there the nearest peak before it and   *)
(* the highest candle after it.                                            *)
(*                                                                         *)
(* The candles are counted from 0, the newest last.  Lows mirror highs and *)
(* are obtained from the negated prices.                                   *)
(***************************************************************************)
EXTENDS Integers, Sequences, FiniteSetsExt

CONSTANTS
    FastSeries, SlowSeries, \* the values TA-Lib may give, newest last
    HighSeries,     \* the highs of the candles
    HalfSizes,      \* peak_half_size
    None, Undefined

\* No value of a moving average is 0: prices are positive.
ASSUME SeriesAssumption ==
    /\ \A s \in FastSeries \cup SlowSeries : s \in Seq(Int \ {0})
    /\ \A s \in HighSeries : s \in Seq(Int)
    /\ HalfSizes \subseteq Nat
    /\ Undefined \notin Int

VARIABLES
    highs, fast, slow,  \* the candles and the series aligned with them
    half,               \* peak_half_size
    stage,              \* "cross", "peak", "done", "out_of_range"
    i,                  \* the position of the running loop
    cross,              \* <<is_long, distance_to_last>>, None without one
    peak,               \* the nearest peak before the cross, None without one
    highest             \* the highest price after the cross

vars == <<highs, fast, slow, half, stage, i, cross, peak, highest>>

Count == Len(highs)

----------------------------------------------------------------------------
(* Alignment                                                               *)

\* What TA-Lib writes: its values from the front, and zeros are left behind
\* them; out_beg is the candle the first value belongs to.
TA(series, count) == series \o [n \in 1..(count - Len(series)) |-> 0]
OutBeg(series, count) == IF series = <<>> THEN 0 ELSE count - Len(series)

ProcessOutputDataMutant(out, outBeg, count) == out
\* Zeros are inserted in front, and what is beyond the candles erased.
ProcessOutputData(out, outBeg, count) ==
    SubSeq([n \in 1..outBeg |-> 0] \o out, 1, count)

Aligned(series, count) ==
    ProcessOutputData(TA(series, count), OutBeg(series, count), count)

----------------------------------------------------------------------------
(* Slices                                                                  *)

Slice(v, m, n) == SubSeq(v, m + 1, n + 1)
SliceFirstN(v, n) == Slice(v, 0, n - 1)
SliceLastN(v, n) == Slice(v, Len(v) - n, Len(v) - 1)

Elements(v) == {v[n] : n \in DOMAIN v}

----------------------------------------------------------------------------
(* CheckMACrossOver                                                        *)

DiffMutant(n) == fast[n + 1] - slow[n + 1]
\* A candle without one of the averages has no difference.
Diff(n) ==
    IF fast[n + 1] = 0 \/ slow[n + 1] = 0 THEN 0 ELSE fast[n + 1] - slow[n + 1]

Crosses(n) ==
    \/ Diff(n - 1) < 0 /\ Diff(n) > 0
    \/ Diff(n - 1) > 0 /\ Diff(n) < 0

NoCrossHere ==
    /\ stage = "cross" /\ i >= 1 /\ ~Crosses(i)
    /\ i' = i - 1
    /\ UNCHANGED <<highs, fast, slow, half, stage, cross, peak, highest>>

NoCross ==
    /\ stage = "cross" /\ i < 1
    /\ stage' = "done"
    /\ UNCHANGED <<highs, fast, slow, half, i, cross, peak, highest>>

\* The candles up to the cross over, and their newest candle with enough
\* neighbours on both sides.
BeforeCross == SliceFirstN(highs, Count - cross[2])
Newest(list) == Len(list) - half - 1

\* FindNearestPeakHigh throws for a list too short to have a peak.
FoundCross ==
    /\ stage = "cross" /\ i >= 1 /\ Crosses(i)
    /\ UNCHANGED <<highs, fast, slow, half, peak, highest>>
    /\ cross' = <<Diff(i) > 0, Count - 1 - i>>
    /\ IF Len(BeforeCross') < 2 * half + 1
       THEN stage' = "out_of_range" /\ UNCHANGED i
       ELSE stage' = "peak" /\ i' = Newest(BeforeCross')

----------------------------------------------------------------------------
(* FindNearestPeakHigh and highest_after_ma_cross                          *)

\* The neighbours of a candle, itself in the middle.
NeighboursMutant(n) == Elements(Slice(BeforeCross, n - half, n))
Neighbours(n) == Elements(Slice(BeforeCross, n - half, n + half))

IsPeak(n) == BeforeCross[n + 1] = Max(Neighbours(n))

NoPeakHere ==
    /\ stage = "peak" /\ i >= half /\ ~IsPeak(i)
    /\ i' = i - 1
    /\ UNCHANGED <<highs, fast, slow, half, stage, cross, peak, highest>>

\* The candles after the cross over; the largest of none is read beyond the
\* end of the list.
AfterCrossMutant == SliceLastN(highs, cross[2] + 1)
AfterCross == SliceLastN(highs, cross[2])
HighestAfterCross == IF AfterCross = <<>> THEN Undefined ELSE Max(Elements(AfterCross))

EndOfPeaks ==
    /\ stage = "peak"
    /\ IF i >= half THEN IsPeak(i) /\ peak' = BeforeCross[i + 1] ELSE UNCHANGED peak
    /\ stage' = "done" /\ highest' = HighestAfterCross
    /\ UNCHANGED <<highs, fast, slow, half, i, cross>>

----------------------------------------------------------------------------
Init ==
    /\ highs \in HighSeries /\ half \in HalfSizes
    /\ \E f \in FastSeries, s \in SlowSeries :
         /\ Len(f) <= Count /\ Len(s) <= Len(f)
         /\ fast = Aligned(f, Count) /\ slow = Aligned(s, Count)
    /\ stage = "cross" /\ i = Count - 1
    /\ cross = None /\ peak = None /\ highest = None

Next == NoCrossHere \/ NoCross \/ FoundCross \/ NoPeakHere \/ EndOfPeaks

Spec == Init /\ [][Next]_vars

----------------------------------------------------------------------------
(* Properties                                                              *)

\* A series has a value for every candle, and its newest is that of the newest
\* candle, however few candles there are for the period of the indicator: the
\* strategy compares the ends of several series with each other.
SeriesAreAligned ==
    /\ Len(fast) = Count /\ Len(slow) = Count
    /\ \A series \in {fast, slow} : \A n, m \in 1..Count :
          n < m /\ series[m] = 0 => series[n] = 0

\* On series that are aligned, the cross over that is found is the last change of
\* the sign between two neighbouring candles, and none is seen where a series
\* begins.
CrossIsNearest ==
    /\ SeriesAreAligned
    /\ stage # "cross" =>
        LET Changes(n) == /\ fast[n] # 0 /\ slow[n] # 0 /\ fast[n + 1] # 0 /\ slow[n + 1] # 0
                          /\ (fast[n] - slow[n]) * (fast[n + 1] - slow[n + 1]) < 0
            last == {n \in 1..(Count - 1) : Changes(n)}
        IN  IF last = {} THEN cross = None
            ELSE cross = <<fast[Max(last) + 1] > slow[Max(last) + 1], Count - 1 - Max(last)>>

\* The peak that is found is a candle no neighbour is higher than, not newer
\* than the cross over, and no later candle up to there is such a peak.
PeakIsNearest ==
    stage = "done" /\ cross # None =>
        LET Peaks == {n \in (half + 1)..(Count - cross[2] - half) :
                         \A m \in (n - half)..(n + half) : highs[m] <= highs[n]}
        IN  peak = IF Peaks = {} THEN None ELSE highs[Max(Peaks)]

\* The candles before the cross over and those after it are all the candles,
\* each in one of the two, and the highest after it is one of them; the newest
\* candle crossing is the only case in which there is none to read.
HighestIsAfterTheCross ==
    stage = "done" /\ cross # None =>
        /\ BeforeCross \o AfterCross = highs
        /\ (highest = Undefined) <=> (cross[2] = 0)
        /\ highest # Undefined =>
             \E n \in (Count - cross[2] + 1)..Count :
                highest = highs[n] /\ \A m \in (Count - cross[2] + 1)..Count : highs[m] <= highest
=============================================================================
