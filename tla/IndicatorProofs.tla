---------------------------- MODULE IndicatorProofs ----------------------------
(***************************************************************************)
(* Proofs about the searches in the series of the indicators, for any      *)
(* number of candles, any prices, any averages TA-Lib may leave and any    *)
(* width of a peak.                                                        *)
(***************************************************************************)
EXTENDS Indicators, SequenceTheorems, WellFoundedInduction, TLAPS

----------------------------------------------------------------------------
(* The largest of a list of numbers                                        *)

\* Among candles that follow each other one is not lower than any.
LEMMA LargestExists ==
    ASSUME NEW p \in Int, NEW q \in Int, p <= q,
           NEW s, \A m \in p..q : s[m] \in Int
    PROVE  \E top \in p..q : \A m \in p..q : s[m] <= s[top]
<1> DEFINE HasTop(n) == \E top \in p..(p + n) : \A m \in p..(p + n) : s[m] <= s[top]
           T == {n \in Nat : p + n <= q /\ ~HasTop(n)}
<1>1. CASE T = {}
  <2>1. q - p \in Nat /\ p + (q - p) = q
    OBVIOUS
  <2>2. HasTop(q - p)
    <3>1. q - p \notin T
      BY <1>1
    <3> QED BY <2>1, <3>1
  <2> QED
    BY <2>1, <2>2
<1>2. CASE T # {}
  <2>1. PICK n \in T : \A k \in T : ~(<<k, n>> \in OpToRel(<, Nat))
    <3>1. T \subseteq Nat
      OBVIOUS
    <3> HIDE DEF T
    <3> QED BY <1>2, <3>1, WFMin, NatLessThanWellFounded
  <2>2. n \in Nat /\ p + n <= q /\ ~HasTop(n)
    OBVIOUS
  <2>3. n # 0
    <3>1. ASSUME n = 0 PROVE FALSE
      <4>1. p \in p..(p + n) /\ \A m \in p..(p + n) : m = p
        BY <2>2, <3>1
      <4>2. s[p] \in Int
        OBVIOUS
      <4>3. \A m \in p..(p + n) : s[m] <= s[p]
        <5> TAKE m \in p..(p + n)
        <5>1. s[m] = s[p]
          BY <4>1
        <5> QED BY <4>2, <5>1
      <4>4. HasTop(n)
        BY <4>1, <4>3
      <4> HIDE DEF HasTop
      <4> QED BY <2>2, <4>4
    <3> QED BY <3>1
  <2>4. n - 1 \in Nat /\ p + (n - 1) <= q /\ n - 1 < n
    BY <2>2, <2>3
  <2>5. HasTop(n - 1)
    <3>1. <<n - 1, n>> \in OpToRel(<, Nat)
      BY <2>2, <2>4 DEF OpToRel
    <3>2. n - 1 \notin T
      BY <2>1, <3>1
    <3> QED BY <2>4, <3>2
  <2>6. PICK top \in p..(p + (n - 1)) : \A m \in p..(p + (n - 1)) : s[m] <= s[top]
    BY <2>5
  <2>7. /\ p + n \in p..q /\ top \in p..q /\ s[p + n] \in Int /\ s[top] \in Int
        /\ top \in p..(p + n) /\ p + n \in p..(p + n)
    BY <2>2, <2>4, <2>6
  <2>8. \A m \in p..(p + n) : m = p + n \/ m \in p..(p + (n - 1))
    BY <2>2
  <2>9. \A m \in p..(p + n) : s[m] \in Int
    BY <2>2
  <2>10. CASE s[p + n] <= s[top]
    <3>1. \A m \in p..(p + n) : s[m] <= s[top]
      BY <2>6, <2>8, <2>10
    <3> QED BY <2>2, <2>7, <3>1
  <2>11. CASE ~(s[p + n] <= s[top])
    <3>1. \A m \in p..(p + (n - 1)) : s[m] <= s[p + n]
      <4> TAKE m \in p..(p + (n - 1))
      <4>1. s[m] <= s[top] /\ s[m] \in Int
        BY <2>6, <2>9, <2>2
      <4> QED BY <2>7, <2>11, <4>1
    <3>2. \A m \in p..(p + n) : s[m] <= s[p + n]
      BY <2>7, <2>8, <3>1
    <3> QED BY <2>2, <2>7, <3>2
  <2> QED
    BY <2>10, <2>11
<1> QED
  BY <1>1, <1>2

\* std::max_element, where there is a largest element.
LEMMA MaxIs ==
    ASSUME NEW S \in SUBSET Int, NEW x \in S, \A y \in S : y <= x
    PROVE  Max(S) = x
<1>1. \A y \in S : x >= y
  OBVIOUS
<1>2. \A z \in S : (\A y \in S : z >= y) => z = x
  OBVIOUS
<1> QED
  BY <1>1, <1>2 DEF Max

\* The largest of the candles from p to q.
LEMMA MaxOfCandles ==
    ASSUME NEW p \in Int, NEW q \in Int, p <= q,
           NEW s, \A m \in p..q : s[m] \in Int
    PROVE  \E top \in p..q : /\ Max({s[m] : m \in p..q}) = s[top]
                             /\ \A m \in p..q : s[m] <= s[top]
<1>1. PICK top \in p..q : \A m \in p..q : s[m] <= s[top]
  BY LargestExists
<1> DEFINE S == {s[m] : m \in p..q}
<1>2. S \subseteq Int /\ s[top] \in S /\ \A y \in S : y <= s[top]
  BY <1>1
<1>3. Max(S) = s[top]
  <2> HIDE DEF S
  <2> QED BY <1>2, MaxIs
<1> QED
  BY <1>1, <1>3

----------------------------------------------------------------------------
(* Alignment                                                               *)

\* An aligned series has a value for every candle: zeros before its first, and
\* none of them from there on.
LEMMA AlignedSeries ==
    ASSUME NEW f \in Seq(Int \ {0}), NEW count \in Nat, Len(f) <= count
    PROVE  /\ Aligned(f, count) \in Seq(Int) /\ Len(Aligned(f, count)) = count
           /\ \A n \in 1..count :
                /\ n <= count - Len(f) => Aligned(f, count)[n] = 0
                /\ n > count - Len(f) => Aligned(f, count)[n] # 0
<1> DEFINE gap == count - Len(f)
           tail == [n \in 1..gap |-> 0]
           out == f \o tail
           beg == OutBeg(f, count)
           front == [n \in 1..beg |-> 0]
           all == front \o out
<1>1. /\ Len(f) \in Nat /\ f \in Seq(Int) /\ gap \in Nat /\ tail \in Seq(Int) /\ Len(tail) = gap
      /\ \A n \in 1..gap : tail[n] = 0
      /\ \A n \in 1..Len(f) : f[n] \in Int /\ f[n] # 0
  OBVIOUS
<1>2. /\ beg = IF Len(f) = 0 THEN 0 ELSE gap
      /\ beg \in Nat
  BY <1>1, EmptySeq DEF OutBeg
<1>3. /\ front \in Seq(Int) /\ Len(front) = beg
      /\ \A n \in 1..beg : front[n] = 0
  BY <1>2
<1>4. Aligned(f, count) = SubSeq(all, 1, count)
  BY DEF Aligned, ProcessOutputData, TA
<1> HIDE DEF gap, tail, front, beg
<1>5. /\ out \in Seq(Int) /\ Len(out) = Len(f) + gap
      /\ \A n \in 1..Len(out) : out[n] = IF n <= Len(f) THEN f[n] ELSE tail[n - Len(f)]
  BY <1>1, ConcatProperties
<1> HIDE DEF out
<1>6. /\ all \in Seq(Int) /\ Len(all) = beg + Len(f) + gap
      /\ \A n \in 1..Len(all) : all[n] = IF n <= beg THEN front[n] ELSE out[n - beg]
  <2>1. /\ all \in Seq(Int) /\ Len(all) = Len(front) + Len(out)
        /\ \A n \in 1..(Len(front) + Len(out)) :
             all[n] = IF n <= Len(front) THEN front[n] ELSE out[n - Len(front)]
    <3>1. front \in Seq(Int) /\ out \in Seq(Int)
      BY <1>3, <1>5
    <3> QED BY <3>1, ConcatProperties
  <2> HIDE DEF all
  <2>2. Len(front) = beg /\ Len(front) + Len(out) = beg + Len(f) + gap
    <3>1. Len(front) = beg
      BY <1>3
    <3>2. Len(out) = Len(f) + gap
      BY <1>5
    <3>3. Len(f) \in Nat /\ gap \in Nat /\ beg \in Nat
      BY <1>1, <1>2
    <3> QED
      BY <3>1, <3>2, <3>3
  <2>3. Len(all) = Len(front) + Len(out)
    BY <2>1
  <2> QED
    BY <2>1, <2>2, <2>3
<1> HIDE DEF all
<1>7. gap = count - Len(f)
  BY DEF gap
<1>8. count <= Len(all)
  BY <1>1, <1>2, <1>6, <1>7
<1>9. \A n \in 1..count : all[n] \in Int
  BY <1>1, <1>2, <1>6, <1>8
<1>10. /\ SubSeq(all, 1, count) \in Seq(Int) /\ Len(SubSeq(all, 1, count)) = count
       /\ \A n \in 1..count : SubSeq(all, 1, count)[n] = all[n]
  BY <1>9, SubSeqProperties
<1>11. ASSUME NEW n \in 1..count, n <= gap
       PROVE  all[n] = 0
  <2>1. CASE n <= beg
    <3>1. n \in 1..beg /\ n \in 1..Len(all)
      BY <1>1, <1>2, <1>6, <1>8, <2>1
    <3> QED
      BY <1>3, <1>6, <2>1, <3>1
  <2>2. CASE n > beg
    <3>1. beg = 0 /\ Len(f) = 0
      BY <1>1, <1>2, <1>11, <2>2
    <3>2. n \in 1..Len(out) /\ out[n] = tail[n] /\ n \in 1..gap
      BY <1>1, <1>5, <1>11, <3>1
    <3>3. all[n] = out[n]
      BY <1>6, <1>8, <1>11, <2>2, <3>1
    <3> QED
      BY <1>1, <3>2, <3>3
  <2> QED
    BY <1>2, <1>11, <2>1, <2>2
<1>12. ASSUME NEW n \in 1..count, n > gap
       PROVE  all[n] # 0
  <2>1. Len(f) # 0 /\ beg = gap
    BY <1>1, <1>2, <1>7, <1>12
  <2>2. n - beg \in 1..Len(f)
    BY <1>1, <1>7, <1>12, <2>1
  <2>3. all[n] = out[n - beg] /\ out[n - beg] = f[n - beg]
    <3>1. n \in 1..Len(all) /\ ~(n <= beg)
      BY <1>1, <1>2, <1>6, <1>8, <1>12, <2>1
    <3>2. n - beg \in 1..Len(out) /\ n - beg <= Len(f)
      BY <1>1, <1>5, <2>2
    <3> QED
      BY <1>5, <1>6, <3>1, <3>2
  <2> QED
    BY <1>1, <2>2, <2>3
<1> QED
  BY <1>4, <1>7, <1>10, <1>11, <1>12

----------------------------------------------------------------------------
(* The invariant                                                           *)

\* Where two neighbouring candles have both averages, and these change sides.
SignChanges ==
    {n \in 1..(Count - 1) :
        /\ fast[n] # 0 /\ slow[n] # 0 /\ fast[n + 1] # 0 /\ slow[n + 1] # 0
        /\ (fast[n] - slow[n]) * (fast[n + 1] - slow[n + 1]) < 0}

\* The candles up to the cross over that no neighbour is higher than.
Peaks ==
    {n \in (half + 1)..(Count - cross[2] - half) :
        \A m \in (n - half)..(n + half) : highs[m] <= highs[n]}

SeriesOK ==
    /\ highs \in Seq(Int) /\ fast \in Seq(Int) /\ slow \in Seq(Int) /\ half \in Nat
    /\ stage \in {"cross", "peak", "done", "out_of_range"}
    /\ SeriesAreAligned

\* The search for the cross over has seen every change of the sign behind it.
CrossSearch ==
    stage = "cross" =>
        /\ cross = None /\ peak = None
        /\ i \in Int /\ i <= Count - 1
        /\ \A n \in SignChanges : n <= i

\* The search for the peak has the cross over before it, enough candles, and has
\* seen every peak behind it.
PeakSearch ==
    stage = "peak" =>
        /\ peak = None
        /\ cross[2] \in 0..(Count - 2) /\ 2 * half + 1 <= Count - cross[2]
        /\ i \in Int /\ i <= Count - cross[2] - half - 1
        /\ \A n \in Peaks : n <= i + 1

SearchesInvariant ==
    /\ SeriesOK /\ CrossSearch /\ PeakSearch
    /\ CrossIsNearest /\ PeakIsNearest /\ HighestIsAfterTheCross

----------------------------------------------------------------------------
(* The cross over                                                          *)

\* The last of a bounded set of positions.
LEMMA LastIs ==
    ASSUME NEW S \in SUBSET Int, NEW x \in S, \A y \in S : y <= x
    PROVE  S # {} /\ Max(S) = x
BY MaxIs

LEMMA SignOfProduct ==
    ASSUME NEW a \in Int, NEW b \in Int
    PROVE  a * b < 0 <=> ((a < 0 /\ b > 0) \/ (a > 0 /\ b < 0))
<1>1. CASE a = 0
  BY <1>1
<1>2. CASE b = 0
  BY <1>2
<1>3. CASE a > 0 /\ b > 0
  BY <1>3
<1>4. CASE a < 0 /\ b < 0
  BY <1>4
<1>5. CASE a < 0 /\ b > 0
  BY <1>5
<1>6. CASE a > 0 /\ b < 0
  BY <1>6
<1> QED
  BY <1>1, <1>2, <1>3, <1>4, <1>5, <1>6

\* The conditions of CheckMACrossOver are met where the sign changes, and the
\* direction is that of the newer candle.
LEMMA CrossesAreSignChanges ==
    ASSUME SeriesOK, NEW n \in 1..(Count - 1)
    PROVE  /\ Crosses(n) <=> n \in SignChanges
           /\ Crosses(n) => (Diff(n) > 0 <=> fast[n + 1] > slow[n + 1])
<1>1. /\ Count \in Nat /\ Len(fast) = Count /\ Len(slow) = Count
      /\ n \in 1..Count /\ n + 1 \in 1..Count /\ (n - 1) + 1 = n
  BY DEF SeriesOK, SeriesAreAligned, Count
<1>2. fast[n] \in Int /\ slow[n] \in Int /\ fast[n + 1] \in Int /\ slow[n + 1] \in Int
  BY <1>1 DEF SeriesOK
<1> DEFINE a == fast[n] - slow[n]
           b == fast[n + 1] - slow[n + 1]
<1>3. a \in Int /\ b \in Int
  BY <1>2
<1>4. a * b < 0 <=> ((a < 0 /\ b > 0) \/ (a > 0 /\ b < 0))
  <2> HIDE DEF a, b
  <2> QED BY <1>3, SignOfProduct
<1>5. Diff(n - 1) = IF fast[n] = 0 \/ slow[n] = 0 THEN 0 ELSE a
  BY <1>1 DEF Diff
<1>6. Diff(n) = IF fast[n + 1] = 0 \/ slow[n + 1] = 0 THEN 0 ELSE b
  BY DEF Diff
<1>7. n \in SignChanges <=>
        /\ fast[n] # 0 /\ slow[n] # 0 /\ fast[n + 1] # 0 /\ slow[n + 1] # 0
        /\ a * b < 0
  BY DEF SignChanges
<1>8. b > 0 <=> fast[n + 1] > slow[n + 1]
  BY <1>2
<1> HIDE DEF a, b
<1>9. Crosses(n) <=> n \in SignChanges
  BY <1>3, <1>4, <1>5, <1>6, <1>7 DEF Crosses
<1>10. Crosses(n) => (Diff(n) > 0 <=> b > 0)
  BY <1>3, <1>6 DEF Crosses
<1> QED
  BY <1>8, <1>9, <1>10

\* What is said of the cross over that was found, and of none.
LEMMA NearestCross ==
    ASSUME SeriesOK
    PROVE  CrossIsNearest <=>
             (stage # "cross" =>
                IF SignChanges = {} THEN cross = None
                ELSE cross = <<fast[Max(SignChanges) + 1] > slow[Max(SignChanges) + 1],
                               Count - 1 - Max(SignChanges)>>)
BY DEF SeriesOK, CrossIsNearest, SignChanges

----------------------------------------------------------------------------
(* The candles before and after the cross over                             *)

\* The slices of the candles at both sides of a position.
LEMMA SlicesOfCandles ==
    ASSUME NEW h \in Seq(Int), NEW k \in 0..Len(h)
    PROVE  /\ SliceFirstN(h, Len(h) - k) = SubSeq(h, 1, Len(h) - k)
           /\ SliceLastN(h, k) = SubSeq(h, Len(h) - k + 1, Len(h))
           /\ SliceFirstN(h, Len(h) - k) \in Seq(Int)
           /\ Len(SliceFirstN(h, Len(h) - k)) = Len(h) - k
           /\ \A j \in 1..(Len(h) - k) : SliceFirstN(h, Len(h) - k)[j] = h[j]
           /\ SliceFirstN(h, Len(h) - k) \o SliceLastN(h, k) = h
<1>1. Len(h) \in Nat /\ k \in Int /\ 0 <= k /\ k <= Len(h)
  OBVIOUS
<1> DEFINE n == Len(h) - k
<1>2. n \in Nat /\ n <= Len(h)
  BY <1>1
<1>3. SliceFirstN(h, n) = SubSeq(h, 1, n)
  <2>1. 0 + 1 = 1 /\ (n - 1) + 1 = n
    BY <1>2
  <2> QED
    BY <2>1 DEF SliceFirstN, Slice
<1>4. SliceLastN(h, k) = SubSeq(h, n + 1, Len(h))
  <2>1. (Len(h) - k) + 1 = n + 1 /\ (Len(h) - 1) + 1 = Len(h)
    BY <1>1
  <2> QED
    BY <2>1 DEF SliceLastN, Slice
<1>5. \A j \in 1..n : h[j] \in Int
  BY <1>1, <1>2
<1>6. /\ SubSeq(h, 1, n) \in Seq(Int) /\ Len(SubSeq(h, 1, n)) = n
      /\ \A j \in 1..n : SubSeq(h, 1, n)[j] = h[j]
  <2> HIDE DEF n
  <2> QED BY <1>2, <1>5, SubSeqProperties
<1>7. SubSeq(h, 1, n) \o SubSeq(h, n + 1, Len(h)) = h
  <2>1. SubSeq(h, 1, n) \o SubSeq(h, n + 1, Len(h)) = SubSeq(h, 1, Len(h))
    <3>1. 1 \in 1..(Len(h) + 1) /\ n \in (1 - 1)..Len(h) /\ Len(h) \in n..Len(h)
      BY <1>1, <1>2
    <3> HIDE DEF n
    <3> QED BY <3>1, ConcatAdjacentSubSeq
  <2>2. SubSeq(h, 1, Len(h)) = h
    BY SubSeqFull
  <2> QED BY <2>1, <2>2
<1> QED
  BY <1>3, <1>4, <1>6, <1>7

LEMMA BeforeCrossIs ==
    ASSUME SeriesOK, cross[2] \in 0..Count
    PROVE  /\ BeforeCross \in Seq(Int) /\ Len(BeforeCross) = Count - cross[2]
           /\ \A j \in 1..(Count - cross[2]) : BeforeCross[j] = highs[j]
           /\ BeforeCross \o AfterCross = highs
           /\ AfterCross = SubSeq(highs, Count - cross[2] + 1, Count)
<1>1. highs \in Seq(Int) /\ Count = Len(highs)
  BY DEF SeriesOK, Count
<1>2. PICK k : k = cross[2]
  OBVIOUS
<1>3. BeforeCross = SliceFirstN(highs, Len(highs) - k) /\ AfterCross = SliceLastN(highs, k)
  BY <1>1, <1>2 DEF BeforeCross, AfterCross
<1>4. k \in 0..Len(highs)
  BY <1>1, <1>2
<1> QED
  BY <1>1, <1>2, <1>3, <1>4, SlicesOfCandles

\* The largest of a slice.
LEMMA MaxOfElements ==
    ASSUME NEW s, NEW p \in Int, NEW q \in Int, p <= q,
           \A m \in p..q : s[m] \in Int
    PROVE  \E top \in p..q : /\ Max(Elements(SubSeq(s, p, q))) = s[top]
                             /\ \A m \in p..q : s[m] <= s[top]
<1> DEFINE v == SubSeq(s, p, q)
           S == {s[m] : m \in p..q}
<1>1. /\ v \in Seq(Int) /\ Len(v) = q - p + 1
      /\ \A j \in 1..(q - p + 1) : v[j] = s[p + j - 1]
  BY SubSeqProperties
<1> HIDE DEF v
<1>2. DOMAIN v = 1..(q - p + 1)
  BY <1>1
<1>3. ASSUME NEW e \in Elements(v) PROVE e \in S
  <2>1. PICK j \in 1..(q - p + 1) : e = v[j]
    BY <1>2, <1>3 DEF Elements
  <2>2. p + j - 1 \in p..q /\ e = s[p + j - 1]
    BY <1>1, <2>1
  <2> QED BY <2>2
<1>4. ASSUME NEW e \in S PROVE e \in Elements(v)
  <2>1. PICK m \in p..q : e = s[m]
    BY <1>4
  <2>2. PICK j : j = m - p + 1
    OBVIOUS
  <2>3. j \in 1..(q - p + 1) /\ p + j - 1 = m
    BY <2>2
  <2>4. e = v[j]
    BY <1>1, <2>1, <2>3
  <2> QED BY <1>2, <2>3, <2>4 DEF Elements
<1>5. Elements(v) = S
  <2> HIDE DEF S
  <2> QED BY <1>3, <1>4
<1>6. \E top \in p..q : Max(S) = s[top] /\ \A m \in p..q : s[m] <= s[top]
  BY MaxOfCandles
<1> QED
  BY <1>5, <1>6 DEF v

\* The test of FindNearestPeakHigh is met by the peaks and by no other candle.
LEMMA PeakTest ==
    ASSUME SeriesOK, cross[2] \in 0..Count,
           NEW n \in half..(Count - cross[2] - half - 1)
    PROVE  /\ IsPeak(n) <=> n + 1 \in Peaks
           /\ BeforeCross[n + 1] = highs[n + 1]
<1>1. /\ half \in Nat /\ Count \in Nat /\ n \in Int /\ highs \in Seq(Int) /\ Len(highs) = Count
      /\ cross[2] \in Int /\ 0 <= cross[2] /\ cross[2] <= Count
  BY DEF SeriesOK, Count
<1> DEFINE p == n - half + 1
           q == n + half + 1
<1>2. p \in Int /\ q \in Int /\ p <= q /\ 1 <= p /\ q <= Count - cross[2] /\ n + 1 \in p..q
  BY <1>1
<1>3. \A m \in p..q : m \in 1..(Count - cross[2]) /\ m \in 1..Count
  BY <1>1, <1>2
<1>4. \A m \in p..q : BeforeCross[m] = highs[m] /\ BeforeCross[m] \in Int
  <2>1. \A j \in 1..(Count - cross[2]) : BeforeCross[j] = highs[j]
    BY BeforeCrossIs
  <2>2. \A m \in 1..Count : highs[m] \in Int
    BY <1>1
  <2> QED
    BY <1>3, <2>1, <2>2
<1>5. Neighbours(n) = Elements(SubSeq(BeforeCross, p, q))
  BY DEF Neighbours, Slice
<1> HIDE DEF p, q
<1>6. PICK top \in p..q : /\ Max(Neighbours(n)) = BeforeCross[top]
                          /\ \A m \in p..q : BeforeCross[m] <= BeforeCross[top]
  BY <1>2, <1>4, <1>5, MaxOfElements
<1>7. IsPeak(n) <=> highs[n + 1] = highs[top]
  BY <1>2, <1>4, <1>6 DEF IsPeak
<1>8. \A m \in p..q : highs[m] \in Int /\ highs[m] <= highs[top]
  BY <1>4, <1>6
<1>9. highs[n + 1] = highs[top] <=> \A m \in p..q : highs[m] <= highs[n + 1]
  BY <1>2, <1>8
<1>10. p = (n + 1) - half /\ q = (n + 1) + half /\ n + 1 \in (half + 1)..(Count - cross[2] - half)
  BY <1>1 DEF p, q
<1>11. n + 1 \in Peaks <=> \A m \in p..q : highs[m] <= highs[n + 1]
  BY <1>10 DEF Peaks
<1> QED
  BY <1>2, <1>4, <1>7, <1>9, <1>11

\* The highest of the candles after the cross over.
LEMMA HighestIs ==
    ASSUME SeriesOK, cross[2] \in 0..Count
    PROVE  /\ HighestAfterCross = Undefined <=> cross[2] = 0
           /\ HighestAfterCross # Undefined =>
                \E n \in (Count - cross[2] + 1)..Count :
                    /\ HighestAfterCross = highs[n]
                    /\ \A m \in (Count - cross[2] + 1)..Count : highs[m] <= highs[n]
<1> DEFINE p == Count - cross[2] + 1
<1>1. /\ Count \in Nat /\ highs \in Seq(Int) /\ Len(highs) = Count
      /\ cross[2] \in Int /\ 0 <= cross[2] /\ cross[2] <= Count
      /\ p \in Int /\ 1 <= p
  BY DEF SeriesOK, Count
<1>2. AfterCross = SubSeq(highs, p, Count)
  BY BeforeCrossIs
<1>3. \A m \in p..Count : highs[m] \in Int
  BY <1>1
<1>4. CASE cross[2] = 0
  <2>1. Count < p
    BY <1>1, <1>4
  <2>2. AfterCross = <<>>
    <3> HIDE DEF p
    <3> QED BY <1>1, <1>2, <2>1, SubSeqEmpty
  <2> QED
    BY <1>4, <2>2 DEF HighestAfterCross
<1>5. CASE cross[2] # 0
  <2>1. p <= Count
    BY <1>1, <1>5
  <2> HIDE DEF p
  <2>2. Len(AfterCross) = Count - p + 1
    BY <1>1, <1>2, <1>3, <2>1, SubSeqProperties
  <2>3. AfterCross # <<>>
    BY <1>1, <2>1, <2>2
  <2>4. PICK top \in p..Count : /\ Max(Elements(AfterCross)) = highs[top]
                                /\ \A m \in p..Count : highs[m] <= highs[top]
    <3>1. PICK q : q = Count
      OBVIOUS
    <3>2. q \in Int /\ p \in Int /\ p <= q /\ \A m \in p..q : highs[m] \in Int
      BY <1>1, <1>3, <2>1, <3>1
    <3>3. \E top \in p..q : /\ Max(Elements(SubSeq(highs, p, q))) = highs[top]
                            /\ \A m \in p..q : highs[m] <= highs[top]
      BY <3>2, MaxOfElements
    <3> QED
      BY <1>2, <3>1, <3>3
  <2>5. HighestAfterCross = highs[top] /\ highs[top] \in Int
    BY <1>3, <2>3, <2>4 DEF HighestAfterCross
  <2>6. HighestAfterCross # Undefined
    BY <2>5, SeriesAssumption
  <2> QED
    BY <1>5, <2>4, <2>5, <2>6 DEF p
<1> QED
  BY <1>4, <1>5

----------------------------------------------------------------------------
(* The steps                                                               *)

LEMMA InitSearches ==
    ASSUME Init
    PROVE  SearchesInvariant
<1>1. highs \in Seq(Int) /\ half \in Nat /\ Count \in Nat /\ Count = Len(highs)
  BY SeriesAssumption DEF Init, Count
<1>2. PICK f \in FastSeries, s \in SlowSeries :
        /\ Len(f) <= Count /\ Len(s) <= Len(f)
        /\ fast = Aligned(f, Count) /\ slow = Aligned(s, Count)
  BY DEF Init
<1>3. f \in Seq(Int \ {0}) /\ s \in Seq(Int \ {0})
  BY SeriesAssumption
<1>4. PICK c : c = Count
  OBVIOUS
<1>5. /\ fast \in Seq(Int) /\ Len(fast) = c
      /\ \A n \in 1..c : /\ n <= c - Len(f) => fast[n] = 0
                         /\ n > c - Len(f) => fast[n] # 0
  BY <1>1, <1>2, <1>3, <1>4, AlignedSeries
<1>6. /\ slow \in Seq(Int) /\ Len(slow) = c
      /\ \A n \in 1..c : /\ n <= c - Len(s) => slow[n] = 0
                         /\ n > c - Len(s) => slow[n] # 0
  <2>1. Len(f) \in Nat /\ Len(s) \in Nat /\ Len(s) <= c
    BY <1>1, <1>2, <1>3, <1>4
  <2> QED
    BY <1>1, <1>2, <1>3, <1>4, <2>1, AlignedSeries
<1>7. ASSUME NEW series, NEW g \in Nat, NEW n \in 1..c, NEW m \in 1..c, n < m,
             \A x \in 1..c : /\ x <= c - g => series[x] = 0
                             /\ x > c - g => series[x] # 0,
             series[m] = 0
      PROVE  series[n] = 0
  <2>1. c \in Int /\ g \in Int /\ n \in Int /\ m \in Int
    BY <1>1, <1>4
  <2>2. ~(m > c - g)
    BY <1>7
  <2>3. n <= c - g
    BY <1>7, <2>1, <2>2
  <2>4. n \in 1..c /\ (n <= c - g => series[n] = 0)
    BY <1>7
  <2> QED
    BY <2>3, <2>4
<1>8. SeriesAreAligned
  <2>1. Len(f) \in Nat /\ Len(s) \in Nat
    BY <1>3
  <2>2. \A n, m \in 1..c : n < m /\ fast[m] = 0 => fast[n] = 0
    BY <1>5, <1>7, <2>1
  <2>3. \A n, m \in 1..c : n < m /\ slow[m] = 0 => slow[n] = 0
    BY <1>6, <1>7, <2>1
  <2> QED
    BY <1>4, <1>5, <1>6, <2>2, <2>3 DEF SeriesAreAligned
<1>9. SeriesOK
  BY <1>1, <1>5, <1>6, <1>8 DEF Init, SeriesOK
<1>10. CrossSearch
  <2>1. /\ stage = "cross" /\ cross = None /\ peak = None
        /\ i \in Int /\ i = Count - 1
    BY <1>1 DEF Init
  <2>2. \A n \in SignChanges : n <= i
    BY <1>1, <2>1 DEF SignChanges
  <2> QED
    BY <1>1, <2>1, <2>2 DEF CrossSearch
<1>11. CrossIsNearest
  BY <1>9, NearestCross DEF Init
<1>12. PeakSearch /\ PeakIsNearest /\ HighestIsAfterTheCross
  BY DEF Init, PeakSearch, PeakIsNearest, HighestIsAfterTheCross
<1> QED
  BY <1>9, <1>10, <1>11, <1>12 DEF SearchesInvariant

LEMMA NoCrossHereKeeps ==
    ASSUME SearchesInvariant, NoCrossHere
    PROVE  SearchesInvariant'
<1>1. /\ stage = "cross" /\ i >= 1 /\ ~Crosses(i) /\ i' = i - 1
      /\ UNCHANGED <<highs, fast, slow, half, stage, cross, peak, highest>>
  BY DEF NoCrossHere
<1>2. /\ SeriesOK /\ cross = None /\ peak = None /\ i \in Int /\ i <= Count - 1
      /\ \A n \in SignChanges : n <= i
  BY <1>1 DEF SearchesInvariant, CrossSearch
<1>3. SeriesOK' /\ Count' = Count /\ SignChanges' = SignChanges
  BY <1>1, <1>2 DEF SeriesOK, SeriesAreAligned, Count, SignChanges
<1>4. Count \in Nat /\ \A n \in SignChanges : n \in Int
  BY <1>2 DEF SeriesOK, Count, SignChanges
<1>5. i \in 1..(Count - 1)
  BY <1>1, <1>2, <1>4
<1>6. i \notin SignChanges
  BY <1>1, <1>2, <1>5, CrossesAreSignChanges
<1>7. \A n \in SignChanges : n <= i - 1
  BY <1>2, <1>4, <1>6
<1>8. CrossSearch'
  BY <1>1, <1>2, <1>3, <1>4, <1>7 DEF CrossSearch
<1>9. stage' = "cross"
  BY <1>1
<1>10. PeakSearch' /\ PeakIsNearest' /\ HighestIsAfterTheCross'
  BY <1>9 DEF PeakSearch, PeakIsNearest, HighestIsAfterTheCross
<1>11. CrossIsNearest'
  BY <1>3, <1>9 DEF CrossIsNearest, SeriesOK
<1> QED
  BY <1>3, <1>8, <1>10, <1>11 DEF SearchesInvariant

LEMMA NoCrossKeeps ==
    ASSUME SearchesInvariant, NoCross
    PROVE  SearchesInvariant'
<1>1. /\ stage = "cross" /\ i < 1 /\ stage' = "done"
      /\ UNCHANGED <<highs, fast, slow, half, i, cross, peak, highest>>
  BY DEF NoCross
<1>2. /\ SeriesOK /\ cross = None /\ i \in Int
      /\ \A n \in SignChanges : n <= i
  BY <1>1 DEF SearchesInvariant, CrossSearch
<1>3. SeriesOK' /\ SignChanges' = SignChanges
  BY <1>1, <1>2 DEF SeriesOK, SeriesAreAligned, Count, SignChanges
<1>4. SignChanges = {}
  <2>1. \A n \in SignChanges : n \in Int /\ n >= 1
    BY <1>2 DEF SeriesOK, Count, SignChanges
  <2> QED
    BY <1>1, <1>2, <2>1
<1>5. CrossIsNearest'
  <2>1. cross' = None /\ SignChanges' = {}
    BY <1>1, <1>2, <1>3, <1>4
  <2> QED
    BY <1>3, <2>1 DEF SeriesOK, CrossIsNearest, SignChanges
<1>6. CrossSearch' /\ PeakSearch' /\ PeakIsNearest' /\ HighestIsAfterTheCross'
  BY <1>1, <1>2 DEF CrossSearch, PeakSearch, PeakIsNearest, HighestIsAfterTheCross
<1> QED
  BY <1>3, <1>5, <1>6 DEF SearchesInvariant

LEMMA FoundCrossKeeps ==
    ASSUME SearchesInvariant, FoundCross
    PROVE  SearchesInvariant'
<1>1. /\ stage = "cross" /\ i >= 1 /\ Crosses(i)
      /\ UNCHANGED <<highs, fast, slow, half, peak, highest>>
      /\ cross' = <<Diff(i) > 0, Count - 1 - i>>
      /\ IF Len(BeforeCross') < 2 * half + 1
         THEN stage' = "out_of_range" /\ UNCHANGED i
         ELSE stage' = "peak" /\ i' = Newest(BeforeCross')
  BY DEF FoundCross
<1>2. /\ SeriesOK /\ cross = None /\ peak = None /\ i \in Int /\ i <= Count - 1
      /\ \A n \in SignChanges : n <= i
  BY <1>1 DEF SearchesInvariant, CrossSearch
<1>3. SeriesOK' /\ Count' = Count /\ SignChanges' = SignChanges
  BY <1>1, <1>2 DEF SeriesOK, SeriesAreAligned, Count, SignChanges
<1>4. Count \in Nat /\ half \in Nat /\ SignChanges \subseteq Int
  BY <1>2 DEF SeriesOK, Count, SignChanges
<1>5. i \in 1..(Count - 1)
  BY <1>1, <1>2, <1>4
<1>6. i \in SignChanges /\ (Diff(i) > 0 <=> fast[i + 1] > slow[i + 1])
  BY <1>1, <1>2, <1>5, CrossesAreSignChanges
<1>7. SignChanges # {} /\ Max(SignChanges) = i
  BY <1>2, <1>4, <1>6, LastIs
<1>8. cross' = <<fast[i + 1] > slow[i + 1], Count - 1 - i>>
  <2>1. (Diff(i) > 0) = (fast[i + 1] > slow[i + 1])
    BY <1>6
  <2> QED
    BY <1>1, <2>1
<1>9. CrossIsNearest'
  <2>1. /\ SignChanges' # {} /\ Max(SignChanges') = i
        /\ cross' = <<fast'[Max(SignChanges') + 1] > slow'[Max(SignChanges') + 1],
                     Count' - 1 - Max(SignChanges')>>
    BY <1>1, <1>3, <1>7, <1>8
  <2> QED
    BY <1>3, <2>1 DEF SeriesOK, CrossIsNearest, SignChanges
<1>10. cross'[2] = Count - 1 - i /\ cross'[2] \in 0..(Count - 2) /\ cross'[2] \in 0..Count'
  BY <1>3, <1>4, <1>5, <1>8
<1>11. Len(BeforeCross') = Count - cross'[2]
  <2>1. PICK k : k = cross'[2]
    OBVIOUS
  <2>2. /\ highs' = highs /\ highs \in Seq(Int) /\ Count = Len(highs) /\ k \in 0..Len(highs)
    BY <1>1, <1>2, <1>3, <1>10, <2>1 DEF SeriesOK, Count
  <2>3. BeforeCross' = SliceFirstN(highs, Len(highs) - k)
    BY <1>3, <2>1, <2>2 DEF BeforeCross
  <2> QED
    BY <2>1, <2>2, <2>3, SlicesOfCandles
<1>12. PeakSearch'
  <2>1. SUFFICES ASSUME stage' = "peak"
                 PROVE  /\ peak' = None
                        /\ cross'[2] \in 0..(Count' - 2) /\ 2 * half' + 1 <= Count' - cross'[2]
                        /\ i' \in Int /\ i' <= Count' - cross'[2] - half' - 1
                        /\ \A n \in Peaks' : n <= i' + 1
    BY DEF PeakSearch
  <2>2. ~(Len(BeforeCross') < 2 * half + 1) /\ i' = Newest(BeforeCross')
    BY <1>1, <2>1
  <2>3. i' = Count - cross'[2] - half - 1
    BY <1>1, <1>11, <2>2 DEF Newest
  <2>4. cross'[2] \in Int /\ half' = half
    BY <1>1, <1>10
  <2>5. 2 * half + 1 <= Count - cross'[2]
    BY <1>4, <1>11, <2>2, <2>4
  <2>6. \A n \in Peaks' : n \in (half + 1)..(Count - cross'[2] - half)
    BY <1>3, <2>4 DEF Peaks
  <2>7. \A n \in Peaks' : n <= i' + 1
    BY <1>4, <2>3, <2>4, <2>6
  <2> QED
    BY <1>1, <1>2, <1>3, <1>4, <1>10, <2>3, <2>4, <2>5, <2>7
<1>13. stage' \in {"peak", "out_of_range"}
  BY <1>1
<1>14. SeriesOK' /\ CrossSearch' /\ PeakIsNearest' /\ HighestIsAfterTheCross'
  BY <1>3, <1>13 DEF CrossSearch, PeakIsNearest, HighestIsAfterTheCross
<1> QED
  BY <1>9, <1>12, <1>14 DEF SearchesInvariant

\* The search for the peak leaves the series and the cross over.
LEMMA PeakStep ==
    ASSUME SearchesInvariant, stage = "peak", stage' \in {"peak", "done"},
           UNCHANGED <<highs, fast, slow, half, cross>>
    PROVE  /\ SeriesOK' /\ CrossSearch' /\ CrossIsNearest'
           /\ Count' = Count /\ Peaks' = Peaks
           /\ SeriesOK /\ Count \in Nat /\ half \in Nat /\ Peaks \subseteq Int
           /\ peak = None /\ i \in Int /\ i <= Count - cross[2] - half - 1
           /\ cross[2] \in 0..Count
           /\ \A n \in Peaks : n <= i + 1
<1>1. /\ SeriesOK /\ peak = None /\ i \in Int /\ i <= Count - cross[2] - half - 1
      /\ cross[2] \in 0..(Count - 2)
      /\ \A n \in Peaks : n <= i + 1
  BY DEF SearchesInvariant, PeakSearch
<1>2. Count \in Nat /\ half \in Nat
  BY <1>1 DEF SeriesOK, Count
<1>3. cross[2] \in 0..Count /\ Peaks \subseteq Int
  BY <1>1, <1>2 DEF Peaks
<1>4. SeriesOK' /\ Count' = Count /\ Peaks' = Peaks
  BY <1>1 DEF SeriesOK, SeriesAreAligned, Count, Peaks
<1>5. CrossSearch'
  BY DEF CrossSearch
<1>6. CrossIsNearest'
  BY DEF SearchesInvariant, CrossIsNearest, SeriesAreAligned, Count
<1> QED
  BY <1>1, <1>2, <1>3, <1>4, <1>5, <1>6

LEMMA NoPeakHereKeeps ==
    ASSUME SearchesInvariant, NoPeakHere
    PROVE  SearchesInvariant'
<1>1. /\ stage = "peak" /\ i >= half /\ ~IsPeak(i) /\ i' = i - 1
      /\ UNCHANGED <<highs, fast, slow, half, stage, cross, peak, highest>>
  BY DEF NoPeakHere
<1>2. /\ SeriesOK' /\ CrossSearch' /\ CrossIsNearest'
      /\ Count' = Count /\ Peaks' = Peaks
      /\ SeriesOK /\ Count \in Nat /\ half \in Nat /\ Peaks \subseteq Int
      /\ peak = None /\ i \in Int /\ i <= Count - cross[2] - half - 1
      /\ cross[2] \in 0..Count
      /\ \A n \in Peaks : n <= i + 1
  BY <1>1, PeakStep
<1>3. i + 1 \notin Peaks
  <2>1. i \in half..(Count - cross[2] - half - 1)
    BY <1>1, <1>2
  <2> QED
    BY <1>1, <1>2, <2>1, PeakTest
<1>4. \A n \in Peaks : n <= (i - 1) + 1
  <2> TAKE n \in Peaks
  <2>1. n \in Int /\ n <= i + 1 /\ n # i + 1
    BY <1>2, <1>3
  <2> QED
    BY <1>2, <2>1
<1>5. PeakSearch'
  <2>1. 2 * half + 1 <= Count - cross[2] /\ cross[2] \in 0..(Count - 2)
    BY <1>1 DEF SearchesInvariant, PeakSearch
  <2>2. i' \in Int /\ i' <= Count - cross[2] - half - 1
    BY <1>1, <1>2
  <2> QED
    BY <1>1, <1>2, <1>4, <2>1, <2>2 DEF PeakSearch
<1>6. PeakIsNearest' /\ HighestIsAfterTheCross'
  BY <1>1 DEF PeakIsNearest, HighestIsAfterTheCross
<1> QED
  BY <1>2, <1>5, <1>6 DEF SearchesInvariant

LEMMA EndOfPeaksKeeps ==
    ASSUME SearchesInvariant, EndOfPeaks
    PROVE  SearchesInvariant'
<1>1. /\ stage = "peak" /\ stage' = "done" /\ highest' = HighestAfterCross
      /\ IF i >= half THEN IsPeak(i) /\ peak' = BeforeCross[i + 1] ELSE UNCHANGED peak
      /\ UNCHANGED <<highs, fast, slow, half, i, cross>>
  BY DEF EndOfPeaks
<1>2. /\ SeriesOK' /\ CrossSearch' /\ CrossIsNearest'
      /\ Count' = Count /\ Peaks' = Peaks
      /\ SeriesOK /\ Count \in Nat /\ half \in Nat /\ Peaks \subseteq Int
      /\ peak = None /\ i \in Int /\ i <= Count - cross[2] - half - 1
      /\ cross[2] \in 0..Count
      /\ \A n \in Peaks : n <= i + 1
  BY <1>1, PeakStep
<1>3. peak' = IF Peaks = {} THEN None ELSE highs[Max(Peaks)]
  <2>1. CASE i >= half
    <3>1. i \in half..(Count - cross[2] - half - 1)
      BY <1>2, <2>1
    <3>2. i + 1 \in Peaks /\ peak' = highs[i + 1]
      BY <1>1, <1>2, <2>1, <3>1, PeakTest
    <3>3. Peaks # {} /\ Max(Peaks) = i + 1
      BY <1>2, <3>2, LastIs
    <3> QED
      BY <3>2, <3>3
  <2>2. CASE ~(i >= half)
    <3>1. \A n \in Peaks : n >= half + 1 /\ n <= i + 1 /\ n \in Int
      BY <1>2 DEF Peaks
    <3>2. Peaks = {}
      BY <1>2, <2>2, <3>1
    <3> QED
      BY <1>1, <1>2, <2>2, <3>2
  <2> QED
    BY <2>1, <2>2
<1>4. PeakIsNearest'
  <2>1. peak' = IF Peaks' = {} THEN None ELSE highs'[Max(Peaks')]
    BY <1>1, <1>2, <1>3
  <2> QED
    BY <2>1 DEF PeakIsNearest, Peaks
<1>5. HighestIsAfterTheCross'
  <2>1. BeforeCross' = BeforeCross /\ AfterCross' = AfterCross
    BY <1>1, <1>2 DEF BeforeCross, AfterCross
  <2>2. BeforeCross \o AfterCross = highs
    BY <1>2, BeforeCrossIs
  <2>3. /\ HighestAfterCross = Undefined <=> cross[2] = 0
        /\ HighestAfterCross # Undefined =>
             \E n \in (Count - cross[2] + 1)..Count :
                 /\ HighestAfterCross = highs[n]
                 /\ \A m \in (Count - cross[2] + 1)..Count : highs[m] <= highs[n]
    BY <1>2, HighestIs
  <2> QED
    BY <1>1, <1>2, <2>1, <2>2, <2>3 DEF HighestIsAfterTheCross
<1>6. PeakSearch'
  BY <1>1 DEF PeakSearch
<1> QED
  BY <1>2, <1>4, <1>5, <1>6 DEF SearchesInvariant

LEMMA NextSearches ==
    ASSUME SearchesInvariant, [Next]_vars
    PROVE  SearchesInvariant'
<1>1. CASE UNCHANGED vars
  BY <1>1 DEF vars, SearchesInvariant, SeriesOK, CrossSearch, PeakSearch, CrossIsNearest,
     PeakIsNearest, HighestIsAfterTheCross, SeriesAreAligned, SignChanges, Peaks, Count,
     BeforeCross, AfterCross
<1> QED
  BY <1>1, NoCrossHereKeeps, NoCrossKeeps, FoundCrossKeeps, NoPeakHereKeeps, EndOfPeaksKeeps
     DEF Next

----------------------------------------------------------------------------
(* The theorems                                                            *)

\* The cross over that CheckMACrossOver reports is the last change of the sign
\* between neighbouring candles that both have both averages, with the direction
\* of its newer candle; where there is none, it reports none.  The series it
\* compares are aligned with the candles, however short they were.
THEOREM NearestCrossIsFound == Spec => []CrossIsNearest
<1>1. SearchesInvariant => CrossIsNearest
  BY DEF SearchesInvariant
<1> QED
  BY <1>1, InitSearches, NextSearches, PTL DEF Spec

\* The peak that nearest_peak_high_before_ma_cross finds is the newest candle up
\* to the cross over that no neighbour is higher than, and none if there is none.
THEOREM NearestPeakIsFound == Spec => []PeakIsNearest
<1>1. SearchesInvariant => PeakIsNearest
  BY DEF SearchesInvariant
<1> QED
  BY <1>1, InitSearches, NextSearches, PTL DEF Spec

\* highest_after_ma_cross is the highest price of the candles after the cross
\* over, which with those before it are all candles; it is read beyond the list
\* in one case only, a cross over at the newest candle.
THEOREM HighestIsFound == Spec => []HighestIsAfterTheCross
<1>1. SearchesInvariant => HighestIsAfterTheCross
  BY DEF SearchesInvariant
<1> QED
  BY <1>1, InitSearches, NextSearches, PTL DEF Spec
=============================================================================
