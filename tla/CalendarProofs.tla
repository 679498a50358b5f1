---------------------------- MODULE CalendarProofs ----------------------------
(***************************************************************************)
(* The invariant of Calendar and what follows from it, for every set of    *)
(* holidays, every period and every DataFreq.                              *)
(***************************************************************************)
EXTENDS Calendar, TLAPS

----------------------------------------------------------------------------
(* Arithmetic                                                              *)

\* Multiplying by a natural number keeps the order.
LEMMA Scale ==
    ASSUME NEW a \in Int, NEW b \in Int, NEW h \in Nat, a <= b
    PROVE  a * h <= b * h
OBVIOUS

\* Consecutive positions are in the same day, or the last of a day and the
\* first of the next.
LEMMA DivStep ==
    ASSUME NEW n \in Nat \ {0}, NEW p \in Nat
    PROVE  \/ (p + 1) \div n = p \div n /\ (p + 1) % n = (p % n) + 1
           \/ /\ (p + 1) \div n = (p \div n) + 1
              /\ (p + 1) % n = 0 /\ p % n = n - 1
OBVIOUS

LEMMA DivBounds ==
    ASSUME NEW n \in Nat \ {0}, NEW p \in Nat, NEW l \in Nat, p < l * n
    PROVE  p % n \in 0..(n - 1) /\ p \div n \in 0..(l - 1)
OBVIOUS

LEMMA DivOfProduct ==
    ASSUME NEW n \in Nat \ {0}, NEW q \in Nat, NEW r \in 0..(n - 1)
    PROVE  ((q * n) + r) \div n = q /\ ((q * n) + r) % n = r
OBVIOUS

\* The ticks of a day fill it.
LEMMA Periods == /\ DayLength \in Nat \ {0} /\ PeriodCount \in Nat \ {0}
                 /\ PeriodCount * Freq = DayLength
<1>1. ASSUME NEW f \in Nat \ {0}, NEW D \in Nat \ {0}, D % f = 0
      PROVE  D \div f \in Nat \ {0} /\ (D \div f) * f = D
  <2>1. D = (f * (D \div f)) + (D % f) /\ D \div f \in Nat
    OBVIOUS
  <2>2. D = f * (D \div f)
    BY <1>1, <2>1
  <2> QED
    BY <2>1, <2>2
<1>2. DayLength \in Nat \ {0}
  BY FreqAssumption DEF DayLength
<1> QED
  BY <1>1, <1>2, FreqAssumption DEF PeriodCount

----------------------------------------------------------------------------
(* Days                                                                    *)

LEMMA DayTypes ==
    ASSUME NEW d \in Int
    PROVE  TradeEnd(d) \in Int /\ TradeStart(d) \in Int /\ TradeStart(d) = TradeEnd(d) - DayLength
BY FreqAssumption, Periods DEF TradeEnd, TradeStart

\* The clocks of New York do not change before the close of a trading day.
LEMMA SameTime ==
    ASSUME NEW d \in Int, DayOfWeek(d) # Sunday
    PROVE  d \in SummerDays <=> d - 1 \in SummerDays
<1>1. CASE d \in SummerDays
  BY <1>1, DayAssumption
<1>2. CASE d - 1 \in SummerDays
  <2>1. \A e \in SummerDays : e + 1 \in SummerDays \/ DayOfWeek(e + 1) = Sunday
    BY DayAssumption
  <2>2. PICK e \in SummerDays : e = d - 1
    BY <1>2
  <2>3. e + 1 = d
    BY <2>2
  <2> QED
    BY <1>2, <2>1, <2>3
<1> QED
  BY <1>1, <1>2

\* A trading day begins when the day before it ends.
LEMMA DayBefore ==
    ASSUME NEW d \in Int, IsTradingDay(d)
    PROVE  TradeStart(d) = TradeEnd(d - 1)
<1>1. d \in SummerDays <=> d - 1 \in SummerDays
  BY SameTime DEF IsTradingDay
<1>2. ASSUME NEW o \in Int, NEW h \in Int
      PROVE  (24 * d + 17 + o) * h - 24 * h = (24 * (d - 1) + 17 + o) * h
  OBVIOUS
<1>3. Hour \in Int
  BY FreqAssumption
<1>4. CASE d \in SummerDays
  <2>1. (24 * d + 17 + 4) * Hour - 24 * Hour = (24 * (d - 1) + 17 + 4) * Hour
    BY <1>2, <1>3
  <2> QED
    BY <1>1, <1>4, <2>1 DEF TradeStart, TradeEnd, DayLength
<1>5. CASE d \notin SummerDays
  <2>1. (24 * d + 17 + 5) * Hour - 24 * Hour = (24 * (d - 1) + 17 + 5) * Hour
    BY <1>2, <1>3
  <2> QED
    BY <1>1, <1>5, <2>1 DEF TradeStart, TradeEnd, DayLength
<1> QED
  BY <1>4, <1>5

\* Later days end later.
LEMMA EndsIncrease ==
    ASSUME NEW d \in Int, NEW e \in Int, d <= e
    PROVE  TradeEnd(d) <= TradeEnd(e)
<1> DEFINE O(x) == IF x \in SummerDays THEN 4 ELSE 5
<1>1. O(d) \in 4..5 /\ O(e) \in 4..5 /\ (d = e => O(d) = O(e))
  OBVIOUS
<1>2. TradeEnd(d) = (24 * d + 17 + O(d)) * Hour /\ TradeEnd(e) = (24 * e + 17 + O(e)) * Hour
  BY DEF TradeEnd
<1> HIDE DEF O
<1>3. 24 * d + 17 + O(d) <= 24 * e + 17 + O(e)
  BY <1>1
<1>4. 24 * d + 17 + O(d) \in Int /\ 24 * e + 17 + O(e) \in Int /\ Hour \in Nat
  BY <1>1, FreqAssumption
<1> QED
  BY <1>2, <1>3, <1>4, Scale

\* A trading day begins when no day before it is still traded.
LEMMA DaysApart ==
    ASSUME NEW d \in Int, NEW e \in Int, d < e, IsTradingDay(e)
    PROVE  TradeStart(d) + DayLength <= TradeStart(e)
<1>1. TradeStart(d) + DayLength = TradeEnd(d)
  BY DayTypes, Periods
<1>2. TradeStart(e) = TradeEnd(e - 1)
  BY DayBefore
<1>3. TradeEnd(d) <= TradeEnd(e - 1)
  BY EndsIncrease
<1> QED
  BY <1>1, <1>2, <1>3

----------------------------------------------------------------------------
(* The invariant                                                           *)

LEMMA CalendarInit == Init => CalendarInvariant
<1> SUFFICES ASSUME Init PROVE CalendarInvariant
  OBVIOUS
<1>1. begin \in Int /\ end \in Int
  BY DayAssumption, FreqAssumption DEF Init, NewYorkDate
<1>2. ClockEnd = 0
  BY Periods DEF Init, ClockEnd
<1> QED
  BY <1>1, <1>2 DEF Init, CalendarInvariant, TypeOK, StartsOfTradingDays, LastStart, Spaced,
                    Collected, TicksOfClock

\* A day that is not traded is passed.
LEMMA SeekStep == CalendarInvariant /\ Seek => CalendarInvariant'
<1> SUFFICES ASSUME CalendarInvariant, Seek PROVE CalendarInvariant'
  OBVIOUS
<1> USE DEF Seek
<1>1. TypeOK'
  BY DEF CalendarInvariant, TypeOK, ClockEnd
<1>2. (begin <= cur)'
  BY DEF CalendarInvariant, TypeOK
<1>3. StartsOfTradingDays'
  BY DEF CalendarInvariant, TypeOK, StartsOfTradingDays
<1>4. LastStart'
  BY DEF CalendarInvariant, TypeOK, LastStart
<1>5. Collected'
  BY DEF CalendarInvariant, TypeOK, Collected
<1> QED
  BY <1>1, <1>2, <1>3, <1>4, <1>5
     DEF CalendarInvariant, Spaced, TicksOfClock, TickAt, ClockEnd

LEMMA FoundStep == CalendarInvariant /\ Found => CalendarInvariant'
BY DEF CalendarInvariant, Found, TypeOK, ClockEnd, StartsOfTradingDays, LastStart, Spaced,
       Collected, TicksOfClock, TickAt

\* The start of the next trading day is appended; it is a day's length or more
\* after the last one.
LEMMA CollectStep == CalendarInvariant /\ Collect => CalendarInvariant'
<1> SUFFICES ASSUME CalendarInvariant, Collect PROVE CalendarInvariant'
  OBVIOUS
<1> DEFINE s == TradeStart(cur)
           n == Len(starts)
<1>1. /\ begin \in Int /\ end \in Int /\ cur \in Int /\ begin <= cur
      /\ starts \in Seq(Int) /\ stage = "collect" /\ IsTradingDay(cur)
      /\ ticks = <<>> /\ pos = 0 /\ n \in Nat /\ s \in Int
  BY DayTypes DEF CalendarInvariant, TypeOK, TicksOfClock, Collect
<1>2. /\ starts' = Append(starts, s) /\ starts' \in Seq(Int) /\ Len(starts') = n + 1
      /\ \A i \in 1..n : starts'[i] = starts[i]
      /\ starts'[n + 1] = s
  BY <1>1 DEF Collect
<1>3. /\ begin' = begin /\ end' = end /\ pos' = pos /\ ticks' = ticks
      /\ cur' \in {cur, cur + 1}
      /\ \/ stage' = "tick" /\ cur > end /\ cur' = cur
         \/ stage' = "seek" /\ cur <= end /\ cur' = cur + 1
  BY <1>1 DEF Collect, PastEnd
<1> HIDE DEF s, n
<1>4. TypeOK'
  <2>1. (n + 1) * PeriodCount \in Nat
    BY <1>1, Periods
  <2> QED
    BY <1>1, <1>2, <1>3, <2>1 DEF TypeOK, ClockEnd
<1>5. (begin <= cur)' /\ (stage # "seek" => IsTradingDay(cur))'
  BY <1>1, <1>3
<1>6. StartsOfTradingDays'
  <2>1. \A i \in 1..n : \E d \in begin..cur : IsTradingDay(d) /\ starts[i] = TradeStart(d)
    BY DEF CalendarInvariant, StartsOfTradingDays, n
  <2>2. \A i \in 1..(n + 1) : \E d \in begin..cur : IsTradingDay(d) /\ starts'[i] = TradeStart(d)
    BY <1>1, <1>2, <2>1 DEF s
  <2>3. begin..cur \subseteq begin..cur'
    BY <1>1, <1>3
  <2> QED
    BY <1>2, <1>3, <2>2, <2>3 DEF StartsOfTradingDays
<1>7. LastStart'
  <2>1. CASE stage' = "tick"
    BY <2>1 DEF LastStart
  <2>2. CASE stage' = "seek"
    <3>1. cur \in begin'..(cur' - 1)
      BY <1>1, <1>3, <2>2
    <3>2. IsTradingDay(cur) /\ starts'[Len(starts')] = TradeStart(cur)
      BY <1>1, <1>2 DEF s
    <3> QED
      BY <3>1, <3>2 DEF LastStart
  <2> QED
    BY <1>3, <2>1, <2>2
<1>8. Spaced'
  <2>1. \A i \in 1..(n - 1) : starts[i] + DayLength <= starts[i + 1]
    BY DEF CalendarInvariant, Spaced, n
  <2>2. n # 0 => starts[n] + DayLength <= s
    <3> SUFFICES ASSUME n # 0 PROVE starts[n] + DayLength <= s
      OBVIOUS
    <3>1. PICK d \in begin..(cur - 1) : IsTradingDay(d) /\ starts[n] = TradeStart(d)
      BY <1>1 DEF CalendarInvariant, LastStart, n
    <3> QED
      BY <1>1, <3>1, DaysApart DEF s
  <2> QED
    BY <1>1, <1>2, <2>1, <2>2 DEF Spaced
<1>9. Collected'
  <2>1. \A d \in begin..(cur - 1) :
          IsTradingDay(d) => d <= end /\ \E i \in 1..n : starts[i] = TradeStart(d)
    BY DEF CalendarInvariant, Collected, n
  <2>2. \A d \in begin..(cur - 1) :
          IsTradingDay(d) => d <= end /\ \E i \in 1..(n + 1) : starts'[i] = TradeStart(d)
    BY <1>1, <1>2, <2>1
  <2>3. \E i \in 1..(n + 1) : starts'[i] = TradeStart(cur)
    BY <1>1, <1>2 DEF s
  <2>4. CASE stage' = "tick"
    BY <1>1, <1>2, <1>3, <2>2, <2>3, <2>4 DEF Collected
  <2>5. CASE stage' = "seek"
    <3>1. \A d \in begin'..(cur' - 1) : d \in begin..(cur - 1) \/ d = cur
      BY <1>1, <1>3, <2>5
    <3> QED
      BY <1>1, <1>2, <1>3, <2>2, <2>3, <2>5, <3>1 DEF Collected
  <2> QED
    BY <1>3, <2>4, <2>5
<1>10. TicksOfClock'
  BY <1>1, <1>3 DEF TicksOfClock
<1> QED
  BY <1>4, <1>5, <1>6, <1>7, <1>8, <1>9, <1>10 DEF CalendarInvariant

LEMMA TickStep == CalendarInvariant /\ Tick => CalendarInvariant'
<1> SUFFICES ASSUME CalendarInvariant, Tick PROVE CalendarInvariant'
  OBVIOUS
<1>1. /\ stage = "tick" /\ pos \in Nat /\ pos = Len(ticks) /\ pos < ClockEnd
      /\ pos \in 0..ClockEnd /\ ticks \in Seq(Int) /\ starts \in Seq(Int) /\ ClockEnd \in Nat
  BY Periods DEF CalendarInvariant, TypeOK, Tick, ClockEnd
<1>2. TickAt(pos) \in Int
  <2>1. /\ pos % PeriodCount \in 0..(PeriodCount - 1)
        /\ pos \div PeriodCount \in 0..(Len(starts) - 1)
    <3>1. /\ pos \in Nat /\ pos < Len(starts) * PeriodCount /\ Len(starts) \in Nat
          /\ PeriodCount \in Nat \ {0}
      BY <1>1, Periods DEF ClockEnd
    <3> QED
      BY <3>1, DivBounds
  <2>2. starts[1 + pos \div PeriodCount] \in Int
    BY <1>1, <2>1
  <2> QED
    BY <2>1, <2>2, Periods, FreqAssumption DEF TickAt
<1>3. /\ ticks' \in Seq(Int) /\ Len(ticks') = pos + 1 /\ ticks'[pos + 1] = TickAt(pos)
      /\ \A i \in 1..pos : ticks'[i] = ticks[i]
  BY <1>1, <1>2 DEF Tick
<1>4. /\ starts' = starts /\ begin' = begin /\ end' = end /\ cur' = cur /\ stage' = stage
      /\ pos' = pos + 1 /\ ClockEnd' = ClockEnd
  BY DEF Tick, ClockEnd
<1>5. TypeOK'
  BY <1>1, <1>3, <1>4 DEF CalendarInvariant, TypeOK
<1>6. TicksOfClock'
  <2>1. \A i \in 1..pos : ticks[i] = TickAt(i - 1)
    BY <1>1 DEF CalendarInvariant, TicksOfClock
  <2>2. \A i \in 1..(pos + 1) : ticks'[i] = TickAt(i - 1)
    <3>1. ASSUME NEW i \in 1..(pos + 1), i # pos + 1
          PROVE  ticks'[i] = TickAt(i - 1)
      <4>1. i \in 1..pos
        BY <1>1, <3>1
      <4> QED
        BY <1>3, <2>1, <4>1
    <3>2. ASSUME NEW i \in 1..(pos + 1), i = pos + 1
          PROVE  ticks'[i] = TickAt(i - 1)
      <4>1. i - 1 = pos
        BY <1>1, <3>2
      <4> QED
        BY <1>3, <3>2, <4>1
    <3> QED
      BY <3>1, <3>2
  <2>3. \A i \in 1..(pos + 1) : TickAt(i - 1)' = TickAt(i - 1)
    BY <1>4 DEF TickAt, PeriodCount, DayLength
  <2> QED
    BY <1>1, <1>3, <1>4, <2>2, <2>3 DEF TicksOfClock
<1> QED
  BY <1>1, <1>4, <1>5, <1>6
     DEF CalendarInvariant, StartsOfTradingDays, LastStart, Spaced, Collected

LEMMA StopStep == CalendarInvariant /\ Stop => CalendarInvariant'
<1> SUFFICES ASSUME CalendarInvariant, Stop PROVE CalendarInvariant'
  OBVIOUS
<1> USE DEF Stop
<1>1. TypeOK'
  BY DEF CalendarInvariant, TypeOK, ClockEnd
<1>2. LastStart' /\ Collected'
  BY DEF CalendarInvariant, LastStart, Collected
<1>3. TicksOfClock'
  BY DEF CalendarInvariant, TicksOfClock, TickAt, ClockEnd, PeriodCount, DayLength
<1> QED
  BY <1>1, <1>2, <1>3 DEF CalendarInvariant, StartsOfTradingDays, Spaced

LEMMA CalendarCorrect == Spec => []CalendarInvariant
<1>1. CalendarInvariant /\ [Next]_vars => CalendarInvariant'
  <2> SUFFICES ASSUME CalendarInvariant, [Next]_vars PROVE CalendarInvariant'
    OBVIOUS
  <2>1. CASE UNCHANGED vars
    BY <2>1 DEF vars, CalendarInvariant, TypeOK, ClockEnd, StartsOfTradingDays, LastStart, Spaced,
                Collected, TicksOfClock, TickAt
  <2> QED
    BY <2>1, SeekStep, FoundStep, CollectStep, TickStep, StopStep DEF Next
<1> QED
  BY <1>1, CalendarInit, PTL DEF Spec

----------------------------------------------------------------------------
(* What follows                                                            *)

\* The variables of the clock keep their types and an iterator that is not at
\* its end has a tick to give.
THEOREM ClockTypeCorrect == Spec => []TypeOK
<1>1. CalendarInvariant => TypeOK
  BY DEF CalendarInvariant
<1> QED
  BY <1>1, CalendarCorrect, PTL

\* A tick lies in the trading day it is computed from.
LEMMA TickInDay ==
    ASSUME CalendarInvariant, NEW i \in 1..Len(ticks)
    PROVE  \E q \in 1..Len(starts), r \in 0..(PeriodCount - 1) :
              /\ q = ((i - 1) \div PeriodCount) + 1 /\ r = (i - 1) % PeriodCount
              /\ ticks[i] = starts[q] + r * Freq /\ starts[q] \in Int
              /\ r * Freq >= 0 /\ r * Freq < DayLength
<1> DEFINE p == i - 1
<1>1. /\ p \in Nat /\ p < Len(starts) * PeriodCount /\ Len(starts) \in Nat
      /\ PeriodCount \in Nat \ {0} /\ ticks[i] = TickAt(p) /\ starts \in Seq(Int)
  <2>1. /\ pos \in 0..ClockEnd /\ pos = Len(ticks) /\ starts \in Seq(Int) /\ ticks \in Seq(Int)
        /\ ticks[i] = TickAt(p)
    BY DEF CalendarInvariant, TypeOK, TicksOfClock
  <2> QED
    BY <2>1, Periods DEF ClockEnd
<1> HIDE DEF p
<1>2. p % PeriodCount \in 0..(PeriodCount - 1) /\ p \div PeriodCount \in 0..(Len(starts) - 1)
  BY <1>1, DivBounds
<1> DEFINE r == p % PeriodCount
           q == (p \div PeriodCount) + 1
<1>3. ticks[i] = starts[q] + r * Freq
  <2>1. 1 + p \div PeriodCount = q
    BY <1>2
  <2> QED
    BY <1>1, <2>1 DEF TickAt
<1>4. r * Freq >= 0 /\ r * Freq < DayLength
  <2>1. r \in Int /\ 0 <= r /\ r + 1 <= PeriodCount /\ Freq \in Nat \ {0} /\ PeriodCount \in Int
    BY <1>1, <1>2, FreqAssumption
  <2> HIDE DEF r
  <2>2. 0 * Freq <= r * Freq /\ (r + 1) * Freq <= PeriodCount * Freq
    BY <2>1, Scale
  <2>3. (r + 1) * Freq = r * Freq + Freq
    BY <2>1
  <2> QED
    BY <2>1, <2>2, <2>3, Periods
<1>5. q \in 1..Len(starts) /\ r \in 0..(PeriodCount - 1) /\ starts[q] \in Int
  BY <1>1, <1>2
<1> QED
  BY <1>3, <1>4, <1>5 DEF p

\* The ticks of the clock increase strictly.
THEOREM TimeMovesForward == Spec => []TicksIncrease
<1>1. CalendarInvariant => TicksIncrease
  <2> SUFFICES ASSUME CalendarInvariant, NEW i \in 2..Len(ticks)
               PROVE  ticks[i - 1] < ticks[i]
    BY DEF TicksIncrease
  <2>1. i \in 1..Len(ticks) /\ i - 1 \in 1..Len(ticks) /\ i - 2 \in Nat
    BY DEF CalendarInvariant, TypeOK
  <2>2. PICK q \in 1..Len(starts), r \in 0..(PeriodCount - 1) :
           /\ q = ((i - 1) \div PeriodCount) + 1 /\ r = (i - 1) % PeriodCount
           /\ ticks[i] = starts[q] + r * Freq /\ starts[q] \in Int
    BY <2>1, TickInDay
  <2>3. PICK q0 \in 1..Len(starts), r0 \in 0..(PeriodCount - 1) :
           /\ q0 = ((i - 1 - 1) \div PeriodCount) + 1 /\ r0 = (i - 1 - 1) % PeriodCount
           /\ ticks[i - 1] = starts[q0] + r0 * Freq /\ starts[q0] \in Int
           /\ r0 * Freq >= 0 /\ r0 * Freq < DayLength
    BY <2>1, TickInDay
  <2>4. \/ q = q0 /\ r = r0 + 1
        \/ q = q0 + 1 /\ r = 0 /\ r0 = PeriodCount - 1
    <3> DEFINE p == i - 2
    <3>1. p \in Nat /\ i - 1 = p + 1 /\ i - 1 - 1 = p
      BY <2>1
    <3> HIDE DEF p
    <3>2. \/ (p + 1) \div PeriodCount = p \div PeriodCount
             /\ (p + 1) % PeriodCount = (p % PeriodCount) + 1
          \/ /\ (p + 1) \div PeriodCount = (p \div PeriodCount) + 1
             /\ (p + 1) % PeriodCount = 0 /\ p % PeriodCount = PeriodCount - 1
      BY <3>1, DivStep, Periods
    <3>3. /\ q = ((p + 1) \div PeriodCount) + 1 /\ r = (p + 1) % PeriodCount
          /\ q0 = (p \div PeriodCount) + 1 /\ r0 = p % PeriodCount
      BY <2>2, <2>3, <3>1
    <3> QED
      BY <3>2, <3>3
  <2>5. CASE q = q0 /\ r = r0 + 1
    <3>1. r0 * Freq < r * Freq /\ r0 * Freq \in Int /\ r * Freq \in Int
      <4>1. (r0 + 1) * Freq = r0 * Freq + Freq /\ r0 * Freq \in Int /\ Freq \in Nat \ {0}
        BY FreqAssumption, Periods
      <4> QED
        BY <2>5, <4>1
    <3>2. ticks[i - 1] = starts[q] + r0 * Freq /\ ticks[i] = starts[q] + r * Freq
      BY <2>2, <2>3, <2>5
    <3> QED
      BY <2>2, <3>1, <3>2
  <2>6. CASE q = q0 + 1 /\ r = 0 /\ r0 = PeriodCount - 1
    <3>1. starts[q0] + DayLength <= starts[q0 + 1]
      BY <2>6 DEF CalendarInvariant, TypeOK, Spaced
    <3> QED
      BY <2>2, <2>3, <2>6, <3>1, Periods, FreqAssumption
  <2> QED
    BY <2>4, <2>5, <2>6
<1> QED
  BY <1>1, CalendarCorrect, PTL

\* No tick falls in the hours the market is closed.
THEOREM MarketIsOpenAtTicks == Spec => []MarketIsOpen
<1>1. CalendarInvariant => MarketIsOpen
  <2> SUFFICES ASSUME CalendarInvariant, NEW i \in 1..Len(ticks)
               PROVE  \E d \in begin..cur :
                         /\ TradeEnd(d - 1) <= ticks[i] /\ ticks[i] < TradeEnd(d)
                         /\ DayOfWeek(d) \notin {Saturday, Sunday}
                         /\ Holidays \cap (IF DayOfWeek(d) = Monday THEN d-2..d ELSE {d}) = {}
    BY DEF MarketIsOpen
  <2>1. PICK q \in 1..Len(starts), r \in 0..(PeriodCount - 1) :
           /\ ticks[i] = starts[q] + r * Freq /\ starts[q] \in Int
           /\ r * Freq >= 0 /\ r * Freq < DayLength
    BY TickInDay
  <2>2. PICK d \in begin..cur : IsTradingDay(d) /\ starts[q] = TradeStart(d)
    BY DEF CalendarInvariant, StartsOfTradingDays
  <2>3. d \in Int
    BY DEF CalendarInvariant, TypeOK
  <2>4. TradeStart(d) = TradeEnd(d - 1) /\ TradeStart(d) = TradeEnd(d) - DayLength
        /\ TradeEnd(d) \in Int
    BY <2>2, <2>3, DayBefore, DayTypes
  <2>5. r * Freq \in Int /\ DayLength \in Int
    BY Periods, FreqAssumption
  <2>6. TradeEnd(d - 1) <= ticks[i] /\ ticks[i] < TradeEnd(d)
    BY <2>1, <2>2, <2>4, <2>5
  <2>7. /\ DayOfWeek(d) \notin {Saturday, Sunday}
        /\ Holidays \cap (IF DayOfWeek(d) = Monday THEN d-2..d ELSE {d}) = {}
    <3>1. \A e \in d-2..d : e \in {d, d - 1, d - 2}
      BY <2>3
    <3> QED
      BY <2>2, <3>1 DEF IsTradingDay
  <2> QED
    BY <2>6, <2>7
<1> QED
  BY <1>1, CalendarCorrect, PTL

\* The clock gives every tick of every trading day of the period, and of one
\* trading day after it.
THEOREM EveryTradingDayIsVisited == Spec => []VisitsEveryTradingDay
<1>1. CalendarInvariant => VisitsEveryTradingDay
  <2> DEFINE Visited == {d \in begin..cur : IsTradingDay(d)}
  <2> SUFFICES ASSUME CalendarInvariant, stage = "done"
               PROVE  /\ {d \in Visited : d > end} = {cur}
                      /\ Len(ticks) = PeriodCount * Len(starts)
                      /\ \A d \in Visited : \A k \in 0..(PeriodCount - 1) :
                            \E i \in 1..Len(ticks) : ticks[i] = TradeStart(d) + k * Freq
    BY DEF VisitsEveryTradingDay
  <2>1. /\ begin \in Int /\ cur \in Int /\ end \in Int /\ begin <= cur /\ cur > end
        /\ IsTradingDay(cur) /\ starts \in Seq(Int) /\ ticks \in Seq(Int)
        /\ Len(ticks) = Len(starts) * PeriodCount
        /\ \A i \in 1..Len(ticks) : ticks[i] = TickAt(i - 1)
    BY DEF CalendarInvariant, TypeOK, Collected, TicksOfClock, ClockEnd
  <2>2. \A d \in Visited : (d = cur \/ d <= end)
                          /\ \E i \in 1..Len(starts) : starts[i] = TradeStart(d)
    <3>1. \A d \in begin..cur : d \in begin..(cur - 1) \/ d = cur
      BY <2>1
    <3> QED
      BY <2>1, <3>1 DEF CalendarInvariant, Collected
  <2>3. {d \in Visited : d > end} = {cur}
    BY <2>1, <2>2
  <2>4. ASSUME NEW d \in Visited, NEW k \in 0..(PeriodCount - 1)
        PROVE  \E i \in 1..Len(ticks) : ticks[i] = TradeStart(d) + k * Freq
    <3>1. PICK j \in 1..Len(starts) : starts[j] = TradeStart(d)
      BY <2>2
    <3> DEFINE m == j - 1
               p == (m * PeriodCount) + k
    <3>2. m \in Nat /\ j \in Nat /\ 1 + m = j /\ m + 1 <= Len(starts) /\ Len(starts) \in Nat
      BY <2>1
    <3> HIDE DEF m
    <3>3. p \div PeriodCount = m /\ p % PeriodCount = k
      BY <3>2, Periods, DivOfProduct
    <3>4. p \in Nat /\ p < Len(ticks)
      <4>1. (m + 1) * PeriodCount <= Len(starts) * PeriodCount
        BY <3>2, Periods, Scale
      <4>2. (m + 1) * PeriodCount = (m * PeriodCount) + PeriodCount /\ m * PeriodCount \in Nat
        BY <3>2, Periods
      <4>3. Len(starts) * PeriodCount \in Nat
        BY <3>2, Periods
      <4>4. /\ Len(ticks) = Len(starts) * PeriodCount
            /\ k \in Int /\ 0 <= k /\ k < PeriodCount /\ PeriodCount \in Int
        BY <2>1, Periods
      <4>5. p < (m + 1) * PeriodCount /\ p \in Nat
        BY <4>2, <4>4
      <4> HIDE DEF p
      <4>6. (m + 1) * PeriodCount \in Int
        BY <4>2, <4>4
      <4> QED
        BY <4>1, <4>3, <4>4, <4>5, <4>6
    <3> HIDE DEF p
    <3>5. TickAt(p) = TradeStart(d) + k * Freq
      <4>1. 1 + p \div PeriodCount = j
        BY <3>2, <3>3
      <4> QED
        BY <3>1, <3>3, <4>1 DEF TickAt
    <3>6. p + 1 \in 1..Len(ticks) /\ (p + 1) - 1 = p
      BY <2>1, <3>4
    <3> QED
      BY <2>1, <3>5, <3>6
  <2>5. Len(ticks) = PeriodCount * Len(starts)
    BY <2>1, Periods
  <2> QED
    BY <2>3, <2>4, <2>5
<1> QED
  BY <1>1, CalendarCorrect, PTL
=============================================================================
