------------------------------- MODULE Calendar -------------------------------
(***************************************************************************)
(* The clock of the backtest (src/src/calendar.cpp, calendar.hpp): the day *)
(* iterator finds the trading days of a period, trade_start_times_ptr      *)
(* collects their starts, and Clock::Iterator divides each of them into    *)
(* ticks.                                                                  *)
(*                                                                         *)
(* Days are numbered, day 0 being a Monday; a partial_date of the holidays *)
(* stands for the days that have it.  Times are UTC, Hour units to the     *)
(* hour.  A day is traded from 24 hours before 17:00 in New York to 17:00. *)
(***************************************************************************)
EXTENDS Integers, Sequences

CONSTANTS
    Holidays,     \* the days with a partial_date in all_holidays_
    SummerDays,   \* the days at whose 17:00 New York has daylight saving time
    Hour,         \* time units in an hour (3600 in the code)
    Freq,         \* freq_, the time units between two ticks
    IsEast,       \* midnight in the region is the day before in New York
    Begins, Ends  \* the days a period may begin and end with

DayLength == 24 * Hour
Monday == 0
Saturday == 5
Sunday == 6
DayOfWeek(d) == d % 7

\* Every DataFreq divides the day, and the clocks change on Sundays.
ASSUME FreqAssumption ==
    Hour \in Nat \ {0} /\ Freq \in Nat \ {0} /\ DayLength % Freq = 0 /\ IsEast \in BOOLEAN
ASSUME DayAssumption ==
    /\ Begins \subseteq Int /\ Ends \subseteq Int /\ Holidays \subseteq Int
    /\ SummerDays \subseteq Int
    /\ \A d \in SummerDays : d + 1 \in SummerDays \/ DayOfWeek(d + 1) = Sunday
    /\ \A d \in SummerDays : d - 1 \in SummerDays \/ DayOfWeek(d) = Sunday

VARIABLES
    stage,      \* "seek", "collect", "tick", "done"
    begin,      \* observation only: begin_date before the first trading day
    end,        \* end_date_
    cur,        \* *cur_itr_
    starts,     \* trade_start_times
    pos,        \* pos_ of the clock iterator
    ticks       \* the ticks the clock has given

vars == <<stage, begin, end, cur, starts, pos, ticks>>

----------------------------------------------------------------------------
(* Dates                                                                   *)

\* The date in New York of a midnight in the region of the period.
NewYorkDate(d) == IF IsEast THEN d - 1 ELSE d

IsTradingDayMutant(d) == DayOfWeek(d) \notin {Saturday, Sunday} /\ d \notin Holidays
\* Holidays that fall on a weekend are observed on Monday.
IsTradingDay(d) ==
    /\ d \notin Holidays
    /\ DayOfWeek(d) \notin {Saturday, Sunday}
    /\ DayOfWeek(d) = Monday => d - 1 \notin Holidays /\ d - 2 \notin Holidays

\* 17:00 in New York, in UTC.
TradeEnd(d) == (24 * d + 17 + (IF d \in SummerDays THEN 4 ELSE 5)) * Hour

TradeStart(d) == TradeEnd(d) - DayLength

PeriodCount == DayLength \div Freq

TickAtMutant(p) == starts[1 + p \div PeriodCount] + (p % Freq) * Freq
\* *it of the clock iterator at position p.
TickAt(p) == starts[1 + p \div PeriodCount] + (p % PeriodCount) * Freq

----------------------------------------------------------------------------
(* The day iterator and the loop that collects                             *)

\* Midnights of the first and the last day of the period, in New York.
Init ==
    /\ \E b \in Begins : begin = NewYorkDate(b)
    /\ \E e \in Ends : end = NewYorkDate(e)
    /\ cur = begin
    /\ stage = "seek" /\ starts = <<>> /\ pos = 0 /\ ticks = <<>>

SeekMutant ==
    /\ stage = "seek" /\ ~IsTradingDay(cur)
    /\ UNCHANGED vars
Seek ==
    /\ stage = "seek" /\ ~IsTradingDay(cur)
    /\ cur' = cur + 1
    /\ UNCHANGED <<stage, begin, end, starts, pos, ticks>>

Found ==
    /\ stage = "seek" /\ IsTradingDay(cur)
    /\ stage' = "collect"
    /\ UNCHANGED <<begin, end, cur, starts, pos, ticks>>

PastEndMutant == cur >= end
PastEnd == cur > end

\* The start is pushed before the iterator looks at the end of the period.
Collect ==
    /\ stage = "collect"
    /\ starts' = Append(starts, TradeStart(cur))
    /\ IF PastEnd
       THEN stage' = "tick" /\ UNCHANGED cur
       ELSE stage' = "seek" /\ cur' = cur + 1
    /\ UNCHANGED <<begin, end, pos, ticks>>

----------------------------------------------------------------------------
(* The clock                                                               *)

ClockEnd == Len(starts) * PeriodCount

TickMutant ==
    /\ stage = "tick" /\ pos # ClockEnd
    /\ ticks' = Append(ticks, TickAt(pos))
    /\ pos' = pos + PeriodCount
    /\ UNCHANGED <<stage, begin, end, cur, starts>>
Tick ==
    /\ stage = "tick" /\ pos # ClockEnd
    /\ ticks' = Append(ticks, TickAt(pos))
    /\ pos' = pos + 1
    /\ UNCHANGED <<stage, begin, end, cur, starts>>

Stop ==
    /\ stage = "tick" /\ pos = ClockEnd
    /\ stage' = "done"
    /\ UNCHANGED <<begin, end, cur, starts, pos, ticks>>

Next == Seek \/ Found \/ Collect \/ Tick \/ Stop

Spec == Init /\ [][Next]_vars /\ WF_vars(Next)

----------------------------------------------------------------------------
(* Properties                                                              *)

\* The variables keep their types, and the clock iterator has given one tick
\* for every position it has passed, none of them past its end.
TypeOK ==
    /\ stage \in {"seek", "collect", "tick", "done"}
    /\ begin \in Int /\ end \in Int /\ cur \in Int
    /\ starts \in Seq(Int) /\ ticks \in Seq(Int)
    /\ pos \in 0..ClockEnd /\ pos = Len(ticks)

\* The clock of the backtest never gives a tick twice nor goes back in time,
\* over weekends, holidays and the change to daylight saving time.
TicksIncrease == \A i \in 2..Len(ticks) : ticks[i - 1] < ticks[i]

\* No tick falls in the hours the market is closed: it lies between the closes
\* of a day and of the day before, and that day is neither at a weekend nor a
\* holiday nor the Monday on which the holiday of a weekend is observed.
MarketIsOpen ==
    \A i \in 1..Len(ticks) : \E d \in begin..cur :
        /\ TradeEnd(d - 1) <= ticks[i] /\ ticks[i] < TradeEnd(d)
        /\ DayOfWeek(d) \notin {Saturday, Sunday}
        /\ Holidays \cap (IF DayOfWeek(d) = Monday THEN d-2..d ELSE {d}) = {}

\* When the clock has run out it has given every tick of every trading day of
\* the period, and of exactly one trading day after it.
VisitsEveryTradingDay ==
    stage = "done" =>
        LET Visited == {d \in begin..cur : IsTradingDay(d)}
        IN  /\ {d \in Visited : d > end} = {cur}
            /\ Len(ticks) = PeriodCount * Len(starts)
            /\ \A d \in Visited : \A k \in 0..(PeriodCount - 1) :
                  \E i \in 1..Len(ticks) : ticks[i] = TradeStart(d) + k * Freq

\* The loops of the day iterator, of the collection and of the clock end.
ClockRunsOut == <>(stage = "done")
----------------------------------------------------------------------------
(* Parts of the inductive invariant of the proofs                          *)

\* What the collected starts are the starts of.
StartsOfTradingDays ==
    \A i \in 1..Len(starts) : \E d \in begin..cur :
        IsTradingDay(d) /\ starts[i] = TradeStart(d)

\* The last day collected is behind the iterator while it moves.
LastStart ==
    starts # <<>> /\ stage \in {"seek", "collect"} =>
        \E d \in begin..(cur - 1) :
            IsTradingDay(d) /\ starts[Len(starts)] = TradeStart(d)

\* No trading day begins before the one collected before it has ended.
Spaced == \A i \in 1..(Len(starts) - 1) : starts[i] + DayLength <= starts[i + 1]

\* Every trading day behind the iterator was collected, and none beyond the
\* end of the period but the one that ends the collection.
Collected ==
    /\ \A d \in begin..(cur - 1) :
          IsTradingDay(d) => d <= end /\ \E i \in 1..Len(starts) : starts[i] = TradeStart(d)
    /\ stage \in {"tick", "done"} =>
          cur > end /\ \E i \in 1..Len(starts) : starts[i] = TradeStart(cur)

TicksOfClock ==
    /\ stage \in {"seek", "collect"} => ticks = <<>>
    /\ \A i \in 1..Len(ticks) : ticks[i] = TickAt(i - 1)
    /\ stage = "done" => pos = ClockEnd

CalendarInvariant ==
    /\ TypeOK
    /\ begin <= cur
    /\ stage # "seek" => IsTradingDay(cur)
    /\ StartsOfTradingDays /\ LastStart /\ Spaced /\ Collected /\ TicksOfClock
=============================================================================
