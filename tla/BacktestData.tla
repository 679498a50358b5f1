----------------------------- MODULE BacktestData -----------------------------
(***************************************************************************)
(* The backtest and its price history: which candles the nested loops of   *)
(* src/apps/main.cpp hand to the strategy.  Every lookup is a call of      *)
(* History; the program waits for its answer.                              *)
(*                                                                         *)
(* A dataset is known by its pair and its time frame.  What is done with   *)
(* the candles of a tick is the subject of Backtest.                       *)
(***************************************************************************)
EXTENDS History, SequencesExt

CONSTANTS
    Pairs,          \* instruments, in the order of the program's list
    Length,         \* [Frames -> the time units of a candle]
    HistDataCount,  \* kHistDataCount
    Clocks          \* the possible sequences of long ticks

WindowFrames == {"long", "intermediate", "short"}
Frames == WindowFrames \cup {"simulate"}

Inner == [long |-> "intermediate", intermediate |-> "short", short |-> "simulate"]
Outer == [intermediate |-> "long", short |-> "intermediate", simulate |-> "short"]

\* A time frame is divided into the next finer one.
ASSUME FrameAssumption ==
    /\ Length \in [Frames -> Nat \ {0}]
    /\ \A frame \in WindowFrames : Length[frame] % Length[Inner[frame]] = 0
    /\ HistDataCount \in Nat

ASSUME DataAssumption ==
    /\ Pairs \in Seq(ToSet(Pairs))
    /\ Clocks \subseteq Seq(Int)
    /\ \A stores \in Histories : \A pair \in ToSet(Pairs), frame \in Frames :
          stores[<<pair, frame>>] \subseteq Int /\ IsFiniteSet(stores[<<pair, frame>>])

\* Two candles of a dataset do not overlap, nor do the ticks of the clock.
ASSUME SpacingAssumption ==
    /\ \A stores \in Histories : \A pair \in ToSet(Pairs), frame \in Frames :
          \A u, v \in stores[<<pair, frame>>] : u < v => u + Length[frame] <= v
    /\ \A clock \in Clocks : \A i \in 2..Len(clock) :
          clock[i - 1] + Length["long"] <= clock[i]

VARIABLES
    clock,      \* the ticks the clock gives
    loop,       \* the loop the program is in, "done" or "crashed"
    at,         \* [Frames -> iterations begun]: *it, i, j and k
    asked,      \* a lookup is under way
    windows,    \* [WindowFrames -> the history of the last tick that had it]
    shown,      \* the tick just simulated and its pairs, or None
    ticks       \* observation only: the ticks simulated

loopVars == <<clock, loop, at, asked, windows, shown, ticks>>
vars == <<historyVars, loopVars>>

----------------------------------------------------------------------------
(* The ticks of the loops                                                  *)

LongTick == clock[at["long"] + 1]
IntermediateTickMutant == LongTick - at["intermediate"] * Length["intermediate"]
IntermediateTick == LongTick + at["intermediate"] * Length["intermediate"]
ShortTickMutant == LongTick + at["short"] * Length["short"]
ShortTick == IntermediateTick + at["short"] * Length["short"]
SimulateTick == ShortTick + at["simulate"] * Length["simulate"]

TickOf(frame) ==
    CASE frame = "long" -> LongTick
      [] frame = "intermediate" -> IntermediateTick
      [] frame = "short" -> ShortTick
      [] frame = "simulate" -> SimulateTick

Iterations(frame) ==
    IF frame = "long" THEN Len(clock) ELSE Length[Outer[frame]] \div Length[frame]

----------------------------------------------------------------------------
(* The lookups                                                             *)

NamesOf(frame) == [i \in DOMAIN Pairs |-> <<Pairs[i], frame>>]

HistoryOf(frame) ==
    [kind |-> "history", datasets |-> NamesOf(frame), begin |-> TickOf(frame),
     end |-> 0, count |-> HistDataCount]
CandlesOf(frame) ==
    [kind |-> "candles", datasets |-> NamesOf(frame), begin |-> TickOf(frame),
     end |-> 0, count |-> 1]

LookUp ==
    /\ loop \in Frames /\ ~asked /\ at[loop] < Iterations(loop)
    /\ Ask(IF loop = "simulate" THEN CandlesOf(loop) ELSE HistoryOf(loop))
    /\ asked' = TRUE /\ shown' = None
    /\ UNCHANGED <<clock, loop, at, windows, ticks>>

Answered == asked /\ outcome # "busy"

Advance(frame) == at' = [at EXCEPT ![frame] = @ + 1]

EnterLoopMutant ==
    /\ Answered /\ loop \in WindowFrames /\ outcome = "returned"
    /\ asked' = FALSE
    /\ windows' = [windows EXCEPT ![loop] = IF @ = None THEN given ELSE @]
    /\ loop' = Inner[loop] /\ at' = [at EXCEPT ![Inner[loop]] = 0]
    /\ UNCHANGED <<historyVars, clock, shown, ticks>>
\* The history is there, the next finer loop begins.
EnterLoop ==
    /\ Answered /\ loop \in WindowFrames /\ outcome = "returned"
    /\ asked' = FALSE
    /\ windows' = [windows EXCEPT ![loop] = given]
    /\ loop' = Inner[loop] /\ at' = [at EXCEPT ![Inner[loop]] = 0]
    /\ UNCHANGED <<historyVars, clock, shown, ticks>>

\* The candles of a tick: the strategy runs for each pair that has one, then
\* the account's orders.
SimulateTickOfPairs ==
    /\ Answered /\ loop = "simulate"
    /\ asked' = FALSE
    /\ shown' = [tick |-> SimulateTick,
                 pairs |-> {pair \in ToSet(Pairs) : given[<<pair, "simulate">>] # None}]
    /\ ticks' = Append(ticks, SimulateTick)
    /\ Advance("simulate")
    /\ UNCHANGED <<historyVars, clock, loop, windows>>

AbandonInnerMutant ==
    /\ Answered /\ outcome = "out_of_range"
    /\ asked' = FALSE
    /\ Advance(loop)
    /\ UNCHANGED <<historyVars, clock, loop, windows, shown, ticks>>
\* out_of_range, caught in the outermost loop.
Abandon ==
    /\ Answered /\ outcome = "out_of_range"
    /\ asked' = FALSE
    /\ loop' = "long" /\ Advance("long")
    /\ UNCHANGED <<historyVars, clock, windows, shown, ticks>>

\* The exception of the HDF5 library is not caught.
Crash ==
    /\ Answered /\ outcome = "crashed"
    /\ loop' = "crashed"
    /\ UNCHANGED <<historyVars, clock, at, asked, windows, shown, ticks>>

LeaveLoop ==
    /\ loop \in Frames \ {"long"} /\ ~asked /\ at[loop] = Iterations(loop)
    /\ loop' = Outer[loop] /\ Advance(Outer[loop])
    /\ shown' = None
    /\ UNCHANGED <<historyVars, clock, asked, windows, ticks>>

Finish ==
    /\ loop = "long" /\ ~asked /\ at["long"] = Iterations("long")
    /\ loop' = "done"
    /\ UNCHANGED <<historyVars, clock, at, asked, windows, shown, ticks>>

----------------------------------------------------------------------------
Init ==
    /\ HInit
    /\ clock \in Clocks
    /\ loop = "long" /\ at = [frame \in Frames |-> 0] /\ asked = FALSE
    /\ windows = [frame \in WindowFrames |-> None]
    /\ shown = None /\ ticks = <<>>

Program ==
    \/ LookUp \/ EnterLoop \/ SimulateTickOfPairs \/ Abandon \/ Crash
    \/ LeaveLoop \/ Finish

HistoryAnswers == Answer /\ UNCHANGED loopVars

Next == Program \/ HistoryAnswers

\* One thread, which runs until it is done.
Spec == Init /\ [][Next]_vars /\ WF_vars(Next)

----------------------------------------------------------------------------
(* Properties                                                              *)

\* The variables keep their types, the program waits for no answer that is not
\* to come, and asks for what the history expects.
TypeOK ==
    /\ loop \in Frames \cup {"done", "crashed"}
    /\ at \in [Frames -> Nat]
    /\ outcome = "busy" => asked
    /\ call # None => call \in Calls
    /\ ticks \in Seq(Int)

\* The strategy decides without knowledge of the future: every candle in its
\* three windows has ended when the tick that is simulated begins.
NoLookAhead ==
    shown # None =>
        \A frame \in WindowFrames, pair \in shown.pairs :
            \A u \in windows[frame][<<pair, frame>>] : u + Length[frame] <= shown.tick

\* The strategy decides with all that is known: its windows hold kHistDataCount
\* candles, and every candle that has ended and is no older than those.
WindowsAreCurrent ==
    shown # None =>
        \A frame \in WindowFrames, pair \in shown.pairs :
            LET window == windows[frame][<<pair, frame>>]
            IN  /\ Cardinality(window) = HistDataCount
                /\ \A u \in stored[<<pair, frame>>] :
                      u + Length[frame] <= shown.tick =>
                          u \in window \/ \A v \in window : u < v

\* Simulated time moves forward only, over gaps in the history as well.
TimeMovesForward == \A i \in 2..Len(ticks) : ticks[i - 1] < ticks[i]

\* Too little history stops the backtest where it begins, never in the middle:
\* a time frame that once had a window has one at every later tick.
CrashesOnlyAtTheStart ==
    loop = "crashed" =>
        \E frame \in WindowFrames : call.datasets = NamesOf(frame) /\ windows[frame] = None

\* A gap in the history of a pair costs the rest of its long tick, for all pairs,
\* and no more: a tick is simulated if and only if the history of its three time
\* frames is there for all pairs, and that of the earlier ticks in its long tick.
GapsCostALongTick ==
    LET Has(frame, t) == \A pair \in ToSet(Pairs) : t \in stored[<<pair, frame>>]
        Intermediate(n, i) == clock[n] + i * Length["intermediate"]
        Short(n, i, j) == Intermediate(n, i) + j * Length["short"]
        Reached(n, i, j) ==
            /\ Has("long", clock[n])
            /\ \A p \in 0..i : Has("intermediate", Intermediate(n, p))
            /\ \A p \in 0..i, q \in 0..(Iterations("short") - 1) :
                  p < i \/ q <= j => Has("short", Short(n, p, q))
        Iteration(frame) == 0..(Iterations(frame) - 1)
        Expected ==
            {Short(m[1], m[2], m[3]) + m[4] * Length["simulate"] :
                m \in {m \in (1..Len(clock)) \X Iteration("intermediate")
                             \X Iteration("short") \X Iteration("simulate") :
                        Reached(m[1], m[2], m[3])}}
    IN  loop = "done" => ToSet(ticks) = Expected
=============================================================================
