------------------------------- MODULE History -------------------------------
(***************************************************************************)
(* What the price history promises its callers (TradeData in               *)
(* iridium/data.hpp).  A dataset holds the candles of a pair in one time   *)
(* frame.  A lookup either returns an entry for every dataset asked for,   *)
(* or fails as a whole.  A candle is known by its time; the order of the   *)
(* candles of an entry is not stated here.                                 *)
(***************************************************************************)
EXTENDS Integers, Sequences, FiniteSets

CONSTANTS
    Datasets,       \* the datasets of the file
    None,           \* std::nullopt
    Histories,      \* the possible files: [Datasets -> times]
    Calls           \* the lookups made

\* The kinds of lookups:
\*   "candles"  candlestick_data at begin
\*   "history"  history_data, count candles that end before begin
\*   "range"    history_data_date_range from begin to end
ASSUME CallAssumption ==
    \A call \in Calls :
        /\ call.kind \in {"candles", "history", "range"}
        /\ call.datasets \in Seq(Datasets) /\ call.datasets # <<>>
        /\ call.begin \in Int /\ call.end \in Int /\ call.count \in Nat
        /\ call.kind = "range" => Len(call.datasets) = 1 /\ call.begin <= call.end

VARIABLES
    stored,     \* [Datasets -> times of the candles in the file]
    call,       \* the last lookup, None before the first
    outcome,    \* "none", "busy", "returned", "out_of_range" or "crashed"
    given       \* what the lookup returned, an entry for every dataset

historyVars == <<stored, call, outcome, given>>

NoEntries == [dataset \in {} |-> None]

----------------------------------------------------------------------------
WindowMutant(times, t, n) ==
    {u \in times : u <= t /\ Cardinality({v \in times : u < v /\ v <= t}) < n}
\* The n newest of the times before t.
Window(times, t, n) ==
    {u \in times : u < t /\ Cardinality({v \in times : u < v /\ v < t}) < n}

Reaches(times, t, n) == Cardinality({u \in times : u < t}) >= n

Given(c, times) ==
    CASE c.kind = "candles" -> IF c.begin \in times THEN {c.begin} ELSE None
      [] c.kind = "history" -> Window(times, c.begin, c.count)
      [] c.kind = "range" -> times \cap c.begin..c.end

\* A missing time can be skipped, a history that is too short cannot.
OutcomeFor(c, times) ==
    CASE c.kind = "candles" -> "returned"
      [] c.kind = "history" -> IF c.begin \notin times THEN "out_of_range"
                               ELSE IF Reaches(times, c.begin, c.count) THEN "returned"
                               ELSE "crashed"
      [] c.kind = "range" -> IF {c.begin, c.end} \subseteq times THEN "returned"
                             ELSE "out_of_range"

\* The first dataset that fails decides.
Outcome(c) ==
    LET of(i) == OutcomeFor(c, stored[c.datasets[i]])
    IN  IF \A i \in DOMAIN c.datasets : of(i) = "returned"
        THEN "returned"
        ELSE of(CHOOSE i \in DOMAIN c.datasets :
                    of(i) # "returned" /\ \A j \in 1..(i - 1) : of(j) = "returned")

----------------------------------------------------------------------------
HInit ==
    /\ stored \in Histories
    /\ call = None /\ outcome = "none" /\ given = NoEntries

Ask(c) ==
    /\ outcome \notin {"busy", "crashed"}
    /\ call' = c
    /\ outcome' = "busy" /\ given' = NoEntries
    /\ UNCHANGED stored

Answer ==
    /\ outcome = "busy"
    /\ outcome' = Outcome(call)
    /\ given' = IF outcome' = "returned"
                THEN [dataset \in {call.datasets[i] : i \in DOMAIN call.datasets} |->
                        Given(call, stored[dataset])]
                ELSE NoEntries
    /\ UNCHANGED <<stored, call>>

HNext == (\E c \in Calls : Ask(c)) \/ Answer

\* A lookup that was made ends.
HSpec == HInit /\ [][HNext]_historyVars /\ WF_historyVars(Answer)
=============================================================================
