------------------------------ MODULE TradeData ------------------------------
(***************************************************************************)
(* The reader of the price history (src/src/data.cpp): the lookups, pair   *)
(* by pair, each a binary search in the index of the times followed by a   *)
(* read of consecutive rows of the dataset of the pair and time frame.     *)
(*                                                                         *)
(* A dataset holds the newest candle first.  A candle is known by its      *)
(* time; time_indices_ is the column of the times of the dataset.          *)
(***************************************************************************)
EXTENDS BinarySearch, SequencesExt

CONSTANTS
    Datasets,       \* the datasets of the file
    Files,          \* the possible files: functions from datasets to times
    Calls           \* the lookups made

\* The newest candle comes first, and no two have the same time.
ASSUME FileAssumption ==
    /\ Files \subseteq [Datasets -> Seq(Int)]
    /\ \A f \in Files, dataset \in Datasets :
          \A i, j \in 1..Len(f[dataset]) : i < j => f[dataset][i] > f[dataset][j]
ASSUME LookupAssumption ==
    \A c \in Calls :
        /\ c.kind \in {"candles", "history", "range"}
        /\ c.datasets \in Seq(Datasets) /\ c.datasets # <<>>
        /\ c.begin \in Int /\ c.end \in Int /\ c.count \in Nat
        /\ c.kind = "range" => Len(c.datasets) = 1 /\ c.begin <= c.end
ASSUME NoEntryAssumption == None \notin Seq(Int)

VARIABLES
    file,       \* [Datasets -> dataset, the times newest first]
    stage,      \* "none", "search", "read", "returned", "out_of_range", "crashed"
    call,       \* the lookup
    todo,       \* datasets still to look up, the first one in work
    bounds,     \* begin_index, and end_index of a date range
    result      \* the map that is filled

lookup == <<file, stage, call, todo, bounds, result>>
vars == <<searchVars, lookup>>

NoEntries == [dataset \in {} |-> None]
Dataset == Head(todo)

----------------------------------------------------------------------------
(* The loop over the pairs                                                 *)

DInit ==
    /\ file \in Files
    /\ stage = "none" /\ call = None /\ todo = <<>> /\ bounds = <<>>
    /\ result = NoEntries
    /\ a = <<>> /\ x = 0 /\ low = 0 /\ high = -1 /\ index = -1 /\ reversed = TRUE

Call(c) ==
    /\ stage \notin {"search", "read", "crashed"}
    /\ stage' = "search" /\ call' = c /\ todo' = c.datasets
    /\ bounds' = <<>> /\ result' = NoEntries
    /\ Begin(file[c.datasets[1]], c.begin)
    /\ UNCHANGED <<file, reversed>>

\* The pair has its entry, the next one follows.
Enter(entry) ==
    /\ result' = [dataset \in DOMAIN result \cup {Dataset} |->
                    IF dataset \in DOMAIN result THEN result[dataset] ELSE entry]
    /\ todo' = Tail(todo) /\ bounds' = <<>>
    /\ IF Tail(todo) = <<>>
       THEN stage' = "returned" /\ UNCHANGED searchVars
       ELSE /\ stage' = "search"
            /\ Begin(file[todo[2]], call.begin) /\ UNCHANGED reversed
    /\ UNCHANGED <<file, call>>

\* An exception: candlestick_data makes an empty entry of any.
Throw(failure) ==
    IF call.kind = "candles"
    THEN Enter(None)
    ELSE /\ stage' = failure
         /\ UNCHANGED <<searchVars, file, call, todo, bounds, result>>

----------------------------------------------------------------------------
(* time_index                                                              *)

SearchTime == stage = "search" /\ Search /\ UNCHANGED lookup

NotFound ==
    /\ stage = "search" /\ index = -1
    /\ Throw("out_of_range")

FoundTime ==
    /\ stage = "search" /\ index \notin {None, -1}
    /\ bounds' = Append(bounds, index)
    /\ IF call.kind = "range" /\ bounds = <<>>
       THEN /\ Begin(a, call.end)
            /\ UNCHANGED <<stage, reversed>>
       ELSE stage' = "read" /\ UNCHANGED searchVars
    /\ UNCHANGED <<file, call, todo, result>>

----------------------------------------------------------------------------
(* history_data_                                                           *)

\* Both bounds of a date range are counted, and history is asked for one
\* candle more than is returned.
CountMutant ==
    CASE call.kind = "candles" -> 1
      [] call.kind = "history" -> call.count
      [] call.kind = "range" -> bounds[1] - bounds[2] + 1
Count ==
    CASE call.kind = "candles" -> 1
      [] call.kind = "history" -> call.count + 1
      [] call.kind = "range" -> bounds[1] - bounds[2] + 1

\* data_start: the index descends in time, so that a window that ends with a
\* time begins at its row.
Start == IF call.kind = "range" THEN bounds[1] - Count + 1 ELSE bounds[1]

CanRead == Start + Count <= Len(file[Dataset])

Times(s) == {s[i] : i \in DOMAIN s}

Ascends(s) == \A i, j \in DOMAIN s : i < j => s[i] < s[j]

\* std::sort by the time of the candles.
InOrder(s) == CHOOSE r \in [DOMAIN s -> Times(s)] : Times(r) = Times(s) /\ Ascends(r)

RowsMutant == SubSeq(file[Dataset], Start + 1, Start + Count)
Rows == InOrder(SubSeq(file[Dataset], Start + 1, Start + Count))

\* history_data drops the candle of the tick, the newest.
Read ==
    /\ stage = "read" /\ CanRead
    /\ Enter(IF call.kind = "history" THEN Front(Rows) ELSE Rows)

ReadFails ==
    /\ stage = "read" /\ ~CanRead
    /\ Throw("crashed")

DNext ==
    \/ \E c \in Calls : Call(c)
    \/ SearchTime \/ NotFound \/ FoundTime \/ Read \/ ReadFails

\* A lookup runs to its end in one thread.
Lookup == SearchTime \/ NotFound \/ FoundTime \/ Read \/ ReadFails

DSpec == DInit /\ [][DNext]_vars /\ WF_vars(Lookup)

----------------------------------------------------------------------------
(* Properties                                                              *)

\* The variables keep their types, and the search is given a sorted list.
TypeOK ==
    /\ stage \in {"none", "search", "read", "returned", "out_of_range", "crashed"}
    /\ call \in Calls \cup {None}
    /\ \A dataset \in DOMAIN result : dataset \in Datasets
    /\ bounds \in Seq(Nat) /\ Len(bounds) <= 2
    /\ Sorted(a)

\* A strategy is handed its history with the oldest candle first, although the
\* file has the newest first.
EntriesAscend ==
    \A dataset \in DOMAIN result : result[dataset] # None => Ascends(result[dataset])

Abstract == INSTANCE History WITH
    Histories <- {[dataset \in Datasets |-> Times(f[dataset])] : f \in Files},
    stored <- [dataset \in Datasets |-> Times(file[dataset])],
    outcome <- IF stage \in {"search", "read"} THEN "busy" ELSE stage,
    given <- IF stage = "returned"
             THEN [dataset \in DOMAIN result |->
                     IF result[dataset] = None THEN None ELSE Times(result[dataset])]
             ELSE NoEntries

\* The searches, the arithmetic on rows and the order of the reads give exactly
\* what the history promises: the newest candles before the tick and no later
\* one, the candles of a range with both its ends, and the failure of the first
\* pair that fails; and every lookup ends.
ImplementsHistory == Abstract!HSpec
=============================================================================
