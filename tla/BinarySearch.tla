----------------------------- MODULE BinarySearch -----------------------------
(***************************************************************************)
(* The recursive binary search of iridium/algorithm.hpp, one step per call.*)
(* The list is searched in place; the parameters low and high of the       *)
(* current call are the only things a call hands to the next.              *)
(*                                                                         *)
(* Positions are counted from 0, as in the code.                           *)
(***************************************************************************)
EXTENDS Integers, Sequences

CONSTANTS
    Lists,      \* the lists that are searched, in either direction
    Wanted,     \* the values looked for
    None        \* no result yet

ASSUME ListAssumption == Lists \subseteq Seq(Int) /\ Wanted \subseteq Int
ASSUME NoneAssumption == None \notin Int

VARIABLES
    a,          \* the list
    x,          \* the value looked for
    reversed,   \* the list descends
    low, high,  \* the positions left
    index       \* what the outermost call returns

searchVars == <<a, x, reversed, low, high, index>>

----------------------------------------------------------------------------
Comes(u, v) == IF reversed THEN u > v ELSE u < v

Sorted(s) == \A i, j \in 1..Len(s) : i < j => s[i] = s[j] \/ Comes(s[i], s[j])

Mid == (low + high) \div 2
Middle == a[Mid + 1]

BeginMutant(list, value) ==
    /\ a' = list /\ x' = value
    /\ low' = 0 /\ high' = Len(list)
    /\ index' = None
\* Called with the list, the two bounds cover all of it.
Begin(list, value) ==
    /\ a' = list /\ x' = value
    /\ low' = 0 /\ high' = Len(list) - 1
    /\ index' = None

Searching == index = None /\ low <= high

SearchRight ==
    /\ Searching /\ Comes(Middle, x)
    /\ low' = Mid + 1
    /\ UNCHANGED <<a, x, reversed, high, index>>

SearchLeftMutant ==
    /\ Searching /\ Comes(x, Middle)
    /\ high' = Mid - 2
    /\ UNCHANGED <<a, x, reversed, low, index>>
SearchLeft ==
    /\ Searching /\ Comes(x, Middle)
    /\ high' = Mid - 1
    /\ UNCHANGED <<a, x, reversed, low, index>>

Hit ==
    /\ Searching /\ ~Comes(Middle, x) /\ ~Comes(x, Middle)
    /\ index' = Mid
    /\ UNCHANGED <<a, x, reversed, low, high>>

Miss ==
    /\ index = None /\ low > high
    /\ index' = -1
    /\ UNCHANGED <<a, x, reversed, low, high>>

Search == SearchRight \/ SearchLeft \/ Hit \/ Miss

SInit ==
    /\ a \in Lists /\ x \in Wanted /\ reversed \in BOOLEAN
    /\ Sorted(a)
    /\ low = 0 /\ high = Len(a) - 1
    /\ index = None

SSpec == SInit /\ [][Search]_searchVars /\ WF_searchVars(Search)

----------------------------------------------------------------------------
(* Properties                                                              *)

\* The search finds a value that is there, at a place where it is, and answers
\* -1 only for one that is not: at both ends, in lists of one value and of none,
\* with values that repeat, ascending and descending.
FindsWhatIsThere ==
    index # None =>
        IF \E i \in 1..Len(a) : a[i] = x
        THEN index \in 0..(Len(a) - 1) /\ a[index + 1] = x
        ELSE index = -1

\* Every call reads inside the list.
ReadsInside == Searching => Mid \in 0..(Len(a) - 1)

\* A recursive call has at most half as many positions left, and so the stack
\* stays logarithmic in the length of a history of years.
Halves ==
    [][low' # low \/ high' # high => 2 * (high' - low' + 1) <= high - low + 1]_searchVars

----------------------------------------------------------------------------
(* The inductive invariant of the proofs                                   *)

SearchTypeOK ==
    /\ a \in Seq(Int) /\ x \in Int /\ reversed \in BOOLEAN
    /\ low \in Int /\ high \in Int /\ index \in Int \cup {None}

\* The value is nowhere outside of the bounds.
Enclosed ==
    /\ 0 <= low /\ high <= Len(a) - 1
    /\ \A i \in 1..Len(a) : a[i] = x => low <= i - 1 /\ i - 1 <= high

SearchInvariant ==
    /\ SearchTypeOK
    /\ Sorted(a)
    /\ index = None => Enclosed
    /\ FindsWhatIsThere
=============================================================================
