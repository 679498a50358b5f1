--------------------------- MODULE TradeDataProofs ---------------------------
(***************************************************************************)
(* Proofs about the reader of the price history.  Its binary search,       *)
(* whatever the list, as long as it is sorted in the direction of the      *)
(* search, answers right, reads nothing outside of the list and halves     *)
(* with every call what is left.  For every file whose datasets descend in *)
(* time and every lookup, the searches of the reader find what is there,   *)
(* its entries ascend, and each of its steps is one of History or changes  *)
(* nothing that History knows.                                             *)
(***************************************************************************)
EXTENDS TradeData, FiniteSetTheorems, TLAPS

----------------------------------------------------------------------------
(* The binary search                                                       *)

\* The middle lies between the bounds and halves what they enclose.
LEMMA MiddleIsBetween ==
    ASSUME NEW l \in Int, NEW h \in Int, l <= h
    PROVE  /\ (l + h) \div 2 \in Int
           /\ l <= (l + h) \div 2 /\ (l + h) \div 2 <= h
           /\ 2 * (h - ((l + h) \div 2)) <= h - l + 1
           /\ 2 * (((l + h) \div 2) - l) <= h - l + 1
OBVIOUS

\* While the search goes on, the invariant keeps its reads inside the list.
LEMMA MidIsInside ==
    ASSUME SearchInvariant, Searching
    PROVE  /\ Mid \in Int /\ low <= Mid /\ Mid <= high
           /\ Mid \in 0..(Len(a) - 1)
           /\ Mid + 1 \in 1..Len(a)
           /\ Middle \in Int
           /\ 2 * (high - Mid) <= high - low + 1
           /\ 2 * (Mid - low) <= high - low + 1
<1>1. low \in Int /\ high \in Int /\ low <= high /\ a \in Seq(Int)
  BY DEF SearchInvariant, SearchTypeOK, Searching
<1>2. 0 <= low /\ high <= Len(a) - 1
  BY DEF SearchInvariant, Enclosed, Searching
<1>3. /\ Mid \in Int /\ low <= Mid /\ Mid <= high
      /\ 2 * (high - Mid) <= high - low + 1
      /\ 2 * (Mid - low) <= high - low + 1
  BY <1>1, MiddleIsBetween DEF Mid
<1>4. Len(a) \in Nat
  BY <1>1
<1>5. Mid \in 0..(Len(a) - 1) /\ Mid + 1 \in 1..Len(a)
  BY <1>1, <1>2, <1>3, <1>4
<1>6. Middle \in Int
  BY <1>1, <1>5 DEF Middle
<1> QED
  BY <1>3, <1>5, <1>6

\* What is on the wrong side of the middle is not the value.
LEMMA ValueIsRight ==
    ASSUME SearchInvariant, Searching, Comes(Middle, x),
           NEW i \in 1..Len(a), a[i] = x
    PROVE  Mid + 1 <= i - 1
<1>1. /\ a \in Seq(Int) /\ x \in Int /\ Mid \in Int /\ Mid + 1 \in 1..Len(a)
      /\ Middle \in Int
  BY MidIsInside DEF SearchInvariant, SearchTypeOK
<1>2. Sorted(a)
  BY DEF SearchInvariant
<1>3. ~(i <= Mid + 1)
  <2>1. SUFFICES ASSUME i <= Mid + 1 PROVE FALSE
    OBVIOUS
  <2>2. CASE i = Mid + 1
    BY <2>2, <1>1 DEF Comes, Middle
  <2>3. CASE i < Mid + 1
    <3>1. a[i] = a[Mid + 1] \/ Comes(a[i], a[Mid + 1])
      BY <2>3, <1>1, <1>2 DEF Sorted
    <3> QED
      BY <3>1, <1>1 DEF Comes, Middle
  <2> QED
    BY <2>1, <2>2, <2>3, <1>1
<1> QED
  BY <1>1, <1>3

LEMMA ValueIsLeft ==
    ASSUME SearchInvariant, Searching, Comes(x, Middle),
           NEW i \in 1..Len(a), a[i] = x
    PROVE  i - 1 <= Mid - 1
<1>1. /\ a \in Seq(Int) /\ x \in Int /\ Mid \in Int /\ Mid + 1 \in 1..Len(a)
      /\ Middle \in Int
  BY MidIsInside DEF SearchInvariant, SearchTypeOK
<1>2. Sorted(a)
  BY DEF SearchInvariant
<1>3. ~(Mid + 1 <= i)
  <2>1. SUFFICES ASSUME Mid + 1 <= i PROVE FALSE
    OBVIOUS
  <2>2. CASE i = Mid + 1
    BY <2>2, <1>1 DEF Comes, Middle
  <2>3. CASE Mid + 1 < i
    <3>1. a[Mid + 1] = a[i] \/ Comes(a[Mid + 1], a[i])
      BY <2>3, <1>1, <1>2 DEF Sorted
    <3> QED
      BY <3>1, <1>1 DEF Comes, Middle
  <2> QED
    BY <2>1, <2>2, <2>3, <1>1
<1> QED
  BY <1>1, <1>3

----------------------------------------------------------------------------
\* Bounds that cover the whole list enclose the value.
LEMMA WholeListEncloses ==
    ASSUME NEW s \in Seq(Int)
    PROVE  /\ 0 <= 0 /\ Len(s) - 1 <= Len(s) - 1 /\ Len(s) - 1 \in Int
           /\ \A i \in 1..Len(s) : 0 <= i - 1 /\ i - 1 <= Len(s) - 1
OBVIOUS

LEMMA SInitInvariant == SInit => SearchInvariant
<1>1. SUFFICES ASSUME SInit PROVE SearchInvariant
  OBVIOUS
<1>2. a \in Seq(Int) /\ x \in Int /\ reversed \in BOOLEAN
  BY <1>1, ListAssumption DEF SInit
<1>3. low = 0 /\ high = Len(a) - 1 /\ index = None /\ Sorted(a)
  BY <1>1 DEF SInit
<1>4. SearchTypeOK
  BY <1>2, <1>3, WholeListEncloses DEF SearchTypeOK
<1>5. Enclosed
  BY <1>2, <1>3, WholeListEncloses DEF Enclosed
<1> QED
  BY <1>3, <1>4, <1>5 DEF SearchInvariant, FindsWhatIsThere

\* Every call keeps the invariant.
LEMMA SearchKeepsInvariant ==
    ASSUME SearchInvariant, Search
    PROVE  SearchInvariant'
<1>0. /\ a \in Seq(Int) /\ x \in Int /\ reversed \in BOOLEAN
      /\ low \in Int /\ high \in Int
  BY DEF SearchInvariant, SearchTypeOK
<1>1. CASE SearchRight
  <2>1. Searching /\ Comes(Middle, x)
    BY <1>1 DEF SearchRight
  <2>2. Mid + 1 \in Int /\ 0 <= Mid + 1
    BY <2>1, MidIsInside
  <2>3. Enclosed
    BY <2>1 DEF SearchInvariant, Searching
  <2>4. /\ a' = a /\ x' = x /\ reversed' = reversed /\ high' = high
        /\ low' = Mid + 1 /\ index' = None /\ index = None
    BY <1>1, <2>1 DEF SearchRight, Searching
  <2>5. SearchTypeOK'
    BY <1>0, <2>2, <2>4 DEF SearchTypeOK
  <2>6. Enclosed'
    <3>1. \A i \in 1..Len(a) : a[i] = x => Mid + 1 <= i - 1 /\ i - 1 <= high
      BY <2>1, <2>3, ValueIsRight DEF Enclosed
    <3> QED
      BY <2>2, <2>3, <2>4, <3>1 DEF Enclosed
  <2>7. Sorted(a)'
    BY <2>4 DEF SearchInvariant, Sorted, Comes
  <2> QED
    BY <2>4, <2>5, <2>6, <2>7 DEF SearchInvariant, FindsWhatIsThere
<1>2. CASE SearchLeft
  <2>1. Searching /\ Comes(x, Middle)
    BY <1>2 DEF SearchLeft
  <2>2. Mid - 1 \in Int /\ Mid - 1 <= Len(a) - 1
    <3>1. Len(a) \in Nat /\ Mid \in 0..(Len(a) - 1)
      BY <1>0, <2>1, MidIsInside
    <3> QED
      BY <3>1
  <2>3. Enclosed
    BY <2>1 DEF SearchInvariant, Searching
  <2>4. /\ a' = a /\ x' = x /\ reversed' = reversed /\ low' = low
        /\ high' = Mid - 1 /\ index' = None /\ index = None
    BY <1>2, <2>1 DEF SearchLeft, Searching
  <2>5. SearchTypeOK'
    BY <1>0, <2>2, <2>4 DEF SearchTypeOK
  <2>6. Enclosed'
    <3>1. \A i \in 1..Len(a) : a[i] = x => low <= i - 1 /\ i - 1 <= Mid - 1
      BY <2>1, <2>3, ValueIsLeft DEF Enclosed
    <3> QED
      BY <2>2, <2>3, <2>4, <3>1 DEF Enclosed
  <2>7. Sorted(a)'
    BY <2>4 DEF SearchInvariant, Sorted, Comes
  <2> QED
    BY <2>4, <2>5, <2>6, <2>7 DEF SearchInvariant, FindsWhatIsThere
<1>3. CASE Hit
  <2>1. Searching /\ ~Comes(Middle, x) /\ ~Comes(x, Middle)
    BY <1>3 DEF Hit
  <2>2. /\ a' = a /\ x' = x /\ reversed' = reversed
        /\ low' = low /\ high' = high /\ index' = Mid
    BY <1>3 DEF Hit
  <2>3. Mid \in Int /\ Mid \in 0..(Len(a) - 1) /\ Mid + 1 \in 1..Len(a) /\ Middle \in Int
    BY <2>1, MidIsInside
  <2>4. a[Mid + 1] = x
    BY <1>0, <2>1, <2>3 DEF Comes, Middle
  <2>5. index' # None
    BY <2>2, <2>3, NoneAssumption
  <2>6. SearchTypeOK'
    BY <1>0, <2>2, <2>3 DEF SearchTypeOK
  <2>7. FindsWhatIsThere'
    BY <2>2, <2>3, <2>4 DEF FindsWhatIsThere
  <2>8. Sorted(a)'
    BY <2>2 DEF SearchInvariant, Sorted, Comes
  <2> QED
    BY <2>5, <2>6, <2>7, <2>8 DEF SearchInvariant
<1>4. CASE Miss
  <2>1. index = None /\ low > high /\ Enclosed
    BY <1>4 DEF Miss, SearchInvariant
  <2>2. /\ a' = a /\ x' = x /\ reversed' = reversed
        /\ low' = low /\ high' = high /\ index' = -1
    BY <1>4 DEF Miss
  <2>3. ~\E i \in 1..Len(a) : a[i] = x
    BY <1>0, <2>1 DEF Enclosed
  <2>4. index' # None
    BY <2>2, NoneAssumption
  <2>5. SearchTypeOK'
    BY <1>0, <2>2 DEF SearchTypeOK
  <2>6. FindsWhatIsThere'
    BY <2>2, <2>3 DEF FindsWhatIsThere
  <2>7. Sorted(a)'
    BY <2>2 DEF SearchInvariant, Sorted, Comes
  <2> QED
    BY <2>4, <2>5, <2>6, <2>7 DEF SearchInvariant
<1> QED
  BY <1>1, <1>2, <1>3, <1>4 DEF Search

LEMMA SearchStutterKeepsInvariant ==
    ASSUME SearchInvariant, UNCHANGED searchVars
    PROVE  SearchInvariant'
BY DEF SearchInvariant, SearchTypeOK, Sorted, Comes, Enclosed, FindsWhatIsThere, searchVars

THEOREM SearchIsInvariant == SSpec => []SearchInvariant
<1>1. SInit => SearchInvariant
  BY SInitInvariant
<1>2. SearchInvariant /\ [Search]_searchVars => SearchInvariant'
  BY SearchKeepsInvariant, SearchStutterKeepsInvariant
<1> QED
  BY <1>1, <1>2, PTL DEF SSpec

\* Whatever the sorted list and its direction, a value that is there is found
\* and the answer for another one is -1 (iridium::algorithm::BinarySearch).
THEOREM SearchIsCorrect == SSpec => []FindsWhatIsThere
<1>1. SearchInvariant => FindsWhatIsThere
  BY DEF SearchInvariant
<1> QED
  BY <1>1, SearchIsInvariant, PTL

\* No call of the search reads outside of the list, however long it is.
THEOREM SearchReadsInside == SSpec => []ReadsInside
<1>1. SearchInvariant => ReadsInside
  BY MidIsInside DEF ReadsInside
<1> QED
  BY <1>1, SearchIsInvariant, PTL

\* Every call halves what is left, for lists of any length.
THEOREM SearchHalves == SSpec => Halves
<1>1. ASSUME SearchInvariant, [Search]_searchVars, low' # low \/ high' # high
      PROVE  2 * (high' - low' + 1) <= high - low + 1
  <2>0. low \in Int /\ high \in Int
    BY <1>1 DEF SearchInvariant, SearchTypeOK
  <2>1. SearchRight \/ SearchLeft
    BY <1>1 DEF Search, Hit, Miss, searchVars
  <2>2. Searching
    BY <2>1 DEF SearchRight, SearchLeft
  <2>3. /\ Mid \in Int
        /\ 2 * (high - Mid) <= high - low + 1
        /\ 2 * (Mid - low) <= high - low + 1
    BY <1>1, <2>2, MidIsInside
  <2>4. CASE SearchRight
    <3>1. low' = Mid + 1 /\ high' = high
      BY <2>4 DEF SearchRight
    <3> QED
      BY <2>0, <2>3, <3>1
  <2>5. CASE SearchLeft
    <3>1. low' = low /\ high' = Mid - 1
      BY <2>5 DEF SearchLeft
    <3> QED
      BY <2>0, <2>3, <3>1
  <2> QED
    BY <2>1, <2>4, <2>5
<1> QED
  BY <1>1, SearchIsInvariant, PTL DEF SSpec, Halves

----------------------------------------------------------------------------
(* Rows of a dataset                                                       *)

Descends(s) == \A i, j \in 1..Len(s) : i < j => s[i] > s[j]

\* History counts as this module does.
LEMMA SameCardinality ==
    ASSUME NEW S
    PROVE  Abstract!Cardinality(S) = Cardinality(S)
BY DEF Cardinality, Abstract!Cardinality

\* Rows have different times.
LEMMA SliceSize ==
    ASSUME NEW s \in Seq(Int), Descends(s), NEW p \in Int, NEW q \in Int,
           1 <= p, q <= Len(s), p <= q + 1
    PROVE  Cardinality({s[j] : j \in p..q}) = q - p + 1
<1> DEFINE T == {s[j] : j \in p..q}
           f == [j \in p..q |-> s[j]]
<1>1. Len(s) \in Nat /\ \A j \in p..q : j \in 1..Len(s) /\ s[j] \in Int
  OBVIOUS
<1>2. ASSUME NEW i \in p..q, NEW j \in p..q, s[i] = s[j] PROVE i = j
  <2>1. ~(i < j) /\ ~(j < i)
    BY <1>1, <1>2 DEF Descends
  <2> QED BY <2>1
<1>3. f \in Bijection(p..q, T)
  <2>1. f \in [p..q -> T] /\ \A i, j \in p..q : f[i] = f[j] => i = j
    BY <1>2
  <2>2. \A t \in T : \E j \in p..q : f[j] = t
    OBVIOUS
  <2> HIDE DEF f, T
  <2> QED BY <2>1, <2>2 DEF Bijection, Injection, Surjection, IsInjective
<1>4. IsFiniteSet(p..q) /\ Cardinality(p..q) = q - p + 1
  <2>1. IsFiniteSet(p..q) /\ Cardinality(p..q) = IF p > q THEN 0 ELSE q - p + 1
    BY FS_Interval
  <2>2. p > q => q - p + 1 = 0
    OBVIOUS
  <2> QED BY <2>1, <2>2
<1>5. Cardinality(T) = Cardinality(p..q)
  <2> HIDE DEF f, T
  <2> QED BY <1>3, <1>4, FS_Bijection DEF ExistsBijection
<1> QED
  BY <1>4, <1>5

\* The times before that of a row are those of the rows after it.
LEMMA RowsBefore ==
    ASSUME NEW s \in Seq(Int), Descends(s), NEW b \in 0..(Len(s) - 1)
    PROVE  /\ {u \in Times(s) : u < s[b + 1]} = {s[j] : j \in (b + 2)..Len(s)}
           /\ \A i \in (b + 2)..Len(s) :
                 {v \in Times(s) : s[i] < v /\ v < s[b + 1]} = {s[j] : j \in (b + 2)..(i - 1)}
<1>1. /\ Len(s) \in Nat /\ b + 1 \in 1..Len(s) /\ b \in Int
      /\ \A i \in 1..Len(s) : s[i] \in Int
      /\ Times(s) = {s[i] : i \in 1..Len(s)}
  BY DEF Times
<1>2. \A i, j \in 1..Len(s) : s[i] < s[j] <=> j < i
  <2>1. SUFFICES ASSUME NEW i \in 1..Len(s), NEW j \in 1..Len(s) PROVE s[i] < s[j] <=> j < i
    OBVIOUS
  <2>2. CASE i = j
    BY <1>1, <2>2
  <2>3. CASE i < j
    BY <1>1, <2>3 DEF Descends
  <2>4. CASE j < i
    BY <1>1, <2>4 DEF Descends
  <2> QED BY <2>2, <2>3, <2>4
<1>3. \A i \in 1..Len(s) : s[i] < s[b + 1] <=> i \in (b + 2)..Len(s)
  BY <1>1, <1>2
<1>4. \A i \in (b + 2)..Len(s), j \in 1..Len(s) :
         s[i] < s[j] /\ s[j] < s[b + 1] <=> j \in (b + 2)..(i - 1)
  BY <1>1, <1>2
<1>5. {u \in Times(s) : u < s[b + 1]} = {s[j] : j \in (b + 2)..Len(s)}
  BY <1>1, <1>3
<1>6. ASSUME NEW i \in (b + 2)..Len(s)
      PROVE  {v \in Times(s) : s[i] < v /\ v < s[b + 1]} = {s[j] : j \in (b + 2)..(i - 1)}
  <2>1. \A j \in (b + 2)..(i - 1) : j \in 1..Len(s)
    BY <1>1
  <2>2. \A j \in 1..Len(s) : s[i] < s[j] /\ s[j] < s[b + 1] <=> j \in (b + 2)..(i - 1)
    BY <1>4
  <2> QED BY <1>1, <2>1, <2>2
<1> QED
  BY <1>5, <1>6

\* History reaches back as far as there are rows.
LEMMA ReachesRows ==
    ASSUME NEW s \in Seq(Int), Descends(s), NEW b \in 0..(Len(s) - 1), NEW n \in Nat
    PROVE  Abstract!Reaches(Times(s), s[b + 1], n) <=> b + 1 + n <= Len(s)
<1>1. PICK p \in Int : p = b + 2
  OBVIOUS
<1>2. PICK q \in Int : q = Len(s)
  OBVIOUS
<1>3. 1 <= p /\ p <= q + 1
  BY <1>1, <1>2
<1>4. Cardinality({s[j] : j \in p..q}) = q - p + 1
  BY <1>2, <1>3, SliceSize
<1> DEFINE older == Cardinality({u \in Times(s) : u < s[b + 1]})
<1>5. older = q - p + 1
  BY <1>1, <1>2, <1>4, RowsBefore
<1>6. Abstract!Reaches(Times(s), s[b + 1], n) <=> older >= n
  BY SameCardinality DEF Abstract!Reaches
<1> HIDE DEF older
<1> QED
  BY <1>1, <1>2, <1>5, <1>6

\* A window is the rows that follow that of its time.
LEMMA WindowRows ==
    ASSUME NEW s \in Seq(Int), Descends(s), NEW b \in 0..(Len(s) - 1), NEW n \in Nat,
           b + 1 + n <= Len(s)
    PROVE  Abstract!Window(Times(s), s[b + 1], n) = {s[j] : j \in (b + 2)..(b + 1 + n)}
<1> DEFINE After(u) == Cardinality({v \in Times(s) : u < v /\ v < s[b + 1]})
           Older == {s[j] : j \in (b + 2)..Len(s)}
<1>1. Len(s) \in Nat /\ b \in Nat
  OBVIOUS
<1>2. ASSUME NEW i \in (b + 2)..Len(s) PROVE After(s[i]) = i - 1 - b - 1
  <2>1. PICK p \in Int : p = b + 2
    BY <1>1
  <2>2. PICK q \in Int : q = i - 1
    BY <1>1
  <2>3. 1 <= p /\ q <= Len(s) /\ p <= q + 1
    BY <1>1, <2>1, <2>2
  <2>4. Cardinality({s[j] : j \in p..q}) = q - p + 1
    BY <2>3, SliceSize
  <2>5. After(s[i]) = q - p + 1
    BY <2>1, <2>2, <2>4, RowsBefore
  <2> HIDE DEF After
  <2> QED
    BY <1>1, <2>1, <2>2, <2>5
<1>3. Abstract!Window(Times(s), s[b + 1], n) = {u \in Older : After(u) < n}
  <2>1. Older = {u \in Times(s) : u < s[b + 1]}
    BY RowsBefore
  <2>2. Abstract!Window(Times(s), s[b + 1], n) = {u \in Times(s) : u < s[b + 1] /\ After(u) < n}
    BY SameCardinality DEF Abstract!Window
  <2> HIDE DEF Older, After
  <2> QED BY <2>1, <2>2
<1>4. \A i \in (b + 2)..Len(s) : After(s[i]) < n <=> i \in (b + 2)..(b + 1 + n)
  <2> HIDE DEF After
  <2> QED BY <1>1, <1>2
<1>5. \A i \in (b + 2)..(b + 1 + n) : i \in (b + 2)..Len(s)
  BY <1>1
<1> HIDE DEF After
<1> QED
  BY <1>3, <1>4, <1>5

\* The candles of a range lie between the rows of its ends.
LEMMA RangeRows ==
    ASSUME NEW s \in Seq(Int), Descends(s), NEW b \in 0..(Len(s) - 1),
           NEW e \in 0..(Len(s) - 1), s[b + 1] <= s[e + 1]
    PROVE  /\ e <= b
           /\ Times(s) \cap s[b + 1]..s[e + 1] = {s[j] : j \in (e + 1)..(b + 1)}
<1>1. /\ Len(s) \in Nat /\ b + 1 \in 1..Len(s) /\ e + 1 \in 1..Len(s)
      /\ \A i \in 1..Len(s) : s[i] \in Int
      /\ Times(s) = {s[i] : i \in 1..Len(s)}
  BY DEF Times
<1>2. \A i, j \in 1..Len(s) : s[i] <= s[j] <=> j <= i
  <2>1. SUFFICES ASSUME NEW i \in 1..Len(s), NEW j \in 1..Len(s) PROVE s[i] <= s[j] <=> j <= i
    OBVIOUS
  <2>2. CASE i = j
    BY <1>1, <2>2
  <2>3. CASE i < j
    BY <1>1, <2>3 DEF Descends
  <2>4. CASE j < i
    BY <1>1, <2>4 DEF Descends
  <2> QED BY <2>2, <2>3, <2>4
<1>3. e <= b
  BY <1>1, <1>2
<1>4. \A i \in 1..Len(s) : s[i] \in s[b + 1]..s[e + 1] <=> i \in (e + 1)..(b + 1)
  BY <1>1, <1>2
<1>5. \A i \in (e + 1)..(b + 1) : i \in 1..Len(s)
  BY <1>1
<1> QED
  BY <1>1, <1>3, <1>4, <1>5

----------------------------------------------------------------------------
(* Consecutive rows, read and sorted                                       *)

LEMMA RowsRead ==
    ASSUME NEW s \in Seq(Int), Descends(s), NEW p \in Int, NEW q \in Int,
           1 <= p, q <= Len(s), p <= q + 1
    PROVE  /\ SubSeq(s, p, q) \in Seq(Int) /\ Len(SubSeq(s, p, q)) = q - p + 1
           /\ \A j \in 1..(q - p + 1) : SubSeq(s, p, q)[j] = s[p + j - 1]
           /\ Descends(SubSeq(s, p, q))
           /\ Times(SubSeq(s, p, q)) = {s[j] : j \in p..q}
<1> DEFINE r == SubSeq(s, p, q)
           m == q - p + 1
<1>1. m \in Nat /\ Len(s) \in Nat /\ \A j \in 1..m : p + j - 1 \in 1..Len(s)
  OBVIOUS
<1>2. r \in Seq(Int) /\ Len(r) = m /\ DOMAIN r = 1..m /\ \A j \in 1..m : r[j] = s[p + j - 1]
  OBVIOUS
<1> HIDE DEF r
<1>3. Descends(r)
  <2>1. ASSUME NEW i \in 1..m, NEW j \in 1..m, i < j PROVE r[i] > r[j]
    <3>1. p + i - 1 \in 1..Len(s) /\ p + j - 1 \in 1..Len(s) /\ p + i - 1 < p + j - 1
      BY <1>1, <2>1
    <3> QED BY <1>2, <3>1 DEF Descends
  <2> QED BY <1>2, <2>1 DEF Descends
<1>4. Times(r) = {s[j] : j \in p..q}
  <2>1. ASSUME NEW j \in p..q PROVE \E i \in 1..m : r[i] = s[j]
    <3>1. PICK i \in 1..m : p + i - 1 = j
      <4>1. j - p + 1 \in 1..m /\ p + (j - p + 1) - 1 = j
        OBVIOUS
      <4> QED BY <4>1
    <3> QED BY <1>2, <3>1
  <2>2. ASSUME NEW i \in 1..m PROVE \E j \in p..q : r[i] = s[j]
    <3>1. p + i - 1 \in p..q
      BY <1>1
    <3> QED BY <1>2, <3>1
  <2> DEFINE R == {r[i] : i \in 1..m}
             S == {s[j] : j \in p..q}
  <2>3. Times(r) = R
    BY <1>2 DEF Times
  <2>4. ASSUME NEW t \in R PROVE t \in S
    BY <2>2
  <2>5. ASSUME NEW t \in S PROVE t \in R
    BY <2>1
  <2>6. R = S
    <3> HIDE DEF R, S
    <3> QED BY <2>4, <2>5
  <2> QED BY <2>3, <2>6
<1> QED
  BY <1>2, <1>3, <1>4 DEF r

\* Rows can be sorted: reversed, they ascend.
LEMMA Sorting ==
    ASSUME NEW s \in Seq(Int), Descends(s)
    PROVE  /\ InOrder(s) \in Seq(Int) /\ Len(InOrder(s)) = Len(s)
           /\ Times(InOrder(s)) = Times(s) /\ Ascends(InOrder(s))
<1> DEFINE m == Len(s)
           r == [i \in 1..m |-> s[m + 1 - i]]
           Right(t) == Times(t) = Times(s) /\ Ascends(t)
<1>1. m \in Nat /\ DOMAIN s = 1..m /\ \A i \in 1..m : m + 1 - i \in 1..m
  OBVIOUS
<1>2. r \in [DOMAIN s -> Times(s)]
  BY <1>1 DEF Times
<1>3. Times(r) = Times(s)
  <2>1. \A i \in 1..m : m + 1 - i \in 1..m /\ m + 1 - (m + 1 - i) = i
    BY <1>1
  <2>2. \A i \in 1..m : r[m + 1 - i] = s[i] /\ r[i] = s[m + 1 - i]
    BY <1>1, <2>1
  <2>3. Times(r) = {r[i] : i \in 1..m} /\ Times(s) = {s[i] : i \in 1..m}
    BY <1>1 DEF Times
  <2>4. ASSUME NEW i \in 1..m
        PROVE  (\E j \in 1..m : r[i] = s[j]) /\ (\E j \in 1..m : r[j] = s[i])
    <3>1. m + 1 - i \in 1..m /\ r[i] = s[m + 1 - i] /\ r[m + 1 - i] = s[i]
      BY <2>1, <2>2
    <3> HIDE DEF r, m
    <3> QED BY <3>1
  <2> DEFINE R == {r[i] : i \in 1..m}
             S == {s[i] : i \in 1..m}
  <2> HIDE DEF r, m
  <2>5. ASSUME NEW t \in R PROVE t \in S
    <3>1. PICK i \in 1..m : t = r[i]
      OBVIOUS
    <3> QED BY <2>4, <3>1
  <2>6. ASSUME NEW t \in S PROVE t \in R
    <3>1. PICK i \in 1..m : t = s[i]
      OBVIOUS
    <3> QED BY <2>4, <3>1
  <2>7. R = S
    <3> HIDE DEF R, S
    <3> QED BY <2>5, <2>6
  <2> QED BY <2>3, <2>7
<1>4. Ascends(r)
  <2>1. ASSUME NEW i \in 1..m, NEW j \in 1..m, i < j PROVE r[i] < r[j]
    <3>1. m + 1 - i \in 1..m /\ m + 1 - j \in 1..m /\ m + 1 - j < m + 1 - i
      BY <1>1, <2>1
    <3>2. s[m + 1 - j] > s[m + 1 - i] /\ s[m + 1 - j] \in Int /\ s[m + 1 - i] \in Int
      BY <3>1 DEF Descends
    <3> QED BY <3>2
  <2> QED BY <2>1 DEF Ascends
<1>5. InOrder(s) = CHOOSE t \in [DOMAIN s -> Times(s)] : Right(t)
  BY DEF InOrder
<1>6. Right(r)
  BY <1>3, <1>4
<1> HIDE DEF Right, r
<1>7. InOrder(s) \in [DOMAIN s -> Times(s)] /\ Right(InOrder(s))
  BY <1>2, <1>5, <1>6
<1>8. InOrder(s) \in [1..m -> Int]
  <2>1. Times(s) \subseteq Int
    BY <1>1 DEF Times
  <2> QED BY <1>1, <1>7, <2>1
<1> QED
  BY <1>1, <1>7, <1>8 DEF Right

\* Without its newest candle, a sorted list keeps the rows after the first.
LEMMA WithoutNewest ==
    ASSUME NEW s \in Seq(Int), Descends(s), Len(s) >= 1
    PROVE  /\ Front(InOrder(s)) \in Seq(Int) /\ Ascends(Front(InOrder(s)))
           /\ Times(Front(InOrder(s))) = {s[j] : j \in 2..Len(s)}
<1> DEFINE m == Len(s)
           r == InOrder(s)
           f == Front(InOrder(s))
<1>1. /\ m \in Nat /\ m >= 1 /\ r \in Seq(Int) /\ Len(r) = m
      /\ Times(r) = Times(s) /\ Ascends(r)
      /\ DOMAIN r = 1..m /\ DOMAIN s = 1..m /\ Len(s) = m
  BY Sorting
<1> HIDE DEF r, m
<1>2. /\ f \in Seq(Int) /\ DOMAIN f = 1..(m - 1) /\ Len(f) = m - 1
      /\ \A i \in 1..(m - 1) : f[i] = r[i]
  BY <1>1 DEF Front, r
<1>3. \A i \in 1..m : r[i] \in Int /\ s[i] \in Int
  BY <1>1
<1>4. \A i, j \in 1..m : i < j => r[i] < r[j]
  BY <1>1 DEF Ascends
<1>5. {r[i] : i \in 1..m} = {s[i] : i \in 1..m}
  BY <1>1 DEF Times
<1>6. \A i \in 1..m : \E j \in 1..m : r[i] = s[j]
  BY <1>5
<1>7. \A j \in 1..m : \E i \in 1..m : r[i] = s[j]
  BY <1>5
<1>8. r[m] = s[1]
  <2>0. 1 \in 1..m /\ m \in 1..m
    BY <1>1
  <2>1. PICK k \in 1..m : r[k] = s[1]
    BY <1>7, <2>0
  <2>2. PICK l \in 1..m : r[m] = s[l]
    BY <1>6, <2>0
  <2>3. s[l] <= s[1]
    <3>1. CASE l = 1
      BY <1>3, <2>0, <3>1
    <3>2. CASE l # 1
      <4>1. 1 < l
        BY <2>2, <3>2
      <4>2. s[1] > s[l]
        BY <1>1, <2>0, <4>1 DEF Descends
      <4> QED BY <1>3, <2>0, <4>2
    <3> QED BY <3>1, <3>2
  <2>4. r[k] <= r[m]
    <3>1. CASE k = m
      BY <1>3, <2>0, <3>1
    <3>2. CASE k # m
      <4>1. k < m
        BY <1>1, <2>1, <3>2
      <4>2. r[k] < r[m] /\ r[k] \in Int /\ r[m] \in Int
        BY <1>3, <1>4, <2>0, <4>1
      <4> HIDE DEF m
      <4> QED BY <4>2
    <3> QED BY <3>1, <3>2
  <2>5. r[k] \in Int /\ r[m] \in Int /\ s[1] \in Int /\ s[l] \in Int
    BY <1>3, <2>0
  <2> HIDE DEF m
  <2> QED
    BY <2>1, <2>2, <2>3, <2>4, <2>5
<1>9. ASSUME NEW i \in 1..(m - 1) PROVE \E j \in 2..m : r[i] = s[j]
  <2>1. i \in 1..m /\ m \in 1..m /\ i < m
    BY <1>1
  <2>2. PICK j \in 1..m : r[i] = s[j]
    BY <1>6, <2>1
  <2>3. r[i] < s[1] /\ r[i] \in Int /\ s[1] \in Int
    BY <1>1, <1>3, <1>4, <1>8, <2>1
  <2>4. j # 1
    BY <2>2, <2>3
  <2> QED BY <2>2, <2>4
<1>10. ASSUME NEW j \in 2..m PROVE \E i \in 1..(m - 1) : r[i] = s[j]
  <2>1. j \in 1..m /\ 1 \in 1..m /\ 1 < j
    BY <1>1
  <2>2. PICK i \in 1..m : r[i] = s[j]
    BY <1>7, <2>1
  <2>3. s[j] < s[1] /\ s[j] \in Int /\ s[1] \in Int
    BY <1>1, <1>3, <2>1 DEF Descends
  <2>4. i # m
    BY <1>8, <2>2, <2>3
  <2>5. i \in 1..(m - 1)
    BY <1>1, <2>4
  <2> QED BY <2>2, <2>5
<1> HIDE DEF f
<1>11. Ascends(f)
  <2>1. \A i \in 1..(m - 1) : i \in 1..m
    BY <1>1
  <2>2. \A i, j \in 1..(m - 1) : i < j => f[i] < f[j]
    BY <1>2, <1>4, <2>1
  <2> QED BY <1>2, <2>2 DEF Ascends
<1>12. Times(f) = {r[i] : i \in 1..(m - 1)}
  BY <1>2 DEF Times
<1>13. Times(f) = {s[j] : j \in 2..m}
  <2> HIDE DEF m
  <2> QED BY <1>9, <1>10, <1>12
<1> QED
  BY <1>2, <1>11, <1>13 DEF f, r, m

----------------------------------------------------------------------------
(* The inductive invariant                                                 *)

Kept(dataset) == Times(file[dataset])

Stages == {"none", "search", "read", "returned", "out_of_range", "crashed"}

\* The datasets that have their entries.
Entered == Len(call.datasets) - Len(todo)

\* The entries are those promised, and what is left to do is the rest.
Progress ==
    /\ call \in Calls
    /\ todo \in Seq(Datasets) /\ Len(todo) <= Len(call.datasets)
    /\ \A i \in 1..Len(todo) : todo[i] = call.datasets[Entered + i]
    /\ DOMAIN result = {call.datasets[i] : i \in 1..Entered}
    /\ \A dataset \in DOMAIN result :
          LET entry == result[dataset]
          IN  /\ Abstract!OutcomeFor(call, Kept(dataset)) = "returned"
              /\ (IF entry = None THEN None ELSE Times(entry))
                    = Abstract!Given(call, Kept(dataset))

IsRow(b, t) == b \in 0..(Len(file[Dataset]) - 1) /\ file[Dataset][b + 1] = t

\* The search is for a bound of the lookup in the dataset in work.
LooksForBound ==
    /\ a = file[Dataset]
    /\ \/ bounds = <<>> /\ x = call.begin
       \/ /\ call.kind = "range" /\ x = call.end
          /\ Len(bounds) = 1 /\ IsRow(bounds[1], call.begin)

\* The read begins with the rows that were found.
HasBounds ==
    /\ IsRow(bounds[1], call.begin)
    /\ call.kind = "range" => IsRow(bounds[2], call.end)

ReaderInvariant ==
    /\ file \in Files /\ reversed = TRUE /\ SearchInvariant
    /\ stage \in Stages /\ bounds \in Seq(Int)
    /\ stage \in {"search", "read", "returned"} => Progress
    /\ stage \in {"search", "read"} => todo # <<>>
    /\ stage = "search" => LooksForBound
    /\ stage = "read" => HasBounds
    /\ stage = "returned" => todo = <<>>
    /\ EntriesAscend

----------------------------------------------------------------------------
(* What the invariant says of a lookup under way                           *)

LEMMA FileTypes ==
    ASSUME file \in Files, NEW dataset \in Datasets
    PROVE  file[dataset] \in Seq(Int) /\ Descends(file[dataset])
BY FileAssumption DEF Descends

LEMMA CallTypes ==
    ASSUME NEW c \in Calls
    PROVE  /\ c.kind \in {"candles", "history", "range"}
           /\ c.datasets \in Seq(Datasets) /\ Len(c.datasets) \in Nat /\ Len(c.datasets) >= 1
           /\ c.datasets[1] \in Datasets
           /\ c.begin \in Int /\ c.end \in Int /\ c.count \in Nat
           /\ c.kind = "range" => Len(c.datasets) = 1 /\ c.begin <= c.end
BY LookupAssumption

\* The dataset in work is the first without an entry.
LEMMA WorkTypes ==
    ASSUME Progress, todo # <<>>
    PROVE  /\ Entered \in Nat /\ Entered + 1 \in 1..Len(call.datasets)
           /\ Dataset = call.datasets[Entered + 1] /\ Dataset \in Datasets
           /\ Dataset = todo[1] /\ Len(todo) \in Nat /\ Len(todo) >= 1
<1>1. /\ todo \in Seq(Datasets) /\ Len(todo) <= Len(call.datasets)
      /\ Len(call.datasets) \in Nat
      /\ \A i \in 1..Len(todo) : todo[i] = call.datasets[Entered + i]
  BY CallTypes DEF Progress
<1>2. Len(todo) \in Nat /\ Len(todo) >= 1 /\ Dataset = todo[1] /\ Dataset \in Datasets
  BY <1>1 DEF Dataset
<1> QED
  BY <1>1, <1>2 DEF Entered

\* A search in a dataset begins with the invariant of searches.
LEMMA BeginKeeps ==
    ASSUME NEW list \in Seq(Int), Descends(list), NEW value \in Int, Begin(list, value),
           reversed = TRUE, reversed' = reversed
    PROVE  SearchInvariant'
<1>1. /\ a' = list /\ x' = value /\ low' = 0 /\ high' = Len(list) - 1 /\ index' = None
      /\ reversed' = TRUE
  BY DEF Begin
<1>2. SearchTypeOK'
  BY <1>1 DEF SearchTypeOK
<1>3. Sorted(a)'
  BY <1>1 DEF Sorted, Comes, Descends
<1>4. Enclosed'
  BY <1>1, WholeListEncloses DEF Enclosed
<1>5. FindsWhatIsThere'
  BY <1>1 DEF FindsWhatIsThere
<1> QED
  BY <1>2, <1>3, <1>4, <1>5 DEF SearchInvariant

\* What a search has found is the row of the time it looked for.
LEMMA FoundRow ==
    ASSUME SearchInvariant, index \notin {None, -1}, a = file[Dataset]
    PROVE  IsRow(index, x) /\ index \in Int
BY DEF SearchInvariant, FindsWhatIsThere, IsRow

LEMMA NothingFound ==
    ASSUME SearchInvariant, index = -1
    PROVE  x \notin Times(a)
<1>1. index # None
  BY NoneAssumption
<1>2. a \in Seq(Int) /\ DOMAIN a = 1..Len(a)
  BY DEF SearchInvariant, SearchTypeOK
<1>3. ~\E i \in 1..Len(a) : a[i] = x
  BY <1>1, <1>2 DEF SearchInvariant, FindsWhatIsThere
<1> QED
  BY <1>2, <1>3 DEF Times

\* The pair in work decides the outcome if it fails, as those before it have not.
LEMMA FailureDecides ==
    ASSUME Progress, todo # <<>>, Abstract!OutcomeFor(call, Kept(Dataset)) # "returned"
    PROVE  Abstract!Outcome(call) = Abstract!OutcomeFor(call, Kept(Dataset))
<1> DEFINE n == Len(call.datasets)
           k == Entered + 1
           of(i) == Abstract!OutcomeFor(call, Kept(call.datasets[i]))
           Fails(i) == of(i) # "returned" /\ \A j \in 1..(i - 1) : of(j) = "returned"
<1>1. /\ n \in Nat /\ k \in 1..n /\ Entered \in Nat /\ DOMAIN call.datasets = 1..n
      /\ \A i \in 1..n : call.datasets[i] \in Datasets
      /\ Dataset = call.datasets[k]
  BY WorkTypes, CallTypes DEF Progress
<1>2. \A i \in 1..n :
         Abstract!OutcomeFor(call, [dataset \in Datasets |-> Times(file[dataset])][call.datasets[i]])
            = of(i)
  BY <1>1 DEF Kept
<1>3. Abstract!Outcome(call) =
         IF \A i \in 1..n : of(i) = "returned" THEN "returned"
         ELSE of(CHOOSE i \in 1..n : Fails(i))
  <2> DEFINE stores == [dataset \in Datasets |-> Times(file[dataset])]
             off(i) == Abstract!OutcomeFor(call, stores[call.datasets[i]])
             Failing(i) == off(i) # "returned" /\ \A j \in 1..(i - 1) : off(j) = "returned"
  <2>1. Abstract!Outcome(call) =
           IF \A i \in 1..n : off(i) = "returned" THEN "returned"
           ELSE off(CHOOSE i \in 1..n : Failing(i))
    BY <1>1 DEF Abstract!Outcome
  <2>2. \A i \in 1..n : off(i) = of(i)
    BY <1>2
  <2>3. \A i \in 1..n : Failing(i) <=> Fails(i)
    <3>1. \A i \in 1..n : \A j \in 1..(i - 1) : j \in 1..n
      BY <1>1
    <3> HIDE DEF of, off, n
    <3> QED BY <2>2, <3>1
  <2>4. Fails(k)
    <3>1. of(k) # "returned"
      BY <1>1
    <3>2. ASSUME NEW j \in 1..(k - 1) PROVE of(j) = "returned"
      BY <1>1, <3>2 DEF Progress
    <3> QED BY <3>1, <3>2
  <2>5. (CHOOSE i \in 1..n : Failing(i)) = (CHOOSE i \in 1..n : Fails(i))
    <3> HIDE DEF Failing, Fails, n
    <3> QED BY <2>3
  <2>6. (CHOOSE i \in 1..n : Fails(i)) \in 1..n
    <3> HIDE DEF Fails, n, k
    <3> QED BY <1>1, <2>4
  <2> HIDE DEF of, off, n, Failing, Fails
  <2> QED BY <2>1, <2>2, <2>5, <2>6
<1>4. of(k) # "returned"
  BY <1>1
<1>5. \A j \in 1..(k - 1) : of(j) = "returned"
  BY <1>1 DEF Progress
<1>6. ASSUME NEW i \in 1..n, Fails(i) PROVE i = k
  <2>1. ~(k < i)
    <3>1. k < i => k \in 1..(i - 1)
      BY <1>1
    <3> QED BY <1>4, <1>6, <3>1
  <2>2. ~(i < k)
    <3>1. i < k => i \in 1..(k - 1)
      BY <1>1
    <3> QED BY <1>5, <1>6, <3>1
  <2> HIDE DEF k, n, of
  <2> QED BY <1>1, <2>1, <2>2
<1>7. (CHOOSE i \in 1..n : Fails(i)) = k
  <2>1. Fails(k)
    BY <1>4, <1>5
  <2> HIDE DEF Fails, k, n
  <2> QED BY <1>1, <1>6, <2>1
<1> HIDE DEF n, k, of, Fails
<1>8. Abstract!Outcome(call) = of(k)
  BY <1>1, <1>3, <1>4, <1>7
<1> QED
  BY <1>1, <1>8 DEF of, k

----------------------------------------------------------------------------
(* The read                                                                *)

\* What a read that is possible returns is what was promised.
Promised(entry) ==
    /\ Abstract!OutcomeFor(call, Kept(Dataset)) = "returned"
    /\ (IF entry = None THEN None ELSE Times(entry)) = Abstract!Given(call, Kept(Dataset))
    /\ entry # None => Ascends(entry)

LEMMA SequencesAreEntries ==
    ASSUME NEW entry \in Seq(Int)
    PROVE  entry # None
BY NoEntryAssumption

\* One candle.
LEMMA ReadCandle ==
    ASSUME ReaderInvariant, stage = "read", call.kind = "candles"
    PROVE  CanRead /\ Promised(Rows)
<1> DEFINE s == file[Dataset]
           b == bounds[1]
<1>1. Progress /\ todo # <<>> /\ IsRow(b, call.begin) /\ call \in Calls
  BY DEF ReaderInvariant, HasBounds, Progress
<1>2. s \in Seq(Int) /\ Descends(s) /\ Kept(Dataset) = Times(s)
  BY <1>1, WorkTypes, FileTypes DEF ReaderInvariant, Kept
<1>3. b \in 0..(Len(s) - 1) /\ s[b + 1] = call.begin /\ Len(s) \in Nat
  BY <1>1, <1>2 DEF IsRow
<1>4. Start = b /\ Count = 1
  BY DEF Start, Count
<1>5. CanRead
  <2> HIDE DEF s, b
  <2> QED BY <1>3, <1>4 DEF CanRead, s
<1>6. Rows = InOrder(SubSeq(s, b + 1, b + 1))
  BY <1>4 DEF Rows
<1> HIDE DEF s, b
<1>7. PICK p \in Int : p = b + 1
  BY <1>3
<1>8. 1 <= p /\ p <= Len(s) /\ p <= p + 1
  BY <1>3, <1>7
<1>9. /\ SubSeq(s, p, p) \in Seq(Int) /\ Descends(SubSeq(s, p, p))
      /\ Times(SubSeq(s, p, p)) = {s[j] : j \in p..p}
  BY <1>2, <1>8, RowsRead
<1>10. Rows \in Seq(Int) /\ Times(Rows) = {s[j] : j \in p..p} /\ Ascends(Rows)
  BY <1>6, <1>7, <1>9, Sorting
<1>11. {s[j] : j \in p..p} = {call.begin}
  <2>1. p..p = {p}
    BY <1>7
  <2> QED BY <1>3, <1>7, <2>1
<1>12. call.begin \in Times(s)
  <2>1. p \in DOMAIN s
    BY <1>2, <1>8
  <2> QED BY <1>3, <1>7, <2>1 DEF Times
<1>13. /\ Abstract!Given(call, Kept(Dataset)) = {call.begin}
       /\ Abstract!OutcomeFor(call, Kept(Dataset)) = "returned"
  BY <1>2, <1>12 DEF Abstract!Given, Abstract!OutcomeFor
<1> QED
  BY <1>5, <1>10, <1>11, <1>13, SequencesAreEntries DEF Promised

\* A window.
LEMMA ReadWindow ==
    ASSUME ReaderInvariant, stage = "read", call.kind = "history"
    PROVE  /\ CanRead => Promised(Front(Rows))
           /\ ~CanRead => Abstract!OutcomeFor(call, Kept(Dataset)) = "crashed"
<1> DEFINE s == file[Dataset]
           b == bounds[1]
           n == call.count
<1>1. Progress /\ todo # <<>> /\ IsRow(b, call.begin) /\ call \in Calls /\ n \in Nat
  BY CallTypes DEF ReaderInvariant, HasBounds, Progress
<1>2. s \in Seq(Int) /\ Descends(s) /\ Kept(Dataset) = Times(s)
  BY <1>1, WorkTypes, FileTypes DEF ReaderInvariant, Kept
<1>3. b \in 0..(Len(s) - 1) /\ s[b + 1] = call.begin /\ Len(s) \in Nat
  BY <1>1, <1>2 DEF IsRow
<1>4. Start = b /\ Count = n + 1
  BY DEF Start, Count
<1>5. CanRead <=> b + 1 + n <= Len(s)
  <2>1. CanRead <=> b + (n + 1) <= Len(s)
    BY <1>4 DEF CanRead
  <2> HIDE DEF s, b, n
  <2> QED BY <1>1, <1>3, <2>1
<1>6. Rows = InOrder(SubSeq(s, b + 1, b + (n + 1)))
  BY <1>4 DEF Rows
<1>7. call.begin \in Times(s)
  <2>1. b + 1 \in DOMAIN s
    BY <1>2, <1>3
  <2> QED BY <1>3, <2>1 DEF Times
<1>8. Abstract!Given(call, Kept(Dataset)) = Abstract!Window(Times(s), call.begin, n)
  BY <1>2 DEF Abstract!Given
<1>9. Abstract!OutcomeFor(call, Kept(Dataset))
         = IF Abstract!Reaches(Times(s), call.begin, n) THEN "returned" ELSE "crashed"
  BY <1>2, <1>7 DEF Abstract!OutcomeFor
<1> HIDE DEF s, b, n
<1>10. Abstract!Reaches(Times(s), call.begin, n) <=> CanRead
  BY <1>1, <1>2, <1>3, <1>5, ReachesRows
<1>11. ASSUME CanRead PROVE Promised(Front(Rows))
  <2>1. PICK p \in Int : p = b + 1
    BY <1>3
  <2>2. PICK q \in Int : q = b + (n + 1)
    BY <1>1, <1>3
  <2>3. 1 <= p /\ q <= Len(s) /\ p <= q + 1 /\ q - p + 1 = n + 1
    <3>1. b \in Int /\ 0 <= b /\ n \in Int /\ 0 <= n /\ Len(s) \in Int
      BY <1>1, <1>3
    <3>2. b + 1 + n <= Len(s)
      BY <1>5, <1>11
    <3> QED BY <2>1, <2>2, <3>1, <3>2
  <2> DEFINE sub == SubSeq(s, p, q)
  <2>4. /\ sub \in Seq(Int) /\ Descends(sub) /\ Len(sub) = q - p + 1
        /\ \A j \in 1..(q - p + 1) : sub[j] = s[p + j - 1]
    BY <1>2, <2>3, RowsRead
  <2>5. Rows = InOrder(sub)
    BY <1>6, <2>1, <2>2
  <2> HIDE DEF sub
  <2>6. Len(sub) >= 1
    BY <1>1, <2>3, <2>4
  <2>7. /\ Front(Rows) \in Seq(Int) /\ Ascends(Front(Rows))
        /\ Times(Front(Rows)) = {sub[j] : j \in 2..Len(sub)}
    BY <2>4, <2>5, <2>6, WithoutNewest
  <2>8. {sub[j] : j \in 2..Len(sub)} = {s[j] : j \in (b + 2)..(b + 1 + n)}
    <3> DEFINE R == {sub[j] : j \in 2..Len(sub)}
               S == {s[j] : j \in (b + 2)..(b + 1 + n)}
    <3>1. ASSUME NEW t \in R PROVE t \in S
      <4>1. PICK j \in 2..Len(sub) : t = sub[j]
        OBVIOUS
      <4>2. j \in 1..(q - p + 1) /\ p + j - 1 \in (b + 2)..(b + 1 + n)
        BY <1>1, <1>3, <2>1, <2>3, <2>4
      <4> QED BY <2>4, <4>1, <4>2
    <3>2. ASSUME NEW t \in S PROVE t \in R
      <4>1. PICK j \in (b + 2)..(b + 1 + n) : t = s[j]
        OBVIOUS
      <4>2. PICK i \in Int : i = j - p + 1
        BY <2>1, <4>1
      <4>3. i \in 1..(q - p + 1) /\ i \in 2..Len(sub) /\ p + i - 1 = j
        BY <1>1, <1>3, <2>1, <2>3, <2>4, <4>2
      <4> QED BY <2>4, <4>1, <4>3
    <3> HIDE DEF R, S
    <3>3. R = S
      BY <3>1, <3>2
    <3> QED BY <3>3 DEF R, S
  <2>9. Abstract!Window(Times(s), call.begin, n) = {s[j] : j \in (b + 2)..(b + 1 + n)}
    BY <1>1, <1>2, <1>3, <1>5, <1>11, WindowRows
  <2> QED
    BY <1>8, <1>9, <1>10, <1>11, <2>7, <2>8, <2>9, SequencesAreEntries DEF Promised
<1> QED
  BY <1>9, <1>10, <1>11

\* A range, whose read is never too long.
LEMMA ReadRange ==
    ASSUME ReaderInvariant, stage = "read", call.kind = "range"
    PROVE  CanRead /\ Promised(Rows)
<1> DEFINE s == file[Dataset]
           b == bounds[1]
           e == bounds[2]
<1>1. /\ Progress /\ todo # <<>> /\ IsRow(b, call.begin) /\ IsRow(e, call.end)
      /\ call \in Calls /\ call.begin <= call.end
  BY CallTypes DEF ReaderInvariant, HasBounds, Progress
<1>2. s \in Seq(Int) /\ Descends(s) /\ Kept(Dataset) = Times(s)
  BY <1>1, WorkTypes, FileTypes DEF ReaderInvariant, Kept
<1>3. /\ b \in 0..(Len(s) - 1) /\ s[b + 1] = call.begin /\ Len(s) \in Nat
      /\ e \in 0..(Len(s) - 1) /\ s[e + 1] = call.end
  BY <1>1, <1>2 DEF IsRow
<1>4. Start = b - (b - e + 1) + 1 /\ Count = b - e + 1
  BY DEF Start, Count
<1>5. Kept(Dataset) \cap call.begin..call.end = Abstract!Given(call, Kept(Dataset))
  BY DEF Abstract!Given
<1>6. CanRead <=> Start + Count <= Len(s)
  BY DEF CanRead
<1>7. Rows = InOrder(SubSeq(s, Start + 1, Start + Count))
  BY DEF Rows
<1> HIDE DEF s, b, e
<1>8. /\ e <= b
      /\ Times(s) \cap call.begin..call.end = {s[j] : j \in (e + 1)..(b + 1)}
  BY <1>1, <1>2, <1>3, RangeRows
<1>9. PICK p \in Int : p = e + 1
  BY <1>3
<1>10. PICK q \in Int : q = b + 1
  BY <1>3
<1>11. 1 <= p /\ q <= Len(s) /\ p <= q + 1 /\ Start + 1 = p /\ Start + Count = q
  BY <1>3, <1>4, <1>8, <1>9, <1>10
<1>12. /\ SubSeq(s, p, q) \in Seq(Int) /\ Descends(SubSeq(s, p, q))
       /\ Times(SubSeq(s, p, q)) = {s[j] : j \in p..q}
  BY <1>2, <1>11, RowsRead
<1>13. Rows \in Seq(Int) /\ Times(Rows) = {s[j] : j \in p..q} /\ Ascends(Rows)
  BY <1>7, <1>11, <1>12, Sorting
<1>14. Times(Rows) = Abstract!Given(call, Kept(Dataset))
  BY <1>2, <1>5, <1>8, <1>9, <1>10, <1>13
<1>15. call.begin \in Times(s) /\ call.end \in Times(s)
  <2>1. b + 1 \in DOMAIN s /\ e + 1 \in DOMAIN s
    BY <1>2, <1>3
  <2> QED BY <1>3, <2>1 DEF Times
<1>16. Abstract!OutcomeFor(call, Kept(Dataset)) = "returned"
  BY <1>2, <1>15 DEF Abstract!OutcomeFor
<1> QED
  BY <1>6, <1>11, <1>13, <1>14, <1>16, SequencesAreEntries DEF Promised

----------------------------------------------------------------------------
(* The steps keep the invariant                                            *)

LEMMA DInitInvariant == DInit => ReaderInvariant
<1> SUFFICES ASSUME DInit PROVE ReaderInvariant
  OBVIOUS
<1>1. /\ file \in Files /\ reversed = TRUE /\ stage = "none" /\ bounds = <<>>
      /\ a = <<>> /\ x = 0 /\ low = 0 /\ high = -1 /\ index = -1
      /\ DOMAIN result = {}
  BY DEF DInit, NoEntries
<1>2. index # None
  BY <1>1, NoneAssumption
<1>3. SearchInvariant
  <2>1. SearchTypeOK
    BY <1>1 DEF SearchTypeOK
  <2>2. Sorted(a) /\ ~\E i \in 1..Len(a) : a[i] = x
    BY <1>1 DEF Sorted
  <2>3. FindsWhatIsThere
    BY <1>1, <2>2 DEF FindsWhatIsThere
  <2> QED BY <1>2, <2>1, <2>2, <2>3 DEF SearchInvariant
<1>4. EntriesAscend
  BY <1>1 DEF EntriesAscend
<1> QED
  BY <1>1, <1>3, <1>4 DEF ReaderInvariant, Stages

LEMMA CallKeeps ==
    ASSUME ReaderInvariant, NEW c \in Calls, Call(c)
    PROVE  ReaderInvariant' /\ stage' = "search" /\ call' = c /\ file' = file
<1>1. /\ stage' = "search" /\ call' = c /\ todo' = c.datasets /\ bounds' = <<>>
      /\ DOMAIN result' = {} /\ file' = file /\ reversed' = reversed
      /\ file \in Files /\ reversed = TRUE
  BY DEF Call, NoEntries, ReaderInvariant
<1>2. PICK list \in Seq(Int) : list = file[c.datasets[1]] /\ Descends(list)
  BY <1>1, CallTypes, FileTypes
<1>3. PICK value \in Int : value = c.begin
  BY CallTypes
<1>4. Begin(list, value)
  BY <1>2, <1>3 DEF Call
<1>5. SearchInvariant'
  BY <1>1, <1>2, <1>4, BeginKeeps
<1>6. Progress'
  <2>1. Entered' = 0
    BY <1>1, CallTypes DEF Entered
  <2>2. \A i \in 1..Len(todo)' : todo'[i] = call'.datasets[Entered' + i]
    BY <1>1, <2>1, CallTypes
  <2>3. DOMAIN result' = {call'.datasets[i] : i \in 1..Entered'}
    <3>1. 1..Entered' = {}
      BY <2>1
    <3> QED BY <1>1, <3>1
  <2>4. call' \in Calls /\ todo' \in Seq(Datasets) /\ Len(todo') <= Len(call'.datasets)
    BY <1>1, CallTypes
  <2>5. \A dataset \in DOMAIN result' : FALSE
    BY <1>1
  <2> QED BY <2>2, <2>3, <2>4, <2>5 DEF Progress
<1>7. LooksForBound'
  <2>1. Dataset' = c.datasets[1]
    BY <1>1, CallTypes DEF Dataset
  <2>2. a' = file'[Dataset'] /\ x' = call'.begin
    BY <1>1, <1>2, <1>3, <1>4, <2>1 DEF Begin
  <2> QED BY <1>1, <2>2 DEF LooksForBound
<1>8. EntriesAscend'
  BY <1>1 DEF EntriesAscend
<1>9. todo' # <<>>
  BY <1>1, CallTypes
<1> QED
  BY <1>1, <1>5, <1>6, <1>7, <1>8, <1>9 DEF ReaderInvariant, Stages

\* A pair that has its entry leaves the entries as they were promised.
LEMMA EnterProgresses ==
    ASSUME ReaderInvariant, stage \in {"search", "read"}, NEW entry, Enter(entry),
           Promised(entry)
    PROVE  Progress' /\ EntriesAscend'
<1>1. Progress /\ todo # <<>> /\ EntriesAscend
  BY DEF ReaderInvariant
<1>2. /\ file' = file /\ call' = call /\ todo' = Tail(todo)
      /\ result' = [dataset \in DOMAIN result \cup {Dataset} |->
                      IF dataset \in DOMAIN result THEN result[dataset] ELSE entry]
  BY DEF Enter
<1>3. /\ todo \in Seq(Datasets) /\ Len(todo) <= Len(call.datasets)
      /\ \A i \in 1..Len(todo) : todo[i] = call.datasets[Entered + i]
      /\ DOMAIN result = {call.datasets[i] : i \in 1..Entered}
      /\ call \in Calls /\ Len(call.datasets) \in Nat
  BY <1>1, CallTypes DEF Progress
<1>4. /\ Entered \in Nat /\ Dataset = call.datasets[Entered + 1]
      /\ Len(todo) \in Nat /\ Len(todo) >= 1
  BY <1>1, WorkTypes
<1>5. /\ todo' \in Seq(Datasets) /\ Len(todo') = Len(todo) - 1
      /\ \A i \in 1..(Len(todo) - 1) : todo'[i] = todo[i + 1]
  BY <1>2, <1>3, <1>4
<1>6. Entered' = Entered + 1
  BY <1>2, <1>3, <1>4, <1>5 DEF Entered
<1>7. \A i \in 1..Len(todo') : todo'[i] = call'.datasets[Entered' + i]
  <2> SUFFICES ASSUME NEW i \in 1..Len(todo') PROVE todo'[i] = call.datasets[Entered' + i]
    BY <1>2
  <2>1. i \in 1..(Len(todo) - 1) /\ i + 1 \in 1..Len(todo)
    BY <1>4, <1>5
  <2>2. Entered + (i + 1) = Entered' + i
    BY <1>4, <1>6, <2>1
  <2> QED BY <1>3, <1>5, <2>1, <2>2
<1>8. DOMAIN result' = {call'.datasets[i] : i \in 1..Entered'}
  <2>1. 1..Entered' = 1..Entered \cup {Entered + 1}
    BY <1>4, <1>6
  <2>2. DOMAIN result' = DOMAIN result \cup {Dataset}
    BY <1>2
  <2> DEFINE R == {call.datasets[i] : i \in 1..Entered} \cup {call.datasets[Entered + 1]}
             S == {call.datasets[i] : i \in 1..Entered'}
  <2>3. ASSUME NEW d \in R PROVE d \in S
    BY <2>1
  <2>4. ASSUME NEW d \in S PROVE d \in R
    BY <2>1
  <2>5. DOMAIN result' = R
    BY <1>3, <1>4, <2>2
  <2>6. R = S
    <3> HIDE DEF R, S
    <3> QED BY <2>3, <2>4
  <2> QED BY <1>2, <2>5, <2>6
<1>9. \A dataset : Kept(dataset)' = Kept(dataset)
  BY <1>2 DEF Kept
<1>10. ASSUME NEW dataset \in DOMAIN result'
       PROVE  /\ Abstract!OutcomeFor(call', Kept(dataset)') = "returned"
              /\ (IF result'[dataset] = None THEN None ELSE Times(result'[dataset]))
                    = Abstract!Given(call', Kept(dataset)')
              /\ result'[dataset] # None => Ascends(result'[dataset])
  <2>1. CASE dataset \in DOMAIN result
    <3>1. result'[dataset] = result[dataset]
      BY <1>2, <2>1
    <3>2. /\ Abstract!OutcomeFor(call, Kept(dataset)) = "returned"
          /\ (IF result[dataset] = None THEN None ELSE Times(result[dataset]))
                = Abstract!Given(call, Kept(dataset))
      BY <1>1, <2>1 DEF Progress
    <3>3. result[dataset] # None => Ascends(result[dataset])
      BY <1>1, <2>1 DEF EntriesAscend
    <3> QED BY <1>2, <1>9, <3>1, <3>2, <3>3
  <2>2. CASE dataset \notin DOMAIN result
    <3>1. dataset = Dataset /\ result'[dataset] = entry
      BY <1>2, <1>10, <2>2
    <3> QED BY <1>2, <1>9, <3>1 DEF Promised
  <2> QED BY <2>1, <2>2
<1>11. EntriesAscend'
  BY <1>10 DEF EntriesAscend
<1>12. Progress'
  <2>1. call' \in Calls /\ Len(todo') <= Len(call'.datasets)
    BY <1>2, <1>3, <1>4, <1>5
  <2> QED BY <1>5, <1>7, <1>8, <1>10, <2>1 DEF Progress
<1> QED
  BY <1>11, <1>12

LEMMA EnterKeeps ==
    ASSUME ReaderInvariant, stage \in {"search", "read"}, NEW entry, Enter(entry),
           Promised(entry)
    PROVE  /\ ReaderInvariant' /\ stage' \in {"search", "returned"}
           /\ file' = file /\ call' = call
<1>1. /\ Progress /\ todo # <<>> /\ SearchInvariant /\ reversed = TRUE
      /\ file \in Files /\ call \in Calls /\ todo \in Seq(Datasets)
  BY DEF ReaderInvariant, Progress
<1>2. /\ file' = file /\ call' = call /\ todo' = Tail(todo) /\ bounds' = <<>>
      /\ bounds' \in Seq(Int)
  BY DEF Enter
<1>3. Progress' /\ EntriesAscend'
  BY EnterProgresses
<1>4. CASE Tail(todo) = <<>>
  <2>1. stage' = "returned" /\ UNCHANGED searchVars
    BY <1>4 DEF Enter
  <2>2. SearchInvariant' /\ reversed' = TRUE
    BY <1>1, <2>1, SearchStutterKeepsInvariant DEF searchVars
  <2> QED BY <1>1, <1>2, <1>3, <1>4, <2>1, <2>2 DEF ReaderInvariant, Stages
<1>5. CASE Tail(todo) # <<>>
  <2>1. /\ stage' = "search" /\ Begin(file[todo[2]], call.begin)
        /\ reversed' = reversed
    BY <1>5 DEF Enter
  <2>2. todo[2] \in Datasets /\ Head(Tail(todo)) = todo[2]
    <3>1. Len(todo) \in Nat /\ Len(todo) >= 2
      BY <1>1, <1>5
    <3> QED BY <1>1, <3>1
  <2>3. PICK list \in Seq(Int) : list = file[todo[2]] /\ Descends(list)
    BY <1>1, <2>2, FileTypes
  <2>4. PICK value \in Int : value = call.begin
    BY <1>1, CallTypes
  <2>5. Begin(list, value)
    BY <2>1, <2>3, <2>4
  <2>6. SearchInvariant'
    BY <1>1, <2>1, <2>3, <2>5, BeginKeeps
  <2>7. LooksForBound'
    <3>1. Dataset' = todo[2]
      BY <1>2, <2>2 DEF Dataset
    <3>2. a' = file'[Dataset'] /\ x' = call'.begin
      BY <1>2, <2>3, <2>4, <2>5, <3>1 DEF Begin
    <3> QED BY <1>2, <3>2 DEF LooksForBound
  <2> QED BY <1>1, <1>2, <1>3, <1>5, <2>1, <2>6, <2>7 DEF ReaderInvariant, Stages
<1> QED
  BY <1>4, <1>5

\* What a step of a lookup under way does to what History knows: it goes on,
\* returns, or fails the way the dataset in work does.
Moves ==
    /\ stage \in {"search", "read"} /\ file' = file /\ call' = call
    /\ \/ stage' \in {"search", "read", "returned"}
       \/ /\ stage' \in {"out_of_range", "crashed"}
          /\ stage' = Abstract!OutcomeFor(call, Kept(Dataset))

\* A failure that is thrown keeps the rest.
LEMMA FailureKeeps ==
    ASSUME ReaderInvariant, stage \in {"search", "read"}, NEW failure,
           failure \in {"out_of_range", "crashed"}, stage' = failure,
           UNCHANGED <<searchVars, file, call, todo, bounds, result>>,
           Abstract!OutcomeFor(call, Kept(Dataset)) = failure
    PROVE  ReaderInvariant' /\ Moves
<1>1. SearchInvariant' /\ reversed' = TRUE /\ file' \in Files /\ bounds' \in Seq(Int)
  BY SearchStutterKeepsInvariant DEF ReaderInvariant, searchVars
<1>2. EntriesAscend'
  BY DEF ReaderInvariant, EntriesAscend
<1>3. Moves
  BY DEF Moves
<1>4. stage' \in Stages /\ stage' \notin {"search", "read", "returned"}
  BY DEF Stages
<1> QED
  BY <1>1, <1>2, <1>3, <1>4 DEF ReaderInvariant

LEMMA EntryMoves ==
    ASSUME ReaderInvariant, stage \in {"search", "read"}, NEW entry, Enter(entry),
           Promised(entry)
    PROVE  ReaderInvariant' /\ Moves
BY EnterKeeps DEF Moves

LEMMA SearchTimeKeeps ==
    ASSUME ReaderInvariant, SearchTime
    PROVE  ReaderInvariant' /\ Moves
<1>1. /\ stage = "search" /\ Search /\ SearchInvariant /\ Progress /\ todo # <<>>
      /\ LooksForBound /\ reversed = TRUE /\ EntriesAscend
      /\ file \in Files /\ bounds \in Seq(Int)
  BY DEF ReaderInvariant, SearchTime
<1>2. /\ stage' = "search" /\ file' = file /\ call' = call /\ todo' = todo
      /\ bounds' = bounds /\ result' = result
  BY <1>1 DEF SearchTime, lookup
<1>3. a' = a /\ x' = x /\ reversed' = reversed
  BY <1>1 DEF Search, SearchRight, SearchLeft, Hit, Miss
<1>4. SearchInvariant'
  BY <1>1, SearchKeepsInvariant
<1>5. Progress'
  BY <1>1, <1>2 DEF Progress, Entered, Kept
<1>6. LooksForBound'
  BY <1>1, <1>2, <1>3 DEF LooksForBound, IsRow, Dataset
<1>7. EntriesAscend'
  BY <1>1, <1>2 DEF EntriesAscend
<1>8. Moves
  BY <1>1, <1>2 DEF Moves
<1> QED
  BY <1>1, <1>2, <1>3, <1>4, <1>5, <1>6, <1>7, <1>8 DEF ReaderInvariant, Stages

\* The time that is missing is one the lookup needs.
LEMMA NotFoundKeeps ==
    ASSUME ReaderInvariant, NotFound
    PROVE  ReaderInvariant' /\ Moves
<1>1. /\ stage = "search" /\ Progress /\ todo # <<>> /\ LooksForBound /\ call \in Calls
      /\ Throw("out_of_range")
  BY DEF ReaderInvariant, NotFound, Progress
<1>2. x \notin Kept(Dataset)
  BY <1>1, NothingFound DEF ReaderInvariant, NotFound, LooksForBound, Kept
<1>3. x = call.begin \/ (call.kind = "range" /\ x = call.end)
  BY <1>1 DEF LooksForBound
<1>4. CASE call.kind = "candles"
  <2>1. Enter(None)
    BY <1>1, <1>4 DEF Throw
  <2>2. Promised(None)
    BY <1>2, <1>3, <1>4 DEF Promised, Abstract!OutcomeFor, Abstract!Given
  <2> QED BY <1>1, <2>1, <2>2, EntryMoves
<1>5. CASE call.kind # "candles"
  <2>1. /\ stage' = "out_of_range"
        /\ UNCHANGED <<searchVars, file, call, todo, bounds, result>>
    BY <1>1, <1>5 DEF Throw
  <2>2. call.kind \in {"history", "range"}
    BY <1>1, <1>5, CallTypes
  <2>3. Abstract!OutcomeFor(call, Kept(Dataset)) = "out_of_range"
    BY <1>2, <1>3, <2>2 DEF Abstract!OutcomeFor
  <2> QED BY <1>1, <2>1, <2>3, FailureKeeps
<1> QED
  BY <1>4, <1>5

LEMMA Appended ==
    ASSUME NEW S, NEW list \in Seq(S), NEW k \in S
    PROVE  /\ \A i \in 1..Len(list) : Append(list, k)[i] = list[i]
           /\ Append(list, k)[Len(list) + 1] = k
<1>1. ASSUME NEW i \in 1..Len(list) PROVE Append(list, k)[i] = list[i]
  <2>1. i # Len(list) + 1 /\ i \in 1..(Len(list) + 1)
    OBVIOUS
  <2> QED BY <2>1
<1>2. Append(list, k)[Len(list) + 1] = k
  OBVIOUS
<1> QED
  BY <1>1, <1>2

LEMMA SecondBound ==
    ASSUME NEW list \in Seq(Int), Len(list) = 1, NEW k \in Int
    PROVE  Append(list, k)[1] = list[1] /\ Append(list, k)[2] = k
<1>1. /\ \A i \in 1..Len(list) : Append(list, k)[i] = list[i]
      /\ Append(list, k)[Len(list) + 1] = k
  BY Appended
<1>2. 1 \in 1..Len(list) /\ Len(list) + 1 = 2
  OBVIOUS
<1> QED
  BY <1>1, <1>2

LEMMA FoundTimeKeeps ==
    ASSUME ReaderInvariant, FoundTime
    PROVE  ReaderInvariant' /\ Moves
<1>1. /\ stage = "search" /\ Progress /\ todo # <<>> /\ LooksForBound /\ call \in Calls
      /\ SearchInvariant /\ reversed = TRUE /\ EntriesAscend
      /\ file \in Files /\ bounds \in Seq(Int)
  BY DEF ReaderInvariant, Progress, FoundTime
<1>2. /\ bounds' = Append(bounds, index) /\ file' = file /\ call' = call
      /\ todo' = todo /\ result' = result
  BY DEF FoundTime
<1>3. a = file[Dataset] /\ IsRow(index, x) /\ index \in Int
  BY <1>1, FoundRow DEF FoundTime, LooksForBound
<1>4. /\ \A b, t : IsRow(b, t)' <=> IsRow(b, t)
      /\ Dataset' = Dataset
  BY <1>2 DEF IsRow, Dataset
<1>5. Progress' /\ EntriesAscend' /\ bounds' \in Seq(Int)
  <2>1. Progress'
    BY <1>1, <1>2 DEF Progress, Entered, Kept
  <2>2. EntriesAscend'
    BY <1>1, <1>2 DEF EntriesAscend
  <2> QED BY <1>1, <1>2, <1>3, <2>1, <2>2
<1>6. CASE call.kind = "range" /\ bounds = <<>>
  <2>1. stage' = "search" /\ Begin(a, call.end) /\ reversed' = reversed
    BY <1>1, <1>6 DEF FoundTime
  <2>2. PICK list \in Seq(Int) : list = a /\ Descends(list)
    BY <1>1, <1>3, WorkTypes, FileTypes
  <2>3. PICK value \in Int : value = call.end
    BY <1>1, CallTypes
  <2>4. Begin(list, value)
    BY <2>1, <2>2, <2>3
  <2>5. SearchInvariant'
    BY <1>1, <2>1, <2>2, <2>4, BeginKeeps
  <2>6. x = call.begin
    BY <1>1, <1>6 DEF LooksForBound
  <2>7. Len(bounds') = 1 /\ bounds'[1] = index
    BY <1>2, <1>6
  <2>8. a' = file'[Dataset'] /\ x' = call'.end
    BY <1>2, <1>3, <1>4, <2>2, <2>3, <2>4 DEF Begin
  <2>9. LooksForBound'
    BY <1>2, <1>3, <1>4, <1>6, <2>6, <2>7, <2>8 DEF LooksForBound
  <2>10. Moves
    BY <1>1, <1>2, <2>1 DEF Moves
  <2> QED
    BY <1>1, <1>2, <1>5, <2>1, <2>5, <2>9, <2>10 DEF ReaderInvariant, Stages
<1>7. CASE ~(call.kind = "range" /\ bounds = <<>>)
  <2>1. stage' = "read" /\ UNCHANGED searchVars
    BY <1>7 DEF FoundTime
  <2>2. SearchInvariant' /\ reversed' = TRUE
    BY <1>1, <2>1, SearchStutterKeepsInvariant DEF searchVars
  <2>3. IsRow(bounds'[1], call.begin) /\ (call.kind = "range" => IsRow(bounds'[2], call.end))
    <3>1. CASE bounds = <<>>
      <4>1. x = call.begin /\ call.kind # "range" /\ bounds'[1] = index
        BY <1>1, <1>2, <1>7, <3>1 DEF LooksForBound
      <4> QED BY <1>3, <4>1
    <3>2. CASE bounds # <<>>
      <4>1. x = call.end /\ Len(bounds) = 1 /\ IsRow(bounds[1], call.begin)
        BY <1>1, <3>2 DEF LooksForBound
      <4>2. bounds'[1] = bounds[1] /\ bounds'[2] = index
        BY <1>1, <1>2, <1>3, <4>1, SecondBound
      <4> QED BY <1>3, <4>1, <4>2
    <3> QED BY <3>1, <3>2
  <2>5. HasBounds'
    BY <1>2, <1>4, <2>3 DEF HasBounds
  <2>6. Moves
    BY <1>1, <1>2, <2>1 DEF Moves
  <2> QED
    BY <1>1, <1>2, <1>5, <2>1, <2>2, <2>5, <2>6 DEF ReaderInvariant, Stages
<1> QED
  BY <1>6, <1>7

LEMMA ReadKeeps ==
    ASSUME ReaderInvariant, Read
    PROVE  ReaderInvariant' /\ Moves
<1>1. stage = "read" /\ CanRead /\ call \in Calls
  BY DEF Read, ReaderInvariant, Progress
<1>2. CASE call.kind = "history"
  <2>1. Enter(Front(Rows))
    BY <1>2 DEF Read
  <2> QED BY <1>1, <1>2, <2>1, ReadWindow, EntryMoves
<1>3. CASE call.kind # "history"
  <2>1. Enter(Rows)
    BY <1>3 DEF Read
  <2>2. Promised(Rows)
    BY <1>1, <1>3, CallTypes, ReadCandle, ReadRange
  <2> QED BY <1>1, <2>1, <2>2, EntryMoves
<1> QED
  BY <1>2, <1>3

\* Only a window can be too long to be read.
LEMMA ReadFailsKeeps ==
    ASSUME ReaderInvariant, ReadFails
    PROVE  ReaderInvariant' /\ Moves
<1>1. stage = "read" /\ ~CanRead /\ call \in Calls
  BY DEF ReadFails, ReaderInvariant, Progress
<1>2. call.kind = "history"
  BY <1>1, CallTypes, ReadCandle, ReadRange
<1>3. /\ stage' = "crashed"
      /\ UNCHANGED <<searchVars, file, call, todo, bounds, result>>
  BY <1>2 DEF ReadFails, Throw
<1>4. Abstract!OutcomeFor(call, Kept(Dataset)) = "crashed"
  BY <1>1, <1>2, ReadWindow
<1> QED
  BY <1>1, <1>3, <1>4, FailureKeeps

LEMMA LookupMoves ==
    ASSUME ReaderInvariant, Lookup
    PROVE  ReaderInvariant' /\ Moves
BY SearchTimeKeeps, NotFoundKeeps, FoundTimeKeeps, ReadKeeps, ReadFailsKeeps DEF Lookup

LEMMA StutterKeeps ==
    ASSUME ReaderInvariant, UNCHANGED vars
    PROVE  ReaderInvariant'
<1>1. /\ UNCHANGED searchVars /\ file' = file /\ stage' = stage /\ call' = call
      /\ todo' = todo /\ bounds' = bounds /\ result' = result
      /\ a' = a /\ x' = x /\ reversed' = reversed
  BY DEF vars, lookup, searchVars
<1>2. SearchInvariant'
  BY <1>1, SearchStutterKeepsInvariant DEF ReaderInvariant
<1>3. Progress' <=> Progress
  BY <1>1 DEF Progress, Entered, Kept
<1>4. (LooksForBound' <=> LooksForBound) /\ (HasBounds' <=> HasBounds)
  BY <1>1 DEF LooksForBound, HasBounds, IsRow, Dataset
<1>5. EntriesAscend' <=> EntriesAscend
  BY <1>1 DEF EntriesAscend
<1> QED
  BY <1>1, <1>2, <1>3, <1>4, <1>5 DEF ReaderInvariant

THEOREM ReaderIsInvariant == DSpec => []ReaderInvariant
<1>1. ReaderInvariant /\ [DNext]_vars => ReaderInvariant'
  <2> SUFFICES ASSUME ReaderInvariant, [DNext]_vars PROVE ReaderInvariant'
    OBVIOUS
  <2>1. CASE \E c \in Calls : Call(c)
    BY <2>1, CallKeeps
  <2>2. CASE Lookup
    BY <2>2, LookupMoves
  <2>3. CASE UNCHANGED vars
    BY <2>3, StutterKeeps
  <2> QED BY <2>1, <2>2, <2>3 DEF DNext, Lookup
<1> QED
  BY <1>1, DInitInvariant, PTL DEF DSpec

\* Whatever the file and the lookup, each of the searches of a lookup finds the
\* row of a time that is in the dataset, and only that (time_index, data.cpp).
THEOREM LookupsFindTheirTimes == DSpec => []FindsWhatIsThere
<1>1. ReaderInvariant => FindsWhatIsThere
  BY DEF ReaderInvariant, SearchInvariant
<1> QED
  BY <1>1, ReaderIsInvariant, PTL

\* No search of a lookup reads outside of the times of its dataset.
THEOREM LookupsReadInside == DSpec => []ReadsInside
<1>1. ReaderInvariant => ReadsInside
  BY MidIsInside DEF ReaderInvariant, ReadsInside
<1> QED
  BY <1>1, ReaderIsInvariant, PTL

\* Every entry a lookup returns has its oldest candle first, in whatever order
\* the rows were read (history_data_, data.cpp).
THEOREM EntriesAreInOrder == DSpec => []EntriesAscend
<1>1. ReaderInvariant => EntriesAscend
  BY DEF ReaderInvariant
<1> QED
  BY <1>1, ReaderIsInvariant, PTL

----------------------------------------------------------------------------
(* The steps are those of History                                          *)

\* The file stays what History has stored, and the lookup what it was asked.
LEMMA SameStore ==
    ASSUME file' = file
    PROVE  [dataset \in Datasets |-> Times(file[dataset])]'
              = [dataset \in Datasets |-> Times(file[dataset])]
OBVIOUS

\* With an entry for each of its datasets, a lookup returns what it was asked for.
LEMMA ReturnAnswers ==
    ASSUME ReaderInvariant', Moves, stage' = "returned"
    PROVE  Abstract!Answer
<1> DEFINE n == Len(call.datasets)
           stores == [dataset \in Datasets |-> Times(file[dataset])]
           asked == {call.datasets[i] : i \in DOMAIN call.datasets}
<1>1. /\ file' = file /\ call' = call /\ stage \in {"search", "read"}
      /\ Progress' /\ todo' = <<>>
  BY DEF Moves, ReaderInvariant
<1>2. call \in Calls /\ n \in Nat /\ DOMAIN call.datasets = 1..n
  BY <1>1, CallTypes DEF Progress
<1>3. Entered' = n
  BY <1>1, <1>2 DEF Entered
<1>4. DOMAIN result' = asked
  BY <1>1, <1>2, <1>3 DEF Progress
<1>5. \A i \in 1..n : call.datasets[i] \in Datasets
  BY <1>2, CallTypes
<1>6. \A dataset \in asked : dataset \in Datasets /\ stores[dataset] = Kept(dataset)
  BY <1>2, <1>5 DEF Kept
<1>7. \A dataset \in asked :
         /\ Abstract!OutcomeFor(call, Kept(dataset)) = "returned"
         /\ (IF result'[dataset] = None THEN None ELSE Times(result'[dataset]))
               = Abstract!Given(call, Kept(dataset))
  BY <1>1, <1>4 DEF Progress, Kept
<1>8. Abstract!Outcome(call) = "returned"
  <2>1. \A i \in DOMAIN call.datasets :
           Abstract!OutcomeFor(call, stores[call.datasets[i]]) = "returned"
    BY <1>6, <1>7
  <2> QED BY <2>1 DEF Abstract!Outcome
<1>9. [dataset \in DOMAIN result' |->
         IF result'[dataset] = None THEN None ELSE Times(result'[dataset])]
        = [dataset \in asked |-> Abstract!Given(call, stores[dataset])]
  BY <1>4, <1>6, <1>7
<1>10. stores' = stores
  BY <1>1
<1> QED
  BY <1>1, <1>8, <1>9, <1>10 DEF Abstract!Answer

\* A lookup that fails does so with the failure that decides.
LEMMA FailureAnswers ==
    ASSUME ReaderInvariant, Moves, stage' \in {"out_of_range", "crashed"},
           stage' = Abstract!OutcomeFor(call, Kept(Dataset))
    PROVE  Abstract!Answer
<1>1. /\ file' = file /\ call' = call /\ stage \in {"search", "read"}
      /\ Progress /\ todo # <<>>
  BY DEF Moves, ReaderInvariant
<1>2. Abstract!Outcome(call) = stage'
  BY <1>1, FailureDecides
<1>3. stage' \notin {"search", "read", "returned"}
  OBVIOUS
<1> QED
  BY <1>1, <1>2, <1>3, SameStore DEF Abstract!Answer, NoEntries, Abstract!NoEntries

LEMMA BusyStutters ==
    ASSUME ReaderInvariant, Moves, stage' \in {"search", "read"}
    PROVE  UNCHANGED Abstract!historyVars
<1>1. /\ file' = file /\ call' = call /\ stage \in {"search", "read"}
  BY DEF Moves
<1> QED
  BY <1>1, SameStore DEF Abstract!historyVars, NoEntries

LEMMA CallAsks ==
    ASSUME ReaderInvariant, NEW c \in Calls, Call(c)
    PROVE  Abstract!Ask(c)
<1>1. stage' = "search" /\ call' = c /\ file' = file
  BY CallKeeps
<1>2. stage \notin {"search", "read", "crashed", "busy"}
  BY DEF Call, ReaderInvariant, Stages
<1> QED
  BY <1>1, <1>2, SameStore DEF Abstract!Ask, NoEntries, Abstract!NoEntries

\* Each lookup of the file, with all its searches and reads, is one step of the
\* history it stands for: the answer is the newest candles before the tick and
\* no later one, a range with both its ends, or the failure of the first pair
\* that fails (candlestick_data, history_data, history_data_date_range).
THEOREM LookupsImplementHistory ==
    DSpec => Abstract!HInit /\ [][Abstract!HNext]_(Abstract!historyVars)
<1>1. DInit => Abstract!HInit
  BY DEF DInit, Abstract!HInit, NoEntries, Abstract!NoEntries
<1>2. ReaderInvariant /\ ReaderInvariant' /\ [DNext]_vars
        => [Abstract!HNext]_(Abstract!historyVars)
  <2> SUFFICES ASSUME ReaderInvariant, ReaderInvariant', [DNext]_vars
               PROVE  Abstract!HNext \/ UNCHANGED Abstract!historyVars
    OBVIOUS
  <2>1. CASE \E c \in Calls : Call(c)
    BY <2>1, CallAsks DEF Abstract!HNext
  <2>2. CASE Lookup
    <3>1. Moves
      BY <2>2, LookupMoves
    <3>2. CASE stage' \in {"search", "read"}
      BY <3>1, <3>2, BusyStutters
    <3>3. CASE stage' = "returned"
      BY <3>1, <3>3, ReturnAnswers DEF Abstract!HNext
    <3>4. CASE stage' \in {"out_of_range", "crashed"}
      BY <3>1, <3>4, FailureAnswers DEF Abstract!HNext, Moves
    <3> QED BY <3>1, <3>2, <3>3, <3>4 DEF Moves
  <2>3. CASE UNCHANGED vars
    BY <2>3 DEF vars, lookup, Abstract!historyVars, NoEntries
  <2> QED BY <2>1, <2>2, <2>3 DEF DNext, Lookup
<1> QED
  BY <1>1, <1>2, ReaderIsInvariant, PTL DEF DSpec
==============================================================================
