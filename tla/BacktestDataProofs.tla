-------------------------- MODULE BacktestDataProofs --------------------------
(***************************************************************************)
(* Proofs about the backtest and its history: for every file, clock and    *)
(* division of the time frames, time moves forward only, the strategy      *)
(* never sees the future and misses nothing of the past, a gap in the      *)
(* history costs the rest of its long tick and no more, and too little     *)
(* history stops the backtest where it begins.                             *)
(***************************************************************************)
EXTENDS BacktestData, NaturalsInduction, FiniteSetTheorems, TLAPS

InnerFrames == {"intermediate", "short", "simulate"}

\* The window loops that are open around a loop.
Enclosing ==
    [long |-> {}, intermediate |-> {"long"}, short |-> {"long", "intermediate"},
     simulate |-> WindowFrames]

Stored(pair, frame) == stored[<<pair, frame>>]

Types ==
    /\ stored \in Histories /\ clock \in Clocks
    /\ loop \in Frames \cup {"done", "crashed"}
    /\ at \in [Frames -> Nat]
    /\ windows = [frame \in WindowFrames |-> windows[frame]]
    /\ ticks \in Seq(Int)

\* The open loops have not ended.
Positions ==
    loop \in Frames =>
        /\ at[loop] <= Iterations(loop)
        /\ \A frame \in Enclosing[loop] : at[frame] < Iterations(frame)

\* What was asked for is what the loop needs next.
Pending ==
    asked /\ loop \in Frames =>
        /\ at[loop] < Iterations(loop)
        /\ call = IF loop = "simulate" THEN CandlesOf(loop) ELSE HistoryOf(loop)
        /\ outcome # "busy" => outcome = Outcome(call)
        /\ outcome = "returned" =>
              given = [dataset \in {call.datasets[i] : i \in DOMAIN call.datasets} |->
                          Given(call, stored[dataset])]

\* The open loops have the windows of their ticks.
OpenWindows ==
    loop \in Frames =>
        \A frame \in Enclosing[loop], pair \in ToSet(Pairs) :
            /\ TickOf(frame) \in Stored(pair, frame)
            /\ Reaches(Stored(pair, frame), TickOf(frame), HistDataCount)
            /\ windows[frame][<<pair, frame>>] =
                  Window(Stored(pair, frame), TickOf(frame), HistDataCount)

ShownTick ==
    shown # None =>
        /\ loop = "simulate" /\ ~asked /\ at["simulate"] >= 1
        /\ shown.tick = ShortTick + (at["simulate"] - 1) * Length["simulate"]
        /\ shown.pairs \subseteq ToSet(Pairs)

\* There is a tick to come.
InRange == loop \in Frames /\ at["long"] < Len(clock)

TicksBehind ==
    /\ \A i, j \in 1..Len(ticks) : i < j => ticks[i] < ticks[j]
    /\ InRange => \A i \in 1..Len(ticks) : ticks[i] < TickOf(loop)

\* A time frame that had a window has one ever after.
KnownHistory ==
    \A frame \in WindowFrames :
        windows[frame] # None =>
            \E t \in Int :
                /\ InRange => t <= TickOf(loop)
                /\ \A pair \in ToSet(Pairs) : Reaches(Stored(pair, frame), t, HistDataCount)

Ended == (loop = "crashed" => outcome = "crashed") /\ (loop = "done" => ~asked)

DataInvariant ==
    /\ Types /\ Positions /\ Pending /\ OpenWindows /\ ShownTick
    /\ TicksBehind /\ KnownHistory /\ Ended /\ CrashesOnlyAtTheStart

----------------------------------------------------------------------------
(* Sets of times                                                           *)

\* Later times have as much history.
LEMMA ReachesLater ==
    ASSUME NEW S \in SUBSET Int, IsFiniteSet(S), NEW n \in Nat,
           NEW t \in Int, NEW u \in Int, t <= u, Reaches(S, t, n)
    PROVE  Reaches(S, u, n)
<1> DEFINE T == {v \in S : v < t}
           U == {v \in S : v < u}
<1>1. IsFiniteSet(U) /\ T \in SUBSET U
  <2>1. U \in SUBSET S
    OBVIOUS
  <2>2. ASSUME NEW v \in T PROVE v \in U
    OBVIOUS
  <2> HIDE DEF U, T
  <2> QED BY <2>1, <2>2, FS_Subset
<1>2. Cardinality(T) <= Cardinality(U) /\ Cardinality(T) \in Nat /\ Cardinality(U) \in Nat
  BY <1>1, FS_Subset, FS_CardinalityType
<1>3. Cardinality(T) >= n
  BY DEF Reaches
<1>4. Cardinality(U) >= n
  <2> HIDE DEF T, U
  <2> QED BY <1>2, <1>3
<1> QED
  BY <1>4 DEF Reaches

\* Between an earlier time and t lie more times than between a later one and t.
LEMMA FewerAfter ==
    ASSUME NEW S \in SUBSET Int, IsFiniteSet(S), NEW t \in Int,
           NEW u \in Int, NEW w \in Int, u <= w
    PROVE  /\ Cardinality({v \in S : u < v /\ v < t}) \in Nat
           /\ Cardinality({v \in S : w < v /\ v < t}) \in Nat
           /\ Cardinality({v \in S : w < v /\ v < t}) <= Cardinality({v \in S : u < v /\ v < t})
           /\ u < w /\ w \in S /\ w < t =>
                 Cardinality({v \in S : w < v /\ v < t}) # Cardinality({v \in S : u < v /\ v < t})
<1> DEFINE A == {v \in S : w < v /\ v < t}
           B == {v \in S : u < v /\ v < t}
<1>1. IsFiniteSet(B) /\ A \in SUBSET B
  <2>1. B \in SUBSET S
    OBVIOUS
  <2>2. ASSUME NEW v \in A PROVE v \in B
    OBVIOUS
  <2> HIDE DEF A, B
  <2> QED BY <2>1, <2>2, FS_Subset
<1>2. /\ IsFiniteSet(A) /\ Cardinality(A) <= Cardinality(B)
      /\ Cardinality(B) = Cardinality(A) => B = A
  BY <1>1, FS_Subset
<1>3. Cardinality(A) \in Nat /\ Cardinality(B) \in Nat
  BY <1>1, <1>2, FS_CardinalityType
<1>4. u < w /\ w \in S /\ w < t => w \in B /\ w \notin A
  OBVIOUS
<1>5. u < w /\ w \in S /\ w < t => Cardinality(A) # Cardinality(B)
  BY <1>2, <1>4
<1> QED
  BY <1>2, <1>3, <1>5

\* A window that is reached has its full size.
LEMMA WindowSize ==
    ASSUME NEW S \in SUBSET Int, IsFiniteSet(S), NEW n \in Nat, NEW t \in Int,
           Reaches(S, t, n)
    PROVE  Cardinality(Window(S, t, n)) = n
<1> DEFINE P == {u \in S : u < t}
           After(u) == {v \in S : u < v /\ v < t}
           rank == [u \in P |-> Cardinality(After(u))]
           m == Cardinality(P)
           W == Window(S, t, n)
           g == [u \in W |-> rank[u]]
<1>1. IsFiniteSet(P) /\ m \in Nat /\ m >= n
  BY FS_Subset, FS_CardinalityType DEF Reaches
<1>2. ASSUME NEW u \in P PROVE rank[u] \in 0..(m - 1)
  <2>1. IsFiniteSet(P \ {u}) /\ Cardinality(P \ {u}) = m - 1
    BY <1>1, FS_RemoveElement
  <2>2. After(u) \in SUBSET (P \ {u})
    OBVIOUS
  <2>3. IsFiniteSet(After(u)) /\ Cardinality(After(u)) <= Cardinality(P \ {u})
    BY <2>1, <2>2, FS_Subset
  <2>4. Cardinality(After(u)) \in Nat
    BY <2>3, FS_CardinalityType
  <2>5. rank[u] = Cardinality(After(u))
    OBVIOUS
  <2> HIDE DEF m, P, After, rank
  <2> QED
    BY <1>1, <2>1, <2>3, <2>4, <2>5
<1>3. ASSUME NEW u \in P, NEW w \in P, rank[u] = rank[w] PROVE u = w
  <2>1. ASSUME NEW p \in P, NEW q \in P, p < q PROVE rank[p] # rank[q]
    <3>1. p \in Int /\ q \in Int /\ q \in S /\ q < t
      OBVIOUS
    <3>2. Cardinality(After(q)) # Cardinality(After(p))
      BY <2>1, <3>1, FewerAfter
    <3> QED
      BY <3>2
  <2>2. u \in Int /\ w \in Int
    OBVIOUS
  <2> HIDE DEF rank, P
  <2> QED
    BY <2>1, <2>2, <1>3
<1>4. rank \in Injection(P, 0..(m - 1))
  <2>1. rank \in [P -> 0..(m - 1)]
    BY <1>2
  <2> HIDE DEF rank, P, m
  <2> QED BY <2>1, <1>3 DEF Injection, IsInjective
<1>5. IsFiniteSet(0..(m - 1)) /\ Cardinality(0..(m - 1)) = m
  <2> HIDE DEF m
  <2> QED BY <1>1, FS_Interval
<1>6. rank \in Surjection(P, 0..(m - 1))
  <2> HIDE DEF rank, P
  <2> QED BY <1>4, <1>5, FS_Injection
<1>7. W = {u \in P : rank[u] < n}
  BY DEF Window
<1>8. g \in Bijection(W, 0..(n - 1))
  <2> HIDE DEF rank, P, m, W
  <2>1. \A u \in W : u \in P /\ rank[u] \in 0..(m - 1) /\ rank[u] < n
    BY <1>2, <1>7
  <2>2. g \in [W -> 0..(n - 1)]
    BY <2>1, <1>1
  <2>3. \A u, w \in W : g[u] = g[w] => u = w
    BY <2>1, <1>3
  <2>4. ASSUME NEW r \in 0..(n - 1) PROVE \E u \in W : g[u] = r
    <3>1. r \in 0..(m - 1)
      BY <1>1
    <3>2. PICK u \in P : rank[u] = r
      BY <3>1, <1>6 DEF Surjection
    <3>3. u \in W
      BY <3>2, <1>7
    <3> QED BY <3>2, <3>3
  <2> HIDE DEF g
  <2> QED BY <2>2, <2>3, <2>4 DEF Bijection, Injection, Surjection, IsInjective
<1>9. IsFiniteSet(W)
  BY <1>1, <1>7, FS_Subset
<1>10. Cardinality(0..(n - 1)) = Cardinality(W)
  <2> HIDE DEF g, W
  <2> QED BY <1>8, <1>9, FS_Bijection DEF ExistsBijection
<1>11. Cardinality(0..(n - 1)) = n
  BY FS_Interval
<1> QED
  BY <1>10, <1>11

\* What a window leaves out is older than all of it.
LEMMA WindowIsNewest ==
    ASSUME NEW S \in SUBSET Int, IsFiniteSet(S), NEW n \in Nat, NEW t \in Int,
           NEW u \in S, u < t, u \notin Window(S, t, n), NEW w \in Window(S, t, n)
    PROVE  u < w
<1> DEFINE After(x) == Cardinality({v \in S : x < v /\ v < t})
<1>1. u \in Int /\ w \in Int /\ w \in S /\ After(w) < n /\ ~(After(u) < n)
  BY DEF Window
<1>2. ASSUME w <= u PROVE After(u) <= After(w)
  BY <1>1, <1>2, FewerAfter
<1>3. After(u) \in Nat /\ After(w) \in Nat
  <2>1. u <= u /\ w <= w
    BY <1>1
  <2> QED BY <1>1, <2>1, FewerAfter
<1> HIDE DEF After
<1> QED
  BY <1>1, <1>2, <1>3

----------------------------------------------------------------------------
(* The answer of a lookup                                                  *)

\* A lookup returns if all of its datasets do, and fails as one of them does.
LEMMA FirstFailure ==
    ASSUME NEW c, NEW m \in Nat, DOMAIN c.datasets = 1..m
    PROVE  \/ /\ Outcome(c) = "returned"
              /\ \A i \in 1..m : OutcomeFor(c, stored[c.datasets[i]]) = "returned"
           \/ /\ Outcome(c) # "returned"
              /\ \E i \in 1..m : Outcome(c) = OutcomeFor(c, stored[c.datasets[i]])
<1> DEFINE of(i) == OutcomeFor(c, stored[c.datasets[i]])
           Fails(i) == of(i) # "returned" /\ \A j \in 1..(i - 1) : of(j) = "returned"
           T == {i \in 1..m : of(i) # "returned"}
<1>1. CASE T = {}
  BY <1>1 DEF Outcome
<1>2. CASE T # {}
  <2>1. T \subseteq Nat
    OBVIOUS
  <2>2. PICK i \in T : \A j \in T : ~(<<j, i>> \in OpToRel(<, Nat))
    <3> HIDE DEF T
    <3> QED BY <1>2, <2>1, WFMin, NatLessThanWellFounded
  <2>3. ASSUME NEW j \in 1..(i - 1) PROVE of(j) = "returned"
    <3>1. j \in 1..m /\ j < i /\ j \in Nat /\ i \in Nat
      OBVIOUS
    <3>2. <<j, i>> \in OpToRel(<, Nat)
      BY <3>1 DEF OpToRel
    <3>3. j \notin T
      BY <2>2, <3>2
    <3> QED BY <3>1, <3>3
  <2>4. \E k \in 1..m : Fails(k)
    BY <2>3
  <2>5. Outcome(c) = of(CHOOSE k \in 1..m : Fails(k))
    BY <1>2 DEF Outcome
  <2>6. (CHOOSE k \in 1..m : Fails(k)) \in 1..m /\ Fails(CHOOSE k \in 1..m : Fails(k))
    <3> HIDE DEF Fails
    <3> QED BY <2>4
  <2> QED
    BY <2>5, <2>6
<1> QED
  BY <1>1, <1>2

----------------------------------------------------------------------------
(* The ticks of the loops                                                  *)

LEMMA Scale ==
    ASSUME NEW a \in Int, NEW b \in Int, NEW l \in Nat, a <= b
    PROVE  a * l <= b * l
OBVIOUS

\* A time frame that is divided into another is filled by its iterations.
LEMMA Division ==
    ASSUME NEW m \in Nat \ {0}, NEW l \in Nat \ {0}, m % l = 0
    PROVE  m \div l \in Nat /\ (m \div l) * l = m
OBVIOUS

LEMMA Filled ==
    ASSUME NEW m \in Nat \ {0}, NEW l \in Nat \ {0}, m % l = 0, NEW k \in Nat
    PROVE  /\ m \div l \in Nat /\ k * l \in Nat
           /\ k <= m \div l => k * l <= m
           /\ k = m \div l => k * l = m
           /\ k < m \div l => k * l + l <= m
           /\ (k + 1) * l = k * l + l
<1>1. m \div l \in Nat /\ (m \div l) * l = m
  BY Division
<1>2. /\ k * l \in Nat
      /\ k <= m \div l => k * l <= (m \div l) * l
      /\ k + 1 <= m \div l => (k + 1) * l <= (m \div l) * l
      /\ (k + 1) * l = k * l + l
  BY <1>1, Scale
<1> QED
  BY <1>1, <1>2

LEMMA LengthTypes ==
    ASSUME NEW frame \in Frames
    PROVE  Length[frame] \in Nat \ {0}
BY FrameAssumption

LEMMA FrameNames ==
    /\ Frames = {"long", "intermediate", "short", "simulate"}
    /\ \A frame \in InnerFrames :
          frame \in Frames /\ Outer[frame] \in WindowFrames /\ Outer[frame] \in Frames
    /\ \A frame \in WindowFrames : frame \in Frames /\ Inner[frame] \in InnerFrames
    /\ Outer["intermediate"] = "long" /\ Outer["short"] = "intermediate"
    /\ Outer["simulate"] = "short"
    /\ Inner["long"] = "intermediate" /\ Inner["intermediate"] = "short"
    /\ Inner["short"] = "simulate"
    /\ Frames \ {"long"} = InnerFrames
    /\ Enclosing["long"] = {} /\ Enclosing["intermediate"] = {"long"}
    /\ Enclosing["short"] = {"long", "intermediate"}
    /\ Enclosing["simulate"] = {"long", "intermediate", "short"}
BY DEF Frames, WindowFrames, InnerFrames, Outer, Inner, Enclosing

LEMMA TickNames ==
    /\ TickOf("long") = LongTick /\ TickOf("intermediate") = IntermediateTick
    /\ TickOf("short") = ShortTick /\ TickOf("simulate") = SimulateTick
BY DEF TickOf

LEMMA TickTypes ==
    ASSUME Types, at["long"] < Len(clock)
    PROVE  /\ clock \in Seq(Int) /\ at["long"] \in Nat
           /\ \A frame \in Frames : TickOf(frame) \in Int /\ at[frame] \in Nat
<1>1. /\ clock \in Seq(Int) /\ at \in [Frames -> Nat]
  BY DataAssumption DEF Types
<1>2. LongTick \in Int
  BY <1>1, FrameNames DEF LongTick
<1>3. \A k \in Nat, l \in Nat : k * l \in Nat
  OBVIOUS
<1>4. /\ at["intermediate"] * Length["intermediate"] \in Nat
      /\ at["short"] * Length["short"] \in Nat
      /\ at["simulate"] * Length["simulate"] \in Nat
  BY <1>1, <1>3, LengthTypes, FrameNames
<1>5. IntermediateTick \in Int
  BY <1>2, <1>4 DEF IntermediateTick
<1>6. ShortTick \in Int
  BY <1>4, <1>5 DEF ShortTick
<1>7. SimulateTick \in Int
  BY <1>4, <1>6 DEF SimulateTick
<1> QED
  BY <1>1, <1>2, <1>5, <1>6, <1>7, TickNames, FrameNames

\* The tick of a loop lies in the one around it.
LEMMA TickInside ==
    ASSUME Types, at["long"] < Len(clock), NEW frame \in InnerFrames
    PROVE  /\ Iterations(frame) \in Nat
           /\ TickOf(frame) = TickOf(Outer[frame]) + at[frame] * Length[frame]
           /\ TickOf(Outer[frame]) <= TickOf(frame)
           /\ at[frame] <= Iterations(frame) =>
                 TickOf(frame) <= TickOf(Outer[frame]) + Length[Outer[frame]]
           /\ at[frame] = Iterations(frame) =>
                 TickOf(frame) = TickOf(Outer[frame]) + Length[Outer[frame]]
           /\ at[frame] < Iterations(frame) =>
                 TickOf(frame) + Length[frame] <= TickOf(Outer[frame]) + Length[Outer[frame]]
           /\ TickOf(Outer[frame]) + (at[frame] + 1) * Length[frame]
                 = TickOf(frame) + Length[frame]
<1>1. TickOf(frame) = TickOf(Outer[frame]) + at[frame] * Length[frame]
  BY TickNames, FrameNames DEF InnerFrames, IntermediateTick, ShortTick, SimulateTick
<1>2. Iterations(frame) = Length[Outer[frame]] \div Length[frame]
  BY DEF Iterations, InnerFrames
<1>3. Length[Outer[frame]] % Length[frame] = 0
  BY FrameAssumption, FrameNames DEF InnerFrames, WindowFrames
<1>4. /\ frame \in Frames /\ Outer[frame] \in Frames
      /\ Length[frame] \in Nat \ {0} /\ Length[Outer[frame]] \in Nat \ {0}
  BY FrameNames, LengthTypes
<1>5. at[frame] \in Nat /\ TickOf(Outer[frame]) \in Int
  BY <1>4, TickTypes
<1>6. /\ Length[Outer[frame]] \div Length[frame] \in Nat
      /\ at[frame] * Length[frame] \in Nat
      /\ at[frame] <= Iterations(frame) => at[frame] * Length[frame] <= Length[Outer[frame]]
      /\ at[frame] = Iterations(frame) => at[frame] * Length[frame] = Length[Outer[frame]]
      /\ at[frame] < Iterations(frame) =>
            at[frame] * Length[frame] + Length[frame] <= Length[Outer[frame]]
      /\ (at[frame] + 1) * Length[frame] = at[frame] * Length[frame] + Length[frame]
  <2> DEFINE m == Length[Outer[frame]]
             l == Length[frame]
             k == at[frame]
  <2>1. /\ m \in Nat \ {0} /\ l \in Nat \ {0} /\ k \in Nat /\ m % l = 0
        /\ Iterations(frame) = m \div l
    BY <1>2, <1>3, <1>4, <1>5
  <2> HIDE DEF m, l, k
  <2>2. /\ m \div l \in Nat /\ k * l \in Nat
        /\ k <= m \div l => k * l <= m
        /\ k = m \div l => k * l = m
        /\ k < m \div l => k * l + l <= m
        /\ (k + 1) * l = k * l + l
    BY <2>1, Filled
  <2> QED
    BY <2>1, <2>2 DEF m, l, k
<1> DEFINE t == TickOf(Outer[frame])
           m == Length[Outer[frame]]
           l == Length[frame]
           k == at[frame]
           kl == at[frame] * Length[frame]
           next == (at[frame] + 1) * Length[frame]
           q == Iterations(frame)
<1>7. /\ t \in Int /\ m \in Nat /\ l \in Nat /\ k \in Nat /\ kl \in Nat /\ q \in Nat
      /\ TickOf(frame) = t + kl /\ next = kl + l
      /\ k <= q => kl <= m
      /\ k = q => kl = m
      /\ k < q => kl + l <= m
  BY <1>1, <1>2, <1>4, <1>5, <1>6
<1> HIDE DEF t, m, l, k, kl, q, next
<1>8. /\ q \in Nat
      /\ TickOf(frame) = t + kl
      /\ t <= TickOf(frame)
      /\ k <= q => TickOf(frame) <= t + m
      /\ k = q => TickOf(frame) = t + m
      /\ k < q => TickOf(frame) + l <= t + m
      /\ t + next = TickOf(frame) + l
  BY <1>7
<1> QED
  BY <1>8 DEF t, m, l, k, kl, q, next

\* The tick of a loop lies in those of all the loops around it.
LEMMA TickEnclosed ==
    ASSUME Types, Positions, InRange, at[loop] < Iterations(loop),
           NEW frame \in Enclosing[loop]
    PROVE  /\ frame \in WindowFrames
           /\ TickOf(frame) \in Int /\ TickOf(loop) \in Int
           /\ TickOf(frame) <= TickOf(loop)
           /\ TickOf(loop) + Length[loop] <= TickOf(frame) + Length[frame]
<1>1. /\ loop \in Frames /\ at["long"] < Len(clock)
      /\ \A f \in Enclosing[loop] : at[f] < Iterations(f)
  BY DEF InRange, Positions
<1>2. \A f \in Frames : TickOf(f) \in Int /\ Length[f] \in Nat
  BY <1>1, TickTypes, LengthTypes
<1>3. ASSUME NEW f \in InnerFrames, at[f] < Iterations(f)
      PROVE  /\ TickOf(Outer[f]) <= TickOf(f)
             /\ TickOf(f) + Length[f] <= TickOf(Outer[f]) + Length[Outer[f]]
  BY <1>1, <1>3, TickInside
<1>4. loop # "long" /\ frame \in WindowFrames /\ loop \in InnerFrames
  BY <1>1, FrameNames DEF WindowFrames, InnerFrames
<1>5. /\ TickOf(Outer[loop]) <= TickOf(loop)
      /\ TickOf(loop) + Length[loop] <= TickOf(Outer[loop]) + Length[Outer[loop]]
  BY <1>3, <1>4
<1>6. CASE frame = Outer[loop]
  BY <1>1, <1>2, <1>4, <1>5, <1>6, FrameNames
<1>7. CASE loop = "short" /\ frame = "long"
  <2>1. /\ TickOf("long") <= TickOf("intermediate")
        /\ TickOf("intermediate") + Length["intermediate"] <= TickOf("long") + Length["long"]
    BY <1>1, <1>3, <1>7, FrameNames DEF InnerFrames
  <2> QED
    BY <1>2, <1>4, <1>5, <1>7, <2>1, FrameNames
<1>8. CASE loop = "simulate" /\ frame = "intermediate"
  <2>1. /\ TickOf("intermediate") <= TickOf("short")
        /\ TickOf("short") + Length["short"] <= TickOf("intermediate") + Length["intermediate"]
    BY <1>1, <1>3, <1>8, FrameNames DEF InnerFrames
  <2> QED
    BY <1>2, <1>4, <1>5, <1>8, <2>1, FrameNames
<1>9. CASE loop = "simulate" /\ frame = "long"
  <2>1. /\ TickOf("intermediate") <= TickOf("short")
        /\ TickOf("short") + Length["short"] <= TickOf("intermediate") + Length["intermediate"]
    BY <1>1, <1>3, <1>9, FrameNames DEF InnerFrames
  <2>2. /\ TickOf("long") <= TickOf("intermediate")
        /\ TickOf("intermediate") + Length["intermediate"] <= TickOf("long") + Length["long"]
    BY <1>1, <1>3, <1>9, FrameNames DEF InnerFrames
  <2> QED
    BY <1>2, <1>4, <1>5, <1>9, <2>1, <2>2, FrameNames
<1> QED
  BY <1>1, <1>6, <1>7, <1>8, <1>9, FrameNames

\* The tick of a loop depends on its own iteration and on those around it.
LEMMA SameTick ==
    ASSUME NEW frame \in Frames, clock' = clock, at'[frame] = at[frame],
           \A f \in Enclosing[frame] : at'[f] = at[f]
    PROVE  TickOf(frame)' = TickOf(frame) /\ Iterations(frame)' = Iterations(frame)
<1>1. Iterations(frame)' = Iterations(frame)
  BY DEF Iterations
<1>2. CASE frame = "long"
  BY <1>1, <1>2, TickNames DEF TickOf, LongTick
<1>3. CASE frame = "intermediate"
  BY <1>1, <1>3, FrameNames DEF TickOf, IntermediateTick, LongTick
<1>4. CASE frame = "short"
  BY <1>1, <1>4, FrameNames DEF TickOf, ShortTick, IntermediateTick, LongTick
<1>5. CASE frame = "simulate"
  BY <1>1, <1>5, FrameNames DEF TickOf, SimulateTick, ShortTick, IntermediateTick, LongTick
<1> QED
  BY <1>2, <1>3, <1>4, <1>5, FrameNames

\* The next iteration of a loop begins a candle later, or after hours.
LEMMA NextTick ==
    ASSUME Types, at["long"] < Len(clock), NEW frame \in Frames, clock' = clock,
           at' = [at EXCEPT ![frame] = @ + 1],
           frame = "long" => at["long"] + 1 < Len(clock)
    PROVE  /\ TickOf(frame)' \in Int
           /\ TickOf(frame) + Length[frame] <= TickOf(frame)'
           /\ frame # "long" => TickOf(frame)' = TickOf(frame) + Length[frame]
<1>1. /\ at \in [Frames -> Nat] /\ clock \in Seq(Int) /\ clock \in Clocks
      /\ \A f \in Frames : TickOf(f) \in Int /\ at[f] \in Nat /\ Length[f] \in Nat
  BY TickTypes, LengthTypes DEF Types
<1>2. CASE frame = "long"
  <2> DEFINE n == at["long"]
  <2>1. /\ n \in Nat /\ n + 1 < Len(clock) /\ at'["long"] = n + 1 /\ Len(clock) \in Nat
    BY <1>1, <1>2, FrameNames
  <2>2. TickOf(frame) = clock[n + 1] /\ TickOf(frame)' = clock[n + 2]
    BY <1>2, <2>1, TickNames DEF TickOf, LongTick
  <2>3. n + 2 \in 2..Len(clock) /\ (n + 2) - 1 = n + 1
    BY <2>1
  <2>4. clock[n + 1] + Length["long"] <= clock[n + 2] /\ clock[n + 2] \in Int
    BY <1>1, <2>1, <2>3, SpacingAssumption
  <2> QED
    BY <1>2, <2>2, <2>4
<1>3. CASE frame \in InnerFrames
  <2> DEFINE o == Outer[frame]
  <2>1. /\ o \in Frames /\ o # frame /\ \A f \in Enclosing[o] : f # frame /\ f \in Frames
    BY <1>3, FrameNames DEF InnerFrames
  <2>2. at'[frame] = at[frame] + 1 /\ at'[o] = at[o] /\ \A f \in Enclosing[o] : at'[f] = at[f]
    BY <1>1, <2>1
  <2>3. TickOf(o)' = TickOf(o)
    <3> HIDE DEF o
    <3> QED BY <2>1, <2>2, SameTick
  <2>4. TickOf(frame)' = TickOf(o)' + at'[frame] * Length[frame]
    BY <1>3, TickNames, FrameNames
       DEF InnerFrames, TickOf, IntermediateTick, ShortTick, SimulateTick
  <2>5. TickOf(o) + (at[frame] + 1) * Length[frame] = TickOf(frame) + Length[frame]
    BY <1>3, TickInside
  <2>6. TickOf(frame)' = TickOf(frame) + Length[frame]
    BY <2>2, <2>3, <2>4, <2>5
  <2> QED
    BY <1>1, <2>6
<1> QED
  BY <1>2, <1>3, FrameNames

----------------------------------------------------------------------------
(* The history                                                             *)

LEMMA StoredTypes ==
    ASSUME Types, NEW pair \in ToSet(Pairs), NEW frame \in Frames
    PROVE  /\ Stored(pair, frame) \in SUBSET Int /\ IsFiniteSet(Stored(pair, frame))
           /\ \A u, v \in Stored(pair, frame) : u < v => u + Length[frame] <= v
BY DataAssumption, SpacingAssumption DEF Types, Stored

LEMMA NamesTypes ==
    ASSUME NEW frame
    PROVE  /\ Len(Pairs) \in Nat /\ DOMAIN NamesOf(frame) = 1..Len(Pairs)
           /\ \A i \in 1..Len(Pairs) :
                 Pairs[i] \in ToSet(Pairs) /\ NamesOf(frame)[i] = <<Pairs[i], frame>>
           /\ \A pair \in ToSet(Pairs) : \E i \in 1..Len(Pairs) : Pairs[i] = pair
BY DataAssumption DEF NamesOf, ToSet

\* What a history lookup that returned has found.
LEMMA HistoryReturned ==
    ASSUME Types, NEW frame \in Frames, Outcome(HistoryOf(frame)) = "returned",
           NEW pair \in ToSet(Pairs)
    PROVE  /\ TickOf(frame) \in Stored(pair, frame)
           /\ Reaches(Stored(pair, frame), TickOf(frame), HistDataCount)
<1> DEFINE c == HistoryOf(frame)
<1>1. /\ c.datasets = NamesOf(frame) /\ c.kind = "history" /\ c.begin = TickOf(frame)
      /\ c.count = HistDataCount
  BY DEF HistoryOf
<1>2. DOMAIN c.datasets = 1..Len(Pairs) /\ Len(Pairs) \in Nat
  BY <1>1, NamesTypes
<1> HIDE DEF c
<1>3. \A i \in 1..Len(Pairs) : OutcomeFor(c, stored[c.datasets[i]]) = "returned"
  BY <1>2, FirstFailure DEF c
<1>4. PICK i \in 1..Len(Pairs) : Pairs[i] = pair
  BY NamesTypes
<1>5. OutcomeFor(c, Stored(pair, frame)) = "returned"
  BY <1>1, <1>3, <1>4, NamesTypes DEF Stored
<1> QED
  BY <1>1, <1>5 DEF OutcomeFor

\* What a lookup that crashed has not found.
LEMMA HistoryCrashed ==
    ASSUME Types, NEW frame \in Frames, Outcome(HistoryOf(frame)) = "crashed"
    PROVE  \E pair \in ToSet(Pairs) :
              ~Reaches(Stored(pair, frame), TickOf(frame), HistDataCount)
<1> DEFINE c == HistoryOf(frame)
<1>1. /\ c.datasets = NamesOf(frame) /\ c.kind = "history" /\ c.begin = TickOf(frame)
      /\ c.count = HistDataCount
  BY DEF HistoryOf
<1>2. DOMAIN c.datasets = 1..Len(Pairs) /\ Len(Pairs) \in Nat
  BY <1>1, NamesTypes
<1> HIDE DEF c
<1>3. PICK i \in 1..Len(Pairs) : OutcomeFor(c, stored[c.datasets[i]]) = "crashed"
  BY <1>2, FirstFailure DEF c
<1>4. Pairs[i] \in ToSet(Pairs) /\ OutcomeFor(c, Stored(Pairs[i], frame)) = "crashed"
  BY <1>1, <1>3, NamesTypes DEF Stored
<1>5. ~Reaches(Stored(Pairs[i], frame), TickOf(frame), HistDataCount)
  BY <1>1, <1>4 DEF OutcomeFor
<1> QED
  BY <1>4, <1>5

\* The candles of a tick may be missing, which is no failure.
LEMMA CandlesReturned ==
    ASSUME NEW frame
    PROVE  Outcome(CandlesOf(frame)) = "returned"
BY DEF CandlesOf, Outcome, OutcomeFor

----------------------------------------------------------------------------
(* The steps                                                               *)

\* While a tick is to come, the program is in the range of the clock.
LEMMA OpenIsInRange ==
    ASSUME Positions, loop \in Frames, at[loop] < Iterations(loop)
    PROVE  InRange
<1>1. Iterations("long") = Len(clock)
  BY DEF Iterations
<1>2. loop = "long" \/ "long" \in Enclosing[loop]
  BY FrameNames
<1> QED
  BY <1>1, <1>2 DEF InRange, Positions

\* Time that does not go back leaves the simulated ticks behind it.
LEMMA BehindKept ==
    ASSUME TicksBehind, ticks \in Seq(Int), UNCHANGED ticks,
           InRange' => /\ InRange /\ TickOf(loop) \in Int /\ TickOf(loop)' \in Int
                       /\ TickOf(loop) <= TickOf(loop)'
    PROVE  TicksBehind'
<1>1. \A i, j \in 1..Len(ticks') : i < j => ticks'[i] < ticks'[j]
  BY DEF TicksBehind
<1>2. ASSUME InRange', NEW i \in 1..Len(ticks') PROVE ticks'[i] < TickOf(loop)'
  <2>1. ticks'[i] = ticks[i] /\ ticks[i] \in Int /\ ticks[i] < TickOf(loop)
    BY <1>2 DEF TicksBehind
  <2> QED BY <1>2, <2>1
<1> QED
  BY <1>1, <1>2 DEF TicksBehind

\* Nor does it lose history.
LEMMA HistoryKept ==
    ASSUME NEW frame \in WindowFrames, NEW t \in Int, InRange => t <= TickOf(loop),
           \A pair \in ToSet(Pairs) : Reaches(Stored(pair, frame), t, HistDataCount),
           UNCHANGED stored,
           InRange' => /\ InRange /\ TickOf(loop) \in Int /\ TickOf(loop)' \in Int
                       /\ TickOf(loop) <= TickOf(loop)'
    PROVE  \E u \in Int :
              /\ InRange' => u <= TickOf(loop)'
              /\ \A pair \in ToSet(Pairs) : Reaches(Stored(pair, frame), u, HistDataCount)'
<1>1. InRange' => t <= TickOf(loop)'
  <2> SUFFICES ASSUME InRange' PROVE t <= TickOf(loop)'
    OBVIOUS
  <2>1. t <= TickOf(loop) /\ TickOf(loop) \in Int /\ TickOf(loop)' \in Int
        /\ TickOf(loop) <= TickOf(loop)'
    OBVIOUS
  <2> QED BY <2>1
<1>2. \A pair \in ToSet(Pairs) : Reaches(Stored(pair, frame), t, HistDataCount)'
  BY DEF Reaches, Stored
<1> QED
  BY <1>1, <1>2

LEMMA AllHistoryKept ==
    ASSUME KnownHistory, UNCHANGED <<stored, windows>>,
           InRange' => /\ InRange /\ TickOf(loop) \in Int /\ TickOf(loop)' \in Int
                       /\ TickOf(loop) <= TickOf(loop)'
    PROVE  KnownHistory'
<1>1. ASSUME NEW frame \in WindowFrames, windows'[frame] # None
      PROVE  \E u \in Int :
                /\ InRange' => u <= TickOf(loop)'
                /\ \A pair \in ToSet(Pairs) : Reaches(Stored(pair, frame), u, HistDataCount)'
  <2>1. PICK t \in Int :
           /\ InRange => t <= TickOf(loop)
           /\ \A pair \in ToSet(Pairs) : Reaches(Stored(pair, frame), t, HistDataCount)
    BY <1>1 DEF KnownHistory
  <2> QED
    BY <2>1, HistoryKept
<1> QED
  BY <1>1 DEF KnownHistory

\* Windows of loops that stay open stay what they are.
LEMMA WindowsKept ==
    ASSUME OpenWindows, loop \in Frames, UNCHANGED <<stored, windows, clock>>,
           NEW frame \in Enclosing[loop], frame \in Frames, at'[frame] = at[frame],
           \A f \in Enclosing[frame] : at'[f] = at[f], NEW pair \in ToSet(Pairs)
    PROVE  /\ TickOf(frame)' \in Stored(pair, frame)'
           /\ Reaches(Stored(pair, frame), TickOf(frame), HistDataCount)'
           /\ windows'[frame][<<pair, frame>>] =
                 Window(Stored(pair, frame), TickOf(frame), HistDataCount)'
<1>1. TickOf(frame)' = TickOf(frame) /\ Stored(pair, frame)' = Stored(pair, frame)
  BY SameTick DEF Stored
<1>2. /\ TickOf(frame) \in Stored(pair, frame)
      /\ Reaches(Stored(pair, frame), TickOf(frame), HistDataCount)
      /\ windows[frame][<<pair, frame>>] =
            Window(Stored(pair, frame), TickOf(frame), HistDataCount)
  BY DEF OpenWindows
<1> QED
  BY <1>1, <1>2 DEF Reaches, Window

\* A loop's enclosing loops are frames, and theirs enclose it too.
LEMMA EnclosingTypes ==
    ASSUME NEW f \in Frames, NEW frame \in Enclosing[f]
    PROVE  /\ frame \in WindowFrames /\ frame \in Frames /\ frame # f
           /\ \A e \in Enclosing[frame] : e \in Enclosing[f] /\ e # f /\ e \in Frames
           /\ f \in WindowFrames => Enclosing[Inner[f]] = Enclosing[f] \cup {f}
BY FrameNames DEF WindowFrames

\* Steps that move neither the clock nor the loops.
LEMMA RestKept ==
    ASSUME DataInvariant, UNCHANGED <<stored, clock, loop, at, windows, ticks>>
    PROVE  Types' /\ Positions' /\ OpenWindows' /\ TicksBehind' /\ KnownHistory'
<1> USE DEF DataInvariant
<1>1. Types'
  BY DEF Types
<1>2. Positions'
  BY DEF Positions, Iterations
<1>3. ASSUME loop \in Frames, NEW frame \in Enclosing[loop], NEW pair \in ToSet(Pairs)
      PROVE  /\ TickOf(frame)' \in Stored(pair, frame)'
             /\ Reaches(Stored(pair, frame), TickOf(frame), HistDataCount)'
             /\ windows'[frame][<<pair, frame>>] =
                   Window(Stored(pair, frame), TickOf(frame), HistDataCount)'
  BY <1>3, EnclosingTypes, WindowsKept
<1>4. OpenWindows'
  BY <1>3 DEF OpenWindows
<1>5. InRange' => InRange
  BY DEF InRange
<1>6. TickOf(loop)' = TickOf(loop)
  BY DEF TickOf, LongTick, IntermediateTick, ShortTick, SimulateTick
<1>7. InRange => TickOf(loop) \in Int
  BY TickTypes DEF InRange
<1>8. ASSUME InRange'
      PROVE  /\ InRange /\ TickOf(loop) \in Int /\ TickOf(loop)' \in Int
             /\ TickOf(loop) <= TickOf(loop)'
  <2>1. TickOf(loop) \in Int
    BY <1>5, <1>7, <1>8
  <2> QED
    BY <1>5, <1>6, <1>8, <2>1
<1>9. TicksBehind' /\ KnownHistory'
  BY <1>8, BehindKept, AllHistoryKept DEF Types
<1> QED
  BY <1>1, <1>2, <1>4, <1>9

LEMMA InitInvariant == Init => DataInvariant
<1>1. SUFFICES ASSUME Init PROVE DataInvariant
  OBVIOUS
<1> USE <1>1 DEF Init, HInit
<1>2. Types /\ clock \in Seq(Int)
  <2>1. at \in [Frames -> Nat] /\ windows = [frame \in WindowFrames |-> windows[frame]]
    OBVIOUS
  <2>2. stored \in Histories /\ clock \in Clocks /\ loop \in Frames /\ ticks \in Seq(Int)
    BY FrameNames
  <2>3. clock \in Seq(Int)
    BY DataAssumption
  <2> QED
    BY <2>1, <2>2, <2>3 DEF Types
<1>3. Positions
  BY <1>2, FrameNames DEF Positions, Iterations
<1>4. Pending /\ ShownTick /\ KnownHistory /\ Ended /\ CrashesOnlyAtTheStart
  BY FrameNames DEF Pending, ShownTick, KnownHistory, Ended, CrashesOnlyAtTheStart
<1>5. OpenWindows
  BY FrameNames DEF OpenWindows
<1>6. TicksBehind
  BY DEF TicksBehind
<1> QED
  BY <1>2, <1>3, <1>4, <1>5, <1>6 DEF DataInvariant

LEMMA LookUpKeeps ==
    ASSUME DataInvariant, LookUp
    PROVE  DataInvariant'
<1>1. /\ loop \in Frames /\ ~asked /\ at[loop] < Iterations(loop)
      /\ call' = IF loop = "simulate" THEN CandlesOf(loop) ELSE HistoryOf(loop)
      /\ outcome' = "busy" /\ asked' = TRUE /\ shown' = None
      /\ UNCHANGED <<stored, clock, loop, at, windows, ticks>>
  BY DEF LookUp, Ask
<1>2. Types' /\ Positions' /\ OpenWindows' /\ TicksBehind' /\ KnownHistory'
  BY <1>1, RestKept
<1>3. /\ Iterations(loop)' = Iterations(loop)
      /\ CandlesOf(loop)' = CandlesOf(loop) /\ HistoryOf(loop)' = HistoryOf(loop)
  BY <1>1 DEF Iterations, CandlesOf, HistoryOf, TickOf, LongTick, IntermediateTick,
              ShortTick, SimulateTick
<1>4. Pending'
  BY <1>1, <1>3 DEF Pending
<1>5. ShownTick' /\ Ended' /\ CrashesOnlyAtTheStart'
  BY <1>1, FrameNames DEF ShownTick, Ended, CrashesOnlyAtTheStart
<1> QED
  BY <1>2, <1>4, <1>5 DEF DataInvariant

LEMMA AnswerKeeps ==
    ASSUME DataInvariant, HistoryAnswers
    PROVE  DataInvariant'
<1>1. /\ outcome = "busy" /\ outcome' = Outcome(call)
      /\ outcome' = "returned" =>
            given' = [dataset \in {call.datasets[i] : i \in DOMAIN call.datasets} |->
                         Given(call, stored[dataset])]
      /\ UNCHANGED <<stored, call, clock, loop, at, asked, windows, shown, ticks>>
  BY DEF HistoryAnswers, Answer, loopVars
<1>2. Types' /\ Positions' /\ OpenWindows' /\ TicksBehind' /\ KnownHistory'
  BY <1>1, RestKept
<1>3. /\ Iterations(loop)' = Iterations(loop)
      /\ CandlesOf(loop)' = CandlesOf(loop) /\ HistoryOf(loop)' = HistoryOf(loop)
  BY <1>1 DEF Iterations, CandlesOf, HistoryOf, TickOf, LongTick, IntermediateTick,
              ShortTick, SimulateTick
<1>4. Outcome(call)' = Outcome(call)
  BY <1>1 DEF Outcome
<1>5. ASSUME asked, loop \in Frames
      PROVE  /\ at[loop] < Iterations(loop)
             /\ call = IF loop = "simulate" THEN CandlesOf(loop) ELSE HistoryOf(loop)
  BY <1>5 DEF DataInvariant, Pending
<1>6. Pending'
  BY <1>1, <1>3, <1>4, <1>5 DEF Pending
<1>7. ShownTick'
  BY <1>1 DEF DataInvariant, ShownTick, ShortTick, IntermediateTick, LongTick
<1>8. Ended' /\ CrashesOnlyAtTheStart'
  BY <1>1 DEF DataInvariant, Ended, CrashesOnlyAtTheStart
<1> QED
  BY <1>2, <1>6, <1>7, <1>8 DEF DataInvariant

\* An answer is that of the loop that asked.
LEMMA AnsweredTypes ==
    ASSUME DataInvariant, Answered, outcome # "crashed" \/ loop \in Frames
    PROVE  /\ loop \in Frames /\ at[loop] < Iterations(loop) /\ InRange
           /\ call = IF loop = "simulate" THEN CandlesOf(loop) ELSE HistoryOf(loop)
           /\ outcome = Outcome(call)
           /\ outcome = "returned" =>
                 given = [dataset \in {call.datasets[i] : i \in DOMAIN call.datasets} |->
                             Given(call, stored[dataset])]
<1>1. loop \in Frames
  BY DEF DataInvariant, Types, Ended, Answered
<1>2. at[loop] < Iterations(loop)
  BY <1>1 DEF DataInvariant, Pending, Answered
<1> QED
  BY <1>1, <1>2, OpenIsInRange DEF DataInvariant, Pending, Answered

LEMMA EnterKeeps ==
    ASSUME DataInvariant, EnterLoop
    PROVE  DataInvariant'
<1>1. /\ Answered /\ loop \in WindowFrames /\ outcome = "returned"
      /\ asked' = FALSE /\ windows' = [windows EXCEPT ![loop] = given]
      /\ loop' = Inner[loop] /\ at' = [at EXCEPT ![Inner[loop]] = 0]
      /\ UNCHANGED <<stored, clock, shown, ticks>>
  BY DEF EnterLoop, historyVars
<1>2. PICK f \in WindowFrames : f = loop
  BY <1>1
<1> DEFINE g == Inner[f]
<1>3. /\ f \in Frames /\ g \in InnerFrames /\ g \in Frames /\ g # f /\ Outer[g] = f
      /\ Enclosing[g] = Enclosing[f] \cup {f} /\ f # "simulate"
      /\ \A e \in Enclosing[g] : e # g /\ e \in Frames /\ e \in WindowFrames
      /\ \A e \in Enclosing[g] : \A d \in Enclosing[e] : d # g /\ d \in Frames
  BY FrameNames DEF WindowFrames
<1>4. /\ at \in [Frames -> Nat] /\ windows = [e \in WindowFrames |-> windows[e]]
      /\ ticks \in Seq(Int) /\ Types
  BY DEF DataInvariant, Types
<1>5. /\ at' \in [Frames -> Nat] /\ loop' = g /\ at'[g] = 0
      /\ \A e \in Frames : e # g => at'[e] = at[e]
      /\ windows'[f] = given
      /\ \A e \in WindowFrames : e # f => windows'[e] = windows[e]
  <2> HIDE DEF g
  <2> QED BY <1>1, <1>2, <1>3, <1>4 DEF g
<1>6. /\ at[f] < Iterations(f) /\ InRange /\ call = HistoryOf(f)
      /\ Outcome(HistoryOf(f)) = "returned"
      /\ given = [dataset \in {NamesOf(f)[i] : i \in DOMAIN NamesOf(f)} |->
                     Given(HistoryOf(f), stored[dataset])]
  BY <1>1, <1>2, <1>3, AnsweredTypes DEF HistoryOf
<1>7. /\ \A e \in Frames : TickOf(e) \in Int /\ at[e] \in Nat
      /\ at["long"] < Len(clock)
  BY <1>4, <1>6, TickTypes DEF InRange
<1> HIDE DEF g
<1>8. Types'
  <2>1. windows' = [e \in WindowFrames |-> windows'[e]]
    BY <1>1, <1>4
  <2> QED
    BY <1>1, <1>3, <1>4, <1>5, <2>1 DEF Types
<1>9. \A e \in Enclosing[g] : TickOf(e)' = TickOf(e) /\ Iterations(e)' = Iterations(e)
  BY <1>1, <1>3, <1>5, SameTick
<1>10. Iterations(g)' = Iterations(g) /\ Iterations(g) \in Nat
  BY <1>3, <1>4, <1>7, TickInside DEF Iterations, InnerFrames
<1>11. Positions'
  <2>1. \A e \in Enclosing[g] : at[e] < Iterations(e)
    BY <1>2, <1>3, <1>6 DEF DataInvariant, Positions
  <2> QED
    BY <1>3, <1>5, <1>9, <1>10, <2>1 DEF Positions
<1>12. TickOf(g)' = TickOf(f)
  <2>1. TickOf(g)' = TickOf(f)' + at'[g] * Length[g]
    BY <1>3, TickNames, FrameNames
       DEF InnerFrames, TickOf, IntermediateTick, ShortTick, SimulateTick
  <2>2. at'[g] * Length[g] = 0 /\ TickOf(f)' = TickOf(f)
    BY <1>3, <1>5, <1>9, LengthTypes
  <2> QED
    BY <1>3, <1>7, <2>1, <2>2
<1>13. TickOf(loop)' = TickOf(loop) /\ TickOf(loop) \in Int /\ TickOf(loop) <= TickOf(loop)'
  <2>1. TickOf(loop)' = TickOf(g)'
    BY <1>5 DEF TickOf, LongTick, IntermediateTick, ShortTick, SimulateTick
  <2> QED
    BY <1>2, <1>3, <1>7, <1>12, <2>1
<1>14. ASSUME NEW pair \in ToSet(Pairs)
       PROVE  /\ TickOf(f) \in Stored(pair, f)
              /\ Reaches(Stored(pair, f), TickOf(f), HistDataCount)
              /\ windows'[f][<<pair, f>>] = Window(Stored(pair, f), TickOf(f), HistDataCount)
  <2>1. /\ TickOf(f) \in Stored(pair, f)
        /\ Reaches(Stored(pair, f), TickOf(f), HistDataCount)
    BY <1>3, <1>4, <1>6, HistoryReturned
  <2>2. <<pair, f>> \in {NamesOf(f)[i] : i \in DOMAIN NamesOf(f)}
    BY NamesTypes
  <2>3. given[<<pair, f>>] = Given(HistoryOf(f), Stored(pair, f))
    BY <1>6, <2>2 DEF Stored
  <2>4. Given(HistoryOf(f), Stored(pair, f)) = Window(Stored(pair, f), TickOf(f), HistDataCount)
    BY DEF Given, HistoryOf
  <2> QED
    BY <1>5, <2>1, <2>3, <2>4
<1>15. OpenWindows'
  <2>1. ASSUME NEW e \in Enclosing[g], NEW pair \in ToSet(Pairs)
        PROVE  /\ TickOf(e)' \in Stored(pair, e)'
               /\ Reaches(Stored(pair, e), TickOf(e), HistDataCount)'
               /\ windows'[e][<<pair, e>>] =
                     Window(Stored(pair, e), TickOf(e), HistDataCount)'
    <3>1. /\ TickOf(e) \in Stored(pair, e)
          /\ Reaches(Stored(pair, e), TickOf(e), HistDataCount)
          /\ windows'[e][<<pair, e>>] = Window(Stored(pair, e), TickOf(e), HistDataCount)
      <4>1. CASE e = f
        BY <1>14, <4>1
      <4>2. CASE e # f
        <5>1. e \in Enclosing[f] /\ windows'[e] = windows[e]
          BY <1>3, <1>5, <4>2
        <5> QED
          BY <1>2, <1>3, <5>1 DEF DataInvariant, OpenWindows
      <4> QED BY <4>1, <4>2
    <3>2. TickOf(e)' = TickOf(e) /\ Stored(pair, e)' = Stored(pair, e)
      BY <1>1, <1>9 DEF Stored
    <3> QED
      BY <3>1, <3>2 DEF Reaches, Window
  <2> QED
    BY <1>5, <2>1 DEF OpenWindows
<1>16. Pending' /\ Ended'
  BY <1>1, <1>3, <1>5, FrameNames DEF Pending, Ended
<1>17. ShownTick'
  BY <1>1 DEF DataInvariant, ShownTick, Answered
<1>18. TicksBehind'
  BY <1>1, <1>4, <1>6, <1>13, BehindKept DEF DataInvariant
<1>19. KnownHistory'
  <2>1. ASSUME NEW e \in WindowFrames, windows'[e] # None
        PROVE  \E u \in Int :
                  /\ InRange' => u <= TickOf(loop)'
                  /\ \A pair \in ToSet(Pairs) : Reaches(Stored(pair, e), u, HistDataCount)'
    <3>1. CASE e = f
      <4>1. /\ TickOf(f) \in Int /\ TickOf(f) = TickOf(loop)
            /\ \A pair \in ToSet(Pairs) : Reaches(Stored(pair, e), TickOf(f), HistDataCount)
        BY <1>2, <1>3, <1>7, <1>14, <3>1
      <4>2. PICK t \in Int : t = TickOf(f)
        BY <4>1
      <4>3. InRange => t <= TickOf(loop)
        BY <4>1, <4>2
      <4> QED
        BY <1>1, <1>6, <1>13, <4>1, <4>2, <4>3, HistoryKept
    <3>2. CASE e # f
      <4>1. PICK t \in Int :
               /\ InRange => t <= TickOf(loop)
               /\ \A pair \in ToSet(Pairs) : Reaches(Stored(pair, e), t, HistDataCount)
        BY <1>5, <2>1, <3>2 DEF DataInvariant, KnownHistory
      <4> QED
        BY <1>1, <1>6, <1>13, <4>1, HistoryKept
    <3> QED BY <3>1, <3>2
  <2> QED
    BY <2>1 DEF KnownHistory
<1>20. CrashesOnlyAtTheStart'
  BY <1>3, <1>5, FrameNames DEF CrashesOnlyAtTheStart
<1> QED
  BY <1>8, <1>11, <1>15, <1>16, <1>17, <1>18, <1>19, <1>20 DEF DataInvariant

LEMMA SimulateKeeps ==
    ASSUME DataInvariant, SimulateTickOfPairs
    PROVE  DataInvariant'
<1> DEFINE g == "simulate"
<1>1. /\ Answered /\ loop = g /\ asked' = FALSE
      /\ shown' = [tick |-> SimulateTick,
                   pairs |-> {pair \in ToSet(Pairs) : given[<<pair, g>>] # None}]
      /\ ticks' = Append(ticks, SimulateTick)
      /\ at' = [at EXCEPT ![g] = @ + 1]
      /\ UNCHANGED <<stored, call, outcome, clock, loop, windows>>
  BY DEF SimulateTickOfPairs, Advance, historyVars
<1>2. /\ g \in Frames /\ g \in InnerFrames /\ g # "long"
      /\ \A e \in Enclosing[g] : e # g /\ e \in Frames
      /\ \A e \in Enclosing[g] : \A d \in Enclosing[e] : d # g /\ d \in Frames
  BY FrameNames DEF InnerFrames
<1>3. /\ at \in [Frames -> Nat] /\ ticks \in Seq(Int) /\ Types
  BY DEF DataInvariant, Types
<1>4. /\ at[g] < Iterations(g) /\ InRange
  BY <1>1, <1>2, AnsweredTypes
<1>5. /\ at' \in [Frames -> Nat] /\ at'[g] = at[g] + 1
      /\ \A e \in Frames : e # g => at'[e] = at[e]
  BY <1>1, <1>2, <1>3
<1>6. /\ \A e \in Frames : TickOf(e) \in Int /\ at[e] \in Nat /\ Length[e] \in Nat \ {0}
      /\ at["long"] < Len(clock)
  BY <1>3, <1>4, TickTypes, LengthTypes DEF InRange
<1>7. \A e \in Enclosing[g] : TickOf(e)' = TickOf(e) /\ Iterations(e)' = Iterations(e)
  BY <1>1, <1>2, <1>5, SameTick
<1>8. TickOf(g)' \in Int /\ TickOf(g)' = TickOf(g) + Length[g] /\ TickOf(g) < TickOf(g)'
  <2>1. TickOf(g)' \in Int /\ TickOf(g)' = TickOf(g) + Length[g]
    BY <1>1, <1>2, <1>3, <1>6, NextTick
  <2>2. TickOf(g) \in Int /\ Length[g] \in Nat \ {0}
    BY <1>2, <1>6
  <2> QED
    BY <2>1, <2>2
<1>9. TickOf(loop)' = TickOf(g)' /\ TickOf(loop) = TickOf(g) /\ SimulateTick = TickOf(g)
  <2>1. TickOf(loop)' = TickOf(g)'
    BY <1>1 DEF TickOf, SimulateTick, ShortTick, IntermediateTick, LongTick
  <2> QED
    BY <1>1, <2>1, TickNames
<1>10. Types'
  <2>1. SimulateTick \in Int
    BY <1>2, <1>6, <1>9
  <2>2. ticks' \in Seq(Int)
    BY <1>1, <1>3, <2>1
  <2> QED
    BY <1>1, <1>2, <1>3, <1>5, <2>2 DEF Types
<1>11. Positions'
  <2>1. Iterations(g)' = Iterations(g) /\ Iterations(g) \in Nat
    BY <1>2, <1>3, <1>6, TickInside DEF Iterations
  <2>2. at'[g] <= Iterations(g)'
    BY <1>2, <1>4, <1>5, <1>6, <2>1
  <2>3. \A e \in Enclosing[g] : at'[e] < Iterations(e)'
    BY <1>1, <1>2, <1>5, <1>7 DEF DataInvariant, Positions
  <2> QED
    BY <1>1, <2>2, <2>3 DEF Positions
<1>12. OpenWindows'
  <2>1. ASSUME NEW e \in Enclosing[g], NEW pair \in ToSet(Pairs)
        PROVE  /\ TickOf(e)' \in Stored(pair, e)'
               /\ Reaches(Stored(pair, e), TickOf(e), HistDataCount)'
               /\ windows'[e][<<pair, e>>] =
                     Window(Stored(pair, e), TickOf(e), HistDataCount)'
    BY <1>1, <1>2, <1>5, WindowsKept DEF DataInvariant
  <2> QED
    BY <1>1, <2>1 DEF OpenWindows
<1>13. ShownTick'
  <2>1. ShortTick' = ShortTick
    BY <1>2, <1>7, FrameNames DEF TickOf
  <2>2. SimulateTick = ShortTick + at[g] * Length[g] /\ at'[g] - 1 = at[g] /\ at'[g] >= 1
    BY <1>2, <1>5, <1>6 DEF SimulateTick
  <2> QED
    BY <1>1, <2>1, <2>2 DEF ShownTick
<1>14. Pending' /\ Ended' /\ CrashesOnlyAtTheStart'
  BY <1>1, FrameNames DEF Pending, Ended, CrashesOnlyAtTheStart
<1>15. TicksBehind'
  <2> DEFINE n == Len(ticks)
             now == TickOf(g)
  <2>1. /\ n \in Nat /\ now \in Int /\ Len(ticks') = n + 1
        /\ ticks' = Append(ticks, now)
        /\ \A i \in 1..n : ticks'[i] = ticks[i] /\ ticks[i] \in Int
        /\ ticks'[n + 1] = now
    BY <1>1, <1>2, <1>3, <1>6, <1>9
  <2>2. \A i \in 1..n : ticks[i] < now
    BY <1>4, <1>9 DEF DataInvariant, TicksBehind
  <2> HIDE DEF n, now
  <2>3. \A i, j \in 1..n : i < j => ticks[i] < ticks[j]
    BY DEF DataInvariant, TicksBehind, n
  <2>4. ASSUME NEW i \in 1..(n + 1), NEW j \in 1..(n + 1), i < j
        PROVE  ticks'[i] < ticks'[j]
    <3>1. i \in 1..n
      BY <2>1, <2>4
    <3>2. CASE j = n + 1
      BY <2>1, <2>2, <3>1, <3>2
    <3>3. CASE j # n + 1
      <4>1. j \in 1..n
        BY <2>1, <3>3
      <4> QED BY <2>1, <2>3, <2>4, <3>1, <4>1
    <3> QED BY <3>2, <3>3
  <2>5. ASSUME NEW i \in 1..(n + 1) PROVE ticks'[i] < TickOf(loop)'
    <3>1. now < TickOf(loop)' /\ TickOf(loop)' \in Int
      BY <1>8, <1>9 DEF now
    <3>2. CASE i = n + 1
      BY <2>1, <3>1, <3>2
    <3>3. CASE i # n + 1
      <4>1. i \in 1..n
        BY <2>1, <3>3
      <4> QED BY <2>1, <2>2, <3>1, <4>1
    <3> QED BY <3>2, <3>3
  <2> QED
    BY <2>1, <2>4, <2>5 DEF TicksBehind
<1>16. KnownHistory'
  <2>1. TickOf(loop) \in Int /\ TickOf(loop)' \in Int /\ TickOf(loop) <= TickOf(loop)'
    BY <1>2, <1>6, <1>8, <1>9
  <2> QED
    BY <1>1, <1>4, <2>1, AllHistoryKept DEF DataInvariant
<1> QED
  BY <1>10, <1>11, <1>12, <1>13, <1>14, <1>15, <1>16 DEF DataInvariant

LEMMA AbandonKeeps ==
    ASSUME DataInvariant, Abandon
    PROVE  DataInvariant'
<1>1. /\ Answered /\ outcome = "out_of_range" /\ asked' = FALSE /\ loop' = "long"
      /\ at' = [at EXCEPT !["long"] = @ + 1]
      /\ UNCHANGED <<stored, call, outcome, clock, windows, shown, ticks>>
  BY DEF Abandon, Advance, historyVars
<1>2. /\ loop \in Frames /\ at[loop] < Iterations(loop) /\ InRange
  BY <1>1, AnsweredTypes
<1>3. /\ at \in [Frames -> Nat] /\ ticks \in Seq(Int) /\ Types /\ "long" \in Frames
      /\ at["long"] < Len(clock) /\ clock \in Seq(Int)
      /\ \A e \in Frames : TickOf(e) \in Int /\ at[e] \in Nat /\ Length[e] \in Nat \ {0}
  BY <1>2, TickTypes, LengthTypes, FrameNames DEF DataInvariant, Types, InRange
<1>4. at' \in [Frames -> Nat] /\ at'["long"] = at["long"] + 1
  BY <1>1, <1>3
<1>5. Types'
  BY <1>1, <1>3, <1>4 DEF Types
<1>6. Positions'
  <2>1. at'["long"] <= Len(clock)
    BY <1>3, <1>4
  <2> QED
    BY <1>1, <2>1, FrameNames DEF Positions, Iterations
<1>7. OpenWindows' /\ Pending' /\ Ended' /\ CrashesOnlyAtTheStart'
  BY <1>1, FrameNames DEF OpenWindows, Pending, Ended, CrashesOnlyAtTheStart
<1>8. ShownTick'
  BY <1>1 DEF DataInvariant, ShownTick, Answered
<1>9. TickOf(loop) + Length[loop] <= TickOf("long") + Length["long"]
  <2>1. CASE loop = "long"
    BY <1>3, <2>1
  <2>2. CASE loop # "long"
    <3>1. "long" \in Enclosing[loop]
      BY <1>2, <2>2, FrameNames
    <3> QED
      BY <1>2, <3>1, TickEnclosed DEF DataInvariant
  <2> QED BY <2>1, <2>2
<1>10. ASSUME InRange'
       PROVE  /\ TickOf(loop) \in Int /\ TickOf(loop)' \in Int
              /\ TickOf(loop) <= TickOf(loop)'
  <2>1. at["long"] + 1 < Len(clock)
    BY <1>1, <1>4, <1>10 DEF InRange
  <2>2. TickOf("long")' \in Int /\ TickOf("long") + Length["long"] <= TickOf("long")'
    BY <1>1, <1>3, <2>1, NextTick
  <2>3. TickOf(loop)' = TickOf("long")'
    BY <1>1 DEF TickOf, LongTick
  <2> DEFINE now == TickOf(loop)
             then == TickOf(loop)'
             tick == TickOf("long")
             l == Length[loop]
             m == Length["long"]
  <2>4. /\ now \in Int /\ then \in Int /\ tick \in Int /\ l \in Nat /\ m \in Nat
        /\ now + l <= tick + m /\ tick + m <= then
    BY <1>2, <1>3, <1>9, <2>2, <2>3
  <2> HIDE DEF now, then, tick, l, m
  <2>5. now <= then
    BY <2>4
  <2> QED
    BY <2>4, <2>5 DEF now, then
<1>11. TicksBehind' /\ KnownHistory'
  BY <1>1, <1>2, <1>3, <1>10, BehindKept, AllHistoryKept DEF DataInvariant
<1> QED
  BY <1>5, <1>6, <1>7, <1>8, <1>11 DEF DataInvariant

LEMMA CrashKeeps ==
    ASSUME DataInvariant, Crash
    PROVE  DataInvariant'
<1>1. /\ Answered /\ outcome = "crashed" /\ loop' = "crashed"
      /\ UNCHANGED <<stored, call, outcome, clock, at, asked, windows, shown, ticks>>
  BY DEF Crash, historyVars
<1>2. "crashed" \notin Frames
  BY FrameNames
<1>3. /\ Types' /\ Positions' /\ Pending' /\ OpenWindows' /\ Ended'
  BY <1>1, <1>2 DEF DataInvariant, Types, Positions, Pending, OpenWindows, Ended
<1>4. ShownTick'
  BY <1>1 DEF DataInvariant, ShownTick, Answered
<1>5. ~InRange'
  BY <1>1, <1>2 DEF InRange
<1>6. TicksBehind' /\ KnownHistory'
  BY <1>1, <1>5, BehindKept, AllHistoryKept DEF DataInvariant, Types
<1>7. CASE loop \notin Frames
  <2>1. loop = "crashed"
    BY <1>1, <1>7 DEF DataInvariant, Types, Ended, Answered
  <2>2. CrashesOnlyAtTheStart'
    BY <1>1, <2>1 DEF DataInvariant, CrashesOnlyAtTheStart
  <2> QED
    BY <1>3, <1>4, <1>6, <2>2 DEF DataInvariant
<1>8. CASE loop \in Frames
  <2>1. PICK f \in Frames : f = loop
    BY <1>8
  <2>2. /\ InRange /\ call = IF f = "simulate" THEN CandlesOf(f) ELSE HistoryOf(f)
        /\ Outcome(call) = "crashed" /\ Types
    BY <1>1, <1>8, <2>1, AnsweredTypes DEF DataInvariant
  <2>3. f \in WindowFrames /\ call = HistoryOf(f)
    BY <2>1, <2>2, CandlesReturned, FrameNames DEF WindowFrames
  <2>4. PICK pair \in ToSet(Pairs) : ~Reaches(Stored(pair, f), TickOf(f), HistDataCount)
    BY <2>2, <2>3, HistoryCrashed
  <2>5. ASSUME windows[f] # None PROVE FALSE
    <3>1. PICK t \in Int : /\ t <= TickOf(f)
                           /\ Reaches(Stored(pair, f), t, HistDataCount)
      BY <2>1, <2>2, <2>3, <2>5 DEF DataInvariant, KnownHistory
    <3>2. TickOf(f) \in Int /\ HistDataCount \in Nat
      BY <2>1, <2>2, TickTypes, FrameAssumption DEF InRange
    <3>3. Stored(pair, f) \in SUBSET Int /\ IsFiniteSet(Stored(pair, f))
      BY <2>2, StoredTypes
    <3> QED
      BY <2>4, <3>1, <3>2, <3>3, ReachesLater
  <2>6. call.datasets = NamesOf(f)
    BY <2>3 DEF HistoryOf
  <2>7. CrashesOnlyAtTheStart'
    BY <1>1, <2>3, <2>5, <2>6 DEF CrashesOnlyAtTheStart
  <2> QED
    BY <1>3, <1>4, <1>6, <2>7 DEF DataInvariant
<1> QED
  BY <1>7, <1>8

LEMMA LeaveKeeps ==
    ASSUME DataInvariant, LeaveLoop
    PROVE  DataInvariant'
<1>1. /\ loop \in InnerFrames /\ ~asked /\ at[loop] = Iterations(loop)
      /\ loop' = Outer[loop] /\ at' = [at EXCEPT ![Outer[loop]] = @ + 1]
      /\ shown' = None
      /\ UNCHANGED <<stored, call, outcome, clock, asked, windows, ticks>>
  BY FrameNames DEF LeaveLoop, Advance, historyVars
<1>2. PICK f \in InnerFrames : f = loop
  BY <1>1
<1> DEFINE o == Outer[f]
<1>3. /\ f \in Frames /\ o \in Frames /\ f # o /\ o \in Enclosing[f] /\ o # "simulate"
      /\ Enclosing[o] \subseteq Enclosing[f]
      /\ \A e \in Enclosing[o] : e # o /\ e \in Frames
      /\ \A e \in Enclosing[o] : \A d \in Enclosing[e] : d # o /\ d \in Frames
      /\ "long" \in Enclosing[f] /\ (o # "long" => "long" \in Enclosing[o])
  BY <1>2, FrameNames DEF InnerFrames
<1>4. /\ at \in [Frames -> Nat] /\ ticks \in Seq(Int) /\ Types
  BY DEF DataInvariant, Types
<1>5. /\ loop' = o /\ at[f] = Iterations(f) /\ at' = [at EXCEPT ![o] = @ + 1]
  BY <1>1, <1>2
<1>6. /\ \A e \in Enclosing[f] : at[e] < Iterations(e)
  BY <1>2, <1>3 DEF DataInvariant, Positions
<1>7. at["long"] < Len(clock) /\ InRange
  BY <1>2, <1>3, <1>6 DEF Iterations, InRange
<1> HIDE DEF o
<1>8. /\ at' \in [Frames -> Nat] /\ at'[o] = at[o] + 1
      /\ \A e \in Frames : e # o => at'[e] = at[e]
  BY <1>3, <1>4, <1>5
<1>9. \A e \in Frames : TickOf(e) \in Int /\ at[e] \in Nat /\ Length[e] \in Nat \ {0}
  BY <1>4, <1>7, TickTypes, LengthTypes
<1>10. \A e \in Enclosing[o] : TickOf(e)' = TickOf(e) /\ Iterations(e)' = Iterations(e)
  BY <1>1, <1>3, <1>8, SameTick
<1>11. Types'
  BY <1>1, <1>3, <1>4, <1>5, <1>8 DEF Types
<1>12. Positions'
  <2>1. Iterations(o)' = Iterations(o) /\ Iterations(o) \in Nat
    <3>1. CASE o = "long"
      BY <1>1, <1>4, <1>7, <3>1, TickTypes DEF Iterations
    <3>2. CASE o # "long"
      <4>1. o \in InnerFrames
        BY <1>3, <3>2, FrameNames
      <4> QED
        BY <1>4, <1>7, <3>2, <4>1, TickInside DEF Iterations
    <3> QED BY <3>1, <3>2
  <2>2. at'[o] <= Iterations(o)'
    BY <1>3, <1>6, <1>8, <1>9, <2>1
  <2>3. \A e \in Enclosing[o] : at'[e] < Iterations(e)'
    BY <1>3, <1>6, <1>8, <1>10
  <2> QED
    BY <1>5, <2>2, <2>3 DEF Positions
<1>13. OpenWindows'
  <2>1. ASSUME NEW e \in Enclosing[o], NEW pair \in ToSet(Pairs)
        PROVE  /\ TickOf(e)' \in Stored(pair, e)'
               /\ Reaches(Stored(pair, e), TickOf(e), HistDataCount)'
               /\ windows'[e][<<pair, e>>] =
                     Window(Stored(pair, e), TickOf(e), HistDataCount)'
    <3>1. e \in Enclosing[loop] /\ loop \in Frames
      BY <1>2, <1>3
    <3> QED
      BY <1>1, <1>3, <1>8, <3>1, WindowsKept DEF DataInvariant
  <2> QED
    BY <1>5, <2>1 DEF OpenWindows
<1>14. Pending' /\ Ended' /\ CrashesOnlyAtTheStart' /\ ShownTick'
  BY <1>1, <1>3, <1>5, FrameNames DEF Pending, Ended, CrashesOnlyAtTheStart, ShownTick
<1>15. TickOf(f) = TickOf(o) + Length[o]
  BY <1>4, <1>5, <1>7, TickInside DEF o
<1>16. ASSUME InRange'
       PROVE  /\ TickOf(loop) \in Int /\ TickOf(loop)' \in Int
              /\ TickOf(loop) <= TickOf(loop)'
  <2>1. o = "long" => at["long"] + 1 < Len(clock)
    BY <1>1, <1>8, <1>16 DEF InRange
  <2>2. TickOf(o)' \in Int /\ TickOf(o) + Length[o] <= TickOf(o)'
    BY <1>1, <1>3, <1>4, <1>5, <1>7, <2>1, NextTick
  <2>3. TickOf(loop)' = TickOf(o)'
    BY <1>5 DEF TickOf, SimulateTick, ShortTick, IntermediateTick, LongTick
  <2> QED
    BY <1>2, <1>3, <1>9, <1>15, <2>2, <2>3
<1>17. TicksBehind' /\ KnownHistory'
  BY <1>1, <1>4, <1>7, <1>16, BehindKept, AllHistoryKept DEF DataInvariant
<1> QED
  BY <1>11, <1>12, <1>13, <1>14, <1>17 DEF DataInvariant

LEMMA FinishKeeps ==
    ASSUME DataInvariant, Finish
    PROVE  DataInvariant'
<1>1. /\ loop = "long" /\ ~asked /\ loop' = "done"
      /\ UNCHANGED <<stored, call, outcome, clock, at, asked, windows, shown, ticks>>
  BY DEF Finish, historyVars
<1>2. "done" \notin Frames
  BY FrameNames
<1>3. /\ Types' /\ Positions' /\ Pending' /\ OpenWindows' /\ Ended'
      /\ CrashesOnlyAtTheStart' /\ ShownTick'
  BY <1>1, <1>2 DEF DataInvariant, Types, Positions, Pending, OpenWindows, Ended,
                    CrashesOnlyAtTheStart, ShownTick
<1>4. ~InRange'
  BY <1>1, <1>2 DEF InRange
<1>5. TicksBehind' /\ KnownHistory'
  BY <1>1, <1>4, BehindKept, AllHistoryKept DEF DataInvariant, Types
<1> QED
  BY <1>3, <1>5 DEF DataInvariant

LEMMA StutterKeeps ==
    ASSUME DataInvariant, UNCHANGED vars
    PROVE  DataInvariant'
<1>1. UNCHANGED <<stored, call, outcome, given, clock, loop, at, asked, windows, shown, ticks>>
  BY DEF vars, historyVars, loopVars
<1>2. Types' /\ Positions' /\ OpenWindows' /\ TicksBehind' /\ KnownHistory'
  BY <1>1, RestKept
<1>3. /\ Iterations(loop)' = Iterations(loop)
      /\ CandlesOf(loop)' = CandlesOf(loop) /\ HistoryOf(loop)' = HistoryOf(loop)
      /\ Outcome(call)' = Outcome(call) /\ ShortTick' = ShortTick
  BY <1>1 DEF Iterations, CandlesOf, HistoryOf, TickOf, LongTick, IntermediateTick,
              ShortTick, SimulateTick, Outcome
<1>4. Pending'
  BY <1>1, <1>3 DEF DataInvariant, Pending
<1>5. ShownTick' /\ Ended' /\ CrashesOnlyAtTheStart'
  BY <1>1, <1>3 DEF DataInvariant, ShownTick, Ended, CrashesOnlyAtTheStart
<1> QED
  BY <1>2, <1>4, <1>5 DEF DataInvariant

LEMMA DataInvariantHolds == Spec => []DataInvariant
<1>1. DataInvariant /\ [Next]_vars => DataInvariant'
  BY LookUpKeeps, AnswerKeeps, EnterKeeps, SimulateKeeps, AbandonKeeps, CrashKeeps,
     LeaveKeeps, FinishKeeps, StutterKeeps DEF Next, Program
<1> QED
  BY InitInvariant, <1>1, PTL DEF Spec

----------------------------------------------------------------------------
(* What the strategy is shown                                              *)

\* The tick that was simulated lies in the ticks of the three open loops.
LEMMA ShownIsEnclosed ==
    ASSUME DataInvariant, shown # None, NEW frame \in WindowFrames
    PROVE  /\ loop = "simulate" /\ frame \in Enclosing[loop] /\ frame \in Frames
           /\ TickOf(frame) \in Int /\ shown.tick \in Int
           /\ TickOf(frame) <= shown.tick
           /\ shown.tick < TickOf(frame) + Length[frame]
<1>1. /\ loop = "simulate" /\ at["simulate"] >= 1
      /\ shown.tick = ShortTick + (at["simulate"] - 1) * Length["simulate"]
  BY DEF DataInvariant, ShownTick
<1>2. /\ Types /\ "simulate" \in InnerFrames /\ "short" \in InnerFrames
      /\ "intermediate" \in InnerFrames /\ frame \in Frames
      /\ frame \in Enclosing["simulate"]
      /\ at["simulate"] <= Iterations("simulate")
      /\ \A e \in {"long", "intermediate", "short"} : at[e] < Iterations(e)
  BY <1>1, FrameNames DEF DataInvariant, Positions, WindowFrames, InnerFrames
<1>3. at["long"] < Len(clock)
  BY <1>2 DEF Iterations
<1>4. \A e \in Frames : TickOf(e) \in Int /\ at[e] \in Nat /\ Length[e] \in Nat \ {0}
  BY <1>2, <1>3, TickTypes, LengthTypes
<1> DEFINE L == TickOf("long")        l == Length["long"]
           I == TickOf("intermediate") i == Length["intermediate"]
           S == TickOf("short")       s == Length["short"]
           T == TickOf("simulate")    u == Length["simulate"]
           k == at["simulate"]
           p == (at["simulate"] - 1) * Length["simulate"]
<1>5. /\ L \in Int /\ I \in Int /\ S \in Int /\ T \in Int /\ k \in Nat /\ k >= 1
      /\ l \in Nat \ {0} /\ i \in Nat \ {0} /\ s \in Nat \ {0} /\ u \in Nat \ {0}
  BY <1>1, <1>4, FrameNames
<1>6. /\ L <= I /\ I + i <= L + l /\ I <= S /\ S + s <= I + i /\ T <= S + s
      /\ T = S + k * u
  BY <1>2, <1>3, TickInside, FrameNames
<1>7. p \in Nat /\ k * u = p + u
  <2> HIDE DEF k, u
  <2>1. (k - 1) \in Nat
    BY <1>5
  <2>2. (k - 1) * u \in Nat /\ k * u = (k - 1) * u + u
    BY <1>5, <2>1
  <2> QED BY <2>2 DEF k, u
<1>8. shown.tick = S + p
  BY <1>1, TickNames
<1>9. frame = "long" \/ frame = "intermediate" \/ frame = "short"
  BY DEF WindowFrames
<1> HIDE DEF L, l, I, i, S, s, T, u, k, p
<1>10. T = S + p + u
  BY <1>5, <1>6, <1>7
<1>11. /\ S + p \in Int
       /\ L <= S + p /\ S + p < L + l /\ I <= S + p /\ S + p < I + i
       /\ S <= S + p /\ S + p < S + s
  BY <1>5, <1>6, <1>7, <1>10
<1> QED
  BY <1>1, <1>2, <1>4, <1>8, <1>9, <1>11 DEF L, l, I, i, S, s

\* The windows are those of the open ticks.
LEMMA ShownWindow ==
    ASSUME DataInvariant, shown # None, NEW frame \in WindowFrames,
           NEW pair \in shown.pairs
    PROVE  /\ pair \in ToSet(Pairs)
           /\ TickOf(frame) \in Stored(pair, frame)
           /\ Reaches(Stored(pair, frame), TickOf(frame), HistDataCount)
           /\ windows[frame][<<pair, frame>>] =
                 Window(Stored(pair, frame), TickOf(frame), HistDataCount)
<1>1. pair \in ToSet(Pairs)
  BY DEF DataInvariant, ShownTick
<1>2. loop \in Frames /\ frame \in Enclosing[loop]
  BY ShownIsEnclosed, FrameNames
<1> QED
  BY <1>1, <1>2 DEF DataInvariant, OpenWindows

\* For every file, every division of the time frames and every clock, each candle
\* of the strategy's windows has ended when the tick that is simulated begins.
THEOREM TheFutureIsUnknown == Spec => []NoLookAhead
<1>1. ASSUME DataInvariant PROVE NoLookAhead
  <2>1. SUFFICES ASSUME shown # None, NEW frame \in WindowFrames, NEW pair \in shown.pairs,
                        NEW u \in windows[frame][<<pair, frame>>]
                 PROVE  u + Length[frame] <= shown.tick
    BY DEF NoLookAhead
  <2> DEFINE S == Stored(pair, frame)
             t == TickOf(frame)
  <2>2. /\ pair \in ToSet(Pairs) /\ t \in S
        /\ windows[frame][<<pair, frame>>] = Window(S, t, HistDataCount)
    BY <1>1, <2>1, ShownWindow
  <2>3. frame \in Frames /\ t \in Int /\ shown.tick \in Int /\ t <= shown.tick
    BY <1>1, <2>1, ShownIsEnclosed
  <2>4. u \in S /\ u < t
    BY <2>1, <2>2 DEF Window
  <2>5. /\ S \in SUBSET Int /\ u + Length[frame] <= t
    BY <1>1, <2>2, <2>3, <2>4, StoredTypes DEF DataInvariant
  <2>6. u \in Int /\ Length[frame] \in Nat
    BY <2>3, <2>4, <2>5, LengthTypes
  <2> HIDE DEF t, S
  <2> QED
    BY <2>3, <2>5, <2>6
<1> QED
  BY DataInvariantHolds, <1>1, PTL

\* The windows have kHistDataCount candles, and of the candles that have ended
\* they leave out only what is older than all of them.
THEOREM NothingOfThePastIsMissing == Spec => []WindowsAreCurrent
<1>1. ASSUME DataInvariant PROVE WindowsAreCurrent
  <2>1. SUFFICES ASSUME shown # None, NEW frame \in WindowFrames, NEW pair \in shown.pairs
                 PROVE  LET window == windows[frame][<<pair, frame>>]
                        IN  /\ Cardinality(window) = HistDataCount
                            /\ \A u \in stored[<<pair, frame>>] :
                                  u + Length[frame] <= shown.tick =>
                                      u \in window \/ \A v \in window : u < v
    BY DEF WindowsAreCurrent
  <2> DEFINE S == Stored(pair, frame)
             t == TickOf(frame)
             W == Window(S, t, HistDataCount)
  <2>2. /\ pair \in ToSet(Pairs) /\ Reaches(S, t, HistDataCount)
        /\ windows[frame][<<pair, frame>>] = W
    BY <1>1, <2>1, ShownWindow
  <2>3. /\ frame \in Frames /\ t \in Int /\ shown.tick \in Int
        /\ shown.tick < t + Length[frame]
    BY <1>1, <2>1, ShownIsEnclosed
  <2>4. /\ S \in SUBSET Int /\ IsFiniteSet(S) /\ HistDataCount \in Nat
        /\ Length[frame] \in Nat /\ S = stored[<<pair, frame>>]
    BY <1>1, <2>2, <2>3, StoredTypes, LengthTypes, FrameAssumption DEF DataInvariant, Stored
  <2> HIDE DEF S, t
  <2>5. Cardinality(W) = HistDataCount
    BY <2>2, <2>3, <2>4, WindowSize
  <2>6. ASSUME NEW u \in S, u + Length[frame] <= shown.tick, u \notin W, NEW v \in W
        PROVE  u < v
    <3>1. u < t
      BY <2>3, <2>4, <2>6
    <3> QED
      BY <2>3, <2>4, <2>6, <3>1, WindowIsNewest
  <2> HIDE DEF W
  <2> QED
    BY <2>2, <2>4, <2>5, <2>6
<1> QED
  BY DataInvariantHolds, <1>1, PTL

\* Simulated time moves forward only, whatever is missing in the history.
THEOREM TimeNeverGoesBack == Spec => []TimeMovesForward
<1>1. ASSUME DataInvariant PROVE TimeMovesForward
  <2>1. SUFFICES ASSUME NEW i \in 2..Len(ticks) PROVE ticks[i - 1] < ticks[i]
    BY DEF TimeMovesForward
  <2>2. Len(ticks) \in Nat
    BY <1>1 DEF DataInvariant, Types
  <2>3. i - 1 \in 1..Len(ticks) /\ i \in 1..Len(ticks) /\ i - 1 < i
    BY <2>1, <2>2
  <2> QED
    BY <1>1, <2>3 DEF DataInvariant, TicksBehind
<1> QED
  BY DataInvariantHolds, <1>1, PTL

\* A time frame whose window was filled once never crashes the backtest.
THEOREM HistoryIsNeverLost == Spec => []CrashesOnlyAtTheStart
<1>1. DataInvariant => CrashesOnlyAtTheStart
  BY DEF DataInvariant
<1> QED
  BY DataInvariantHolds, <1>1, PTL
----------------------------------------------------------------------------
(* What a gap costs                                                        *)

Has(frame, t) == \A pair \in ToSet(Pairs) : t \in Stored(pair, frame)

\* The ticks of the four loops, by the number of the long tick and the iterations.
IntermediateAt(n, i) == clock[n] + i * Length["intermediate"]
ShortAt(n, i, j) == IntermediateAt(n, i) + j * Length["short"]
SimulateAt(n, i, j, k) == ShortAt(n, i, j) + k * Length["simulate"]

\* The iterations of a loop, and the tuples of them.
Iteration(frame) == 0..(Iterations(frame) - 1)
Tuples ==
    (1..Len(clock)) \X Iteration("intermediate") \X Iteration("short") \X Iteration("simulate")

\* Nothing was missing up to an iteration of the short loop.
ReachedAt(n, i, j) ==
    /\ Has("long", clock[n])
    /\ \A p \in 0..i : Has("intermediate", IntermediateAt(n, p))
    /\ \A p \in 0..i, q \in Iteration("short") :
          p < i \/ q <= j => Has("short", ShortAt(n, p, q))

\* The iteration the program is at, of each loop that is open.
Now(frame) == IF frame = "long" THEN at["long"] + 1 ELSE at[frame]

\* The program has left an iteration behind.
Past(m) ==
    \/ loop = "done"
    \/ m[1] < Now("long")
    \/ /\ m[1] = Now("long") /\ loop \in InnerFrames
       /\ \/ m[2] < Now("intermediate")
          \/ /\ m[2] = Now("intermediate") /\ loop \in {"short", "simulate"}
             /\ \/ m[3] < Now("short")
                \/ m[3] = Now("short") /\ loop = "simulate" /\ m[4] < Now("simulate")

\* What was simulated is what lies behind and could be reached.
Covered ==
    loop # "crashed" =>
        /\ \A x \in ToSet(ticks) : \E m \in Tuples :
             Past(m) /\ ReachedAt(m[1], m[2], m[3]) /\ x = SimulateAt(m[1], m[2], m[3], m[4])
        /\ \A m \in Tuples :
             Past(m) /\ ReachedAt(m[1], m[2], m[3]) =>
                 SimulateAt(m[1], m[2], m[3], m[4]) \in ToSet(ticks)

\* Nothing was missing in the long tick that is open, up to where the program is.
ReachedSoFar ==
    /\ loop \in InnerFrames =>
         /\ Has("long", clock[Now("long")])
         /\ \A p \in 0..(Now("intermediate") - 1) :
              /\ Has("intermediate", IntermediateAt(Now("long"), p))
              /\ \A q \in Iteration("short") : Has("short", ShortAt(Now("long"), p, q))
    /\ loop \in {"short", "simulate"} =>
         /\ Has("intermediate", IntermediateAt(Now("long"), Now("intermediate")))
         /\ \A q \in 0..(Now("short") - 1) :
              Has("short", ShortAt(Now("long"), Now("intermediate"), q))
    /\ loop = "simulate" =>
         Has("short", ShortAt(Now("long"), Now("intermediate"), Now("short")))

LEMMA TupleTypes ==
    ASSUME Types
    PROVE  /\ \A m \in Tuples :
                 /\ m[1] \in 1..Len(clock) /\ m[1] \in Int
                 /\ m[2] \in Iteration("intermediate") /\ m[2] \in Int /\ 0 <= m[2]
                 /\ m[3] \in Iteration("short") /\ m[3] \in Int /\ 0 <= m[3]
                 /\ m[4] \in Iteration("simulate") /\ m[4] \in Int /\ 0 <= m[4]
                 /\ m = <<m[1], m[2], m[3], m[4]>>
           /\ \A frame \in InnerFrames : Iterations(frame) \in Nat
           /\ \A frame \in Frames : at[frame] \in Nat
           /\ Len(clock) \in Nat
<1>1. \A frame \in InnerFrames : Iterations(frame) \in Nat
  <2> TAKE frame \in InnerFrames
  <2>1. /\ frame # "long" /\ Length[frame] \in Nat \ {0} /\ Length[Outer[frame]] \in Nat \ {0}
        /\ Length[Outer[frame]] % Length[frame] = 0
    BY FrameAssumption, FrameNames DEF InnerFrames
  <2>2. Length[Outer[frame]] \div Length[frame] \in Nat
    BY <2>1, Division
  <2> QED
    BY <2>1, <2>2 DEF Iterations
<1>2. Len(clock) \in Nat
  BY DataAssumption DEF Types
<1> QED
  BY <1>1, <1>2, FrameNames DEF Types, Tuples, Iteration, InnerFrames

\* The ticks of the loops that are open are those of their iterations.
LEMMA NowTicks ==
    /\ TickOf("long") = clock[Now("long")]
    /\ TickOf("intermediate") = IntermediateAt(Now("long"), Now("intermediate"))
    /\ TickOf("short") = ShortAt(Now("long"), Now("intermediate"), Now("short"))
    /\ TickOf("simulate") =
          SimulateAt(Now("long"), Now("intermediate"), Now("short"), Now("simulate"))
BY DEF TickOf, LongTick, IntermediateTick, ShortTick, SimulateTick, Now, IntermediateAt,
       ShortAt, SimulateAt

\* File and clock do not change, nor does what is in them.
LEMMA SameGaps ==
    ASSUME UNCHANGED <<stored, clock>>
    PROVE  /\ Tuples' = Tuples
           /\ \A frame : Iteration(frame)' = Iteration(frame)
           /\ \A frame, t : Has(frame, t)' <=> Has(frame, t)
           /\ \A n, i : IntermediateAt(n, i)' = IntermediateAt(n, i)
           /\ \A n, i, j : ShortAt(n, i, j)' = ShortAt(n, i, j)
           /\ \A n, i, j, k : SimulateAt(n, i, j, k)' = SimulateAt(n, i, j, k)
           /\ \A n, i, j : ReachedAt(n, i, j)' <=> ReachedAt(n, i, j)
BY DEF Tuples, Iteration, Iterations, Has, Stored, IntermediateAt, ShortAt, SimulateAt, ReachedAt

\* A step that simulates nothing, and leaves nothing behind that was reached.
LEMMA CoveredKept ==
    ASSUME Covered, loop # "crashed", UNCHANGED <<stored, clock, ticks>>,
           \A m \in Tuples : ReachedAt(m[1], m[2], m[3]) => (Past(m)' <=> Past(m))
    PROVE  Covered'
<1>1. /\ Tuples' = Tuples
      /\ \A n, i, j : ReachedAt(n, i, j)' <=> ReachedAt(n, i, j)
      /\ \A n, i, j, k : SimulateAt(n, i, j, k)' = SimulateAt(n, i, j, k)
  BY SameGaps
<1>2. ToSet(ticks)' = ToSet(ticks)
  BY DEF ToSet
<1>3. ASSUME NEW x \in ToSet(ticks)'
      PROVE  \E m \in Tuples' : /\ Past(m)' /\ ReachedAt(m[1], m[2], m[3])'
                                /\ x = SimulateAt(m[1], m[2], m[3], m[4])'
  <2>1. PICK m \in Tuples : /\ Past(m) /\ ReachedAt(m[1], m[2], m[3])
                            /\ x = SimulateAt(m[1], m[2], m[3], m[4])
    BY <1>2, <1>3 DEF Covered
  <2> QED
    BY <1>1, <2>1
<1>4. ASSUME NEW m \in Tuples', Past(m)', ReachedAt(m[1], m[2], m[3])'
      PROVE  SimulateAt(m[1], m[2], m[3], m[4])' \in ToSet(ticks)'
  <2>1. m \in Tuples /\ Past(m) /\ ReachedAt(m[1], m[2], m[3])
    BY <1>1, <1>4
  <2> QED
    BY <1>1, <1>2, <2>1 DEF Covered
<1> QED
  BY <1>3, <1>4 DEF Covered

\* What a lookup that is skipped over has not found.
LEMMA HistoryOutOfRange ==
    ASSUME Types, NEW frame \in Frames, Outcome(HistoryOf(frame)) = "out_of_range"
    PROVE  ~Has(frame, TickOf(frame))
<1> DEFINE c == HistoryOf(frame)
<1>1. /\ c.datasets = NamesOf(frame) /\ c.kind = "history" /\ c.begin = TickOf(frame)
  BY DEF HistoryOf
<1>2. DOMAIN c.datasets = 1..Len(Pairs) /\ Len(Pairs) \in Nat
  BY <1>1, NamesTypes
<1> HIDE DEF c
<1>3. PICK i \in 1..Len(Pairs) : OutcomeFor(c, stored[c.datasets[i]]) = "out_of_range"
  BY <1>2, FirstFailure DEF c
<1>4. Pairs[i] \in ToSet(Pairs) /\ OutcomeFor(c, Stored(Pairs[i], frame)) = "out_of_range"
  BY <1>1, <1>3, NamesTypes DEF Stored
<1>5. TickOf(frame) \notin Stored(Pairs[i], frame)
  BY <1>1, <1>4 DEF OutcomeFor
<1> QED
  BY <1>4, <1>5 DEF Has

\* A history that was found has the tick of its loop.
LEMMA HistoryHas ==
    ASSUME Types, NEW frame \in Frames, Outcome(HistoryOf(frame)) = "returned"
    PROVE  Has(frame, TickOf(frame))
BY HistoryReturned DEF Has

\* Where the program is in a long tick after a step, and what was found on the way.
LEMMA SoFarThen ==
    ASSUME UNCHANGED <<stored, clock>>, NEW a, NEW b, NEW c,
           Now("long")' = a, Now("intermediate")' = b, Now("short")' = c,
           loop' \in InnerFrames =>
               /\ Has("long", clock[a])
               /\ \A p \in 0..(b - 1) :
                     /\ Has("intermediate", IntermediateAt(a, p))
                     /\ \A q \in Iteration("short") : Has("short", ShortAt(a, p, q)),
           loop' \in {"short", "simulate"} =>
               /\ Has("intermediate", IntermediateAt(a, b))
               /\ \A q \in 0..(c - 1) : Has("short", ShortAt(a, b, q)),
           loop' = "simulate" => Has("short", ShortAt(a, b, c))
    PROVE  ReachedSoFar'
BY SameGaps DEF ReachedSoFar

LEMMA GapEnter ==
    ASSUME DataInvariant, Covered, ReachedSoFar, EnterLoop
    PROVE  Covered' /\ ReachedSoFar'
<1>1. /\ Answered /\ loop \in WindowFrames /\ outcome = "returned"
      /\ loop' = Inner[loop] /\ at' = [at EXCEPT ![Inner[loop]] = 0]
      /\ UNCHANGED <<stored, clock, ticks>>
  BY DEF EnterLoop, historyVars
<1>2. /\ Types /\ loop \in Frames /\ loop # "simulate" /\ loop # "crashed" /\ loop # "done"
      /\ at \in [Frames -> Nat]
  BY <1>1, FrameNames DEF DataInvariant, Types, WindowFrames
<1>3. Has(loop, TickOf(loop))
  <2>1. Outcome(HistoryOf(loop)) = "returned"
    BY <1>1, <1>2, AnsweredTypes
  <2> QED
    BY <1>2, <2>1, HistoryHas
<1>4. PICK a \in Int, b \in Int, c \in Int :
         /\ a = Now("long") /\ b = Now("intermediate") /\ c = Now("short")
         /\ b >= 0 /\ c >= 0
  BY <1>2, FrameNames DEF Now
<1>5. CASE loop = "long"
  <2>1. /\ loop' = "intermediate" /\ at'["long"] = at["long"] /\ at'["intermediate"] = 0
    BY <1>1, <1>2, <1>5, FrameNames
  <2>2. Now("long")' = a /\ Now("intermediate")' = 0
    BY <1>4, <2>1 DEF Now
  <2>3. \A m \in Tuples : Past(m)' <=> Past(m)
    BY <1>2, <1>4, <1>5, <2>1, <2>2, TupleTypes DEF Past, InnerFrames
  <2>4. Has("long", clock[a])
    BY <1>3, <1>4, <1>5, NowTicks
  <2>5. ReachedSoFar'
    BY <1>1, <2>1, <2>2, <2>4, SoFarThen
  <2> QED
    BY <1>1, <1>2, <2>3, <2>5, CoveredKept
<1>6. CASE loop = "intermediate"
  <2>1. /\ loop' = "short" /\ at'["long"] = at["long"]
        /\ at'["intermediate"] = at["intermediate"] /\ at'["short"] = 0
    BY <1>1, <1>2, <1>6, FrameNames
  <2>2. Now("long")' = a /\ Now("intermediate")' = b /\ Now("short")' = 0
    BY <1>4, <2>1 DEF Now
  <2>3. \A m \in Tuples : Past(m)' <=> Past(m)
    BY <1>2, <1>4, <1>6, <2>1, <2>2, TupleTypes DEF Past, InnerFrames
  <2>4. Has("intermediate", IntermediateAt(a, b))
    BY <1>3, <1>4, <1>6, NowTicks
  <2>5. ReachedSoFar'
    BY <1>1, <1>4, <1>6, <2>1, <2>2, <2>4, SoFarThen DEF ReachedSoFar, InnerFrames
  <2> QED
    BY <1>1, <1>2, <2>3, <2>5, CoveredKept
<1>7. CASE loop = "short"
  <2>1. /\ loop' = "simulate" /\ at'["long"] = at["long"] /\ at'["short"] = at["short"]
        /\ at'["intermediate"] = at["intermediate"] /\ at'["simulate"] = 0
    BY <1>1, <1>2, <1>7, FrameNames
  <2>2. /\ Now("long")' = a /\ Now("intermediate")' = b /\ Now("short")' = c
        /\ Now("simulate")' = 0
    BY <1>4, <2>1 DEF Now
  <2>3. \A m \in Tuples : Past(m)' <=> Past(m)
    BY <1>2, <1>4, <1>7, <2>1, <2>2, TupleTypes DEF Past, InnerFrames
  <2>4. Has("short", ShortAt(a, b, c))
    BY <1>3, <1>4, <1>7, NowTicks
  <2>5. ReachedSoFar'
    BY <1>1, <1>4, <1>7, <2>1, <2>2, <2>4, SoFarThen DEF ReachedSoFar, InnerFrames
  <2> QED
    BY <1>1, <1>2, <2>3, <2>5, CoveredKept
<1> QED
  BY <1>1, <1>5, <1>6, <1>7 DEF WindowFrames

LEMMA GapSimulate ==
    ASSUME DataInvariant, Covered, ReachedSoFar, SimulateTickOfPairs
    PROVE  Covered' /\ ReachedSoFar'
<1>1. /\ Answered /\ loop = "simulate" /\ loop' = loop
      /\ ticks' = Append(ticks, SimulateTick) /\ at' = [at EXCEPT !["simulate"] = @ + 1]
      /\ UNCHANGED <<stored, clock>>
  BY DEF SimulateTickOfPairs, Advance, historyVars
<1>2. /\ Types /\ at \in [Frames -> Nat] /\ "simulate" \in Frames /\ ticks \in Seq(Int)
  BY FrameNames DEF DataInvariant, Types
<1>3. /\ at["long"] < Len(clock) /\ at["simulate"] < Iterations("simulate")
      /\ at["intermediate"] < Iterations("intermediate")
      /\ at["short"] < Iterations("short")
  <2>1. InRange /\ at[loop] < Iterations(loop)
    BY <1>1, <1>2, AnsweredTypes
  <2> QED
    BY <1>1, <1>2, <2>1, FrameNames DEF DataInvariant, Positions, InRange
<1>4. PICK a \in Int, b \in Int, c \in Int, d \in Int :
         /\ a = Now("long") /\ b = Now("intermediate") /\ c = Now("short") /\ d = Now("simulate")
         /\ b >= 0 /\ c >= 0 /\ d >= 0
  BY <1>2, FrameNames DEF Now
<1>5. /\ Now("long")' = a /\ Now("intermediate")' = b /\ Now("short")' = c
      /\ Now("simulate")' = d + 1
  BY <1>1, <1>2, <1>4, FrameNames DEF Now
<1>6. <<a, b, c, d>> \in Tuples
  <2>1. /\ a = at["long"] + 1 /\ b = at["intermediate"] /\ c = at["short"]
        /\ d = at["simulate"]
    BY <1>4 DEF Now
  <2>2. \A frame \in {"intermediate", "short", "simulate"} : Iterations(frame) \in Nat
    BY <1>2, TupleTypes DEF InnerFrames
  <2>3. Len(clock) \in Nat /\ a <= Len(clock) /\ a >= 1
    <3>1. at["long"] \in Nat /\ Len(clock) \in Nat
      BY <1>2, TupleTypes, FrameNames
    <3> QED
      BY <1>3, <2>1, <3>1
  <2>4. /\ b \in 0..(Iterations("intermediate") - 1) /\ c \in 0..(Iterations("short") - 1)
        /\ d \in 0..(Iterations("simulate") - 1)
    BY <1>3, <1>4, <2>1, <2>2
  <2> QED
    BY <2>3, <2>4 DEF Tuples, Iteration
<1>7. ReachedAt(a, b, c)
  <2>1. Has("long", clock[a])
    BY <1>1, <1>4 DEF ReachedSoFar, InnerFrames
  <2>2. ASSUME NEW p \in 0..b PROVE Has("intermediate", IntermediateAt(a, p))
    BY <1>1, <1>4 DEF ReachedSoFar, InnerFrames
  <2>3. ASSUME NEW p \in 0..b, NEW q \in Iteration("short"), p < b \/ q <= c
        PROVE  Has("short", ShortAt(a, p, q))
    <3>1. CASE p < b
      <4>1. p \in 0..(b - 1)
        BY <1>4, <3>1
      <4> QED
        BY <1>1, <1>4, <4>1 DEF ReachedSoFar, InnerFrames
    <3>2. CASE p = b /\ q < c
      <4>1. q \in 0..(c - 1)
        BY <1>4, <3>2 DEF Iteration
      <4> QED
        BY <1>1, <1>4, <3>2, <4>1 DEF ReachedSoFar
    <3>3. CASE p = b /\ q = c
      BY <1>1, <1>4, <3>3 DEF ReachedSoFar
    <3>4. q \in Int
      BY DEF Iteration
    <3> QED
      BY <1>4, <2>3, <3>1, <3>2, <3>3, <3>4
  <2> QED
    BY <2>1, <2>2, <2>3 DEF ReachedAt
<1>8. SimulateTick = SimulateAt(a, b, c, d)
  BY <1>4, NowTicks, TickNames
<1>9. ToSet(ticks)' = ToSet(ticks) \cup {SimulateAt(a, b, c, d)}
  <2>1. SimulateAt(a, b, c, d) \in Int
    BY <1>2, <1>3, <1>8, TickTypes, TickNames
  <2> DEFINE t == SimulateAt(a, b, c, d)
  <2>2. ticks' = Append(ticks, t)
    BY <1>1, <1>8
  <2> HIDE DEF t
  <2>3. /\ Len(ticks') = Len(ticks) + 1 /\ Len(ticks) \in Nat /\ ticks'[Len(ticks) + 1] = t
        /\ \A i \in 1..Len(ticks) : ticks'[i] = ticks[i]
        /\ DOMAIN ticks = 1..Len(ticks) /\ DOMAIN ticks' = 1..(Len(ticks) + 1)
    BY <1>2, <2>1, <2>2 DEF t
  <2>4. ASSUME NEW x \in ToSet(ticks)' PROVE x \in ToSet(ticks) \cup {t}
    BY <2>3, <2>4 DEF ToSet
  <2>5. ASSUME NEW x \in ToSet(ticks) \cup {t} PROVE x \in ToSet(ticks)'
    BY <2>3, <2>5 DEF ToSet
  <2>6. ToSet(ticks)' = ToSet(ticks) \cup {t}
    BY <2>4, <2>5
  <2> QED
    BY <2>6 DEF t
<1>10. \A m \in Tuples : Past(m)' <=> Past(m) \/ m = <<a, b, c, d>>
  <2> TAKE m \in Tuples
  <2>1. /\ m[1] \in Int /\ m[2] \in Int /\ m[3] \in Int /\ m[4] \in Int
        /\ m = <<m[1], m[2], m[3], m[4]>>
    BY <1>2, TupleTypes
  <2>2. Past(m)' <=> \/ m[1] < a
                     \/ m[1] = a /\ m[2] < b
                     \/ m[1] = a /\ m[2] = b /\ m[3] < c
                     \/ m[1] = a /\ m[2] = b /\ m[3] = c /\ m[4] < d + 1
    BY <1>1, <1>5 DEF Past, InnerFrames
  <2>3. Past(m) <=> \/ m[1] < a
                    \/ m[1] = a /\ m[2] < b
                    \/ m[1] = a /\ m[2] = b /\ m[3] < c
                    \/ m[1] = a /\ m[2] = b /\ m[3] = c /\ m[4] < d
    BY <1>1, <1>4 DEF Past, InnerFrames
  <2>4. m = <<a, b, c, d>> <=> m[1] = a /\ m[2] = b /\ m[3] = c /\ m[4] = d
    BY <2>1
  <2> QED
    BY <1>4, <2>1, <2>2, <2>3, <2>4
<1>11. /\ Tuples' = Tuples
       /\ \A n, i, j : ReachedAt(n, i, j)' <=> ReachedAt(n, i, j)
       /\ \A n, i, j, k : SimulateAt(n, i, j, k)' = SimulateAt(n, i, j, k)
  BY <1>1, SameGaps
<1>12. ASSUME NEW x \in ToSet(ticks)'
       PROVE  \E m \in Tuples' : /\ Past(m)' /\ ReachedAt(m[1], m[2], m[3])'
                                 /\ x = SimulateAt(m[1], m[2], m[3], m[4])'
  <2>1. CASE x \in ToSet(ticks)
    <3>1. PICK m \in Tuples : /\ Past(m) /\ ReachedAt(m[1], m[2], m[3])
                              /\ x = SimulateAt(m[1], m[2], m[3], m[4])
      BY <1>1, <2>1 DEF Covered
    <3> QED
      BY <1>10, <1>11, <3>1
  <2>2. CASE x = SimulateAt(a, b, c, d)
    <3>1. PICK m \in Tuples : m = <<a, b, c, d>>
      BY <1>6
    <3>2. m[1] = a /\ m[2] = b /\ m[3] = c /\ m[4] = d
      BY <3>1
    <3> QED
      BY <1>7, <1>10, <1>11, <2>2, <3>1, <3>2
  <2> QED
    BY <1>9, <2>1, <2>2
<1>13. ASSUME NEW m \in Tuples', Past(m)', ReachedAt(m[1], m[2], m[3])'
       PROVE  SimulateAt(m[1], m[2], m[3], m[4])' \in ToSet(ticks)'
  <2>1. m \in Tuples /\ ReachedAt(m[1], m[2], m[3]) /\ (Past(m) \/ m = <<a, b, c, d>>)
    BY <1>10, <1>11, <1>13
  <2>2. CASE Past(m)
    BY <1>1, <1>9, <1>11, <2>1, <2>2 DEF Covered
  <2>3. CASE m = <<a, b, c, d>>
    <3>1. m[1] = a /\ m[2] = b /\ m[3] = c /\ m[4] = d
      BY <2>3
    <3> QED
      BY <1>9, <1>11, <3>1
  <2> QED
    BY <2>1, <2>2, <2>3
<1>14. Covered'
  BY <1>12, <1>13 DEF Covered
<1>15. ReachedSoFar'
  BY <1>1, <1>4, <1>5, SoFarThen DEF ReachedSoFar, InnerFrames
<1> QED
  BY <1>14, <1>15

LEMMA GapLeave ==
    ASSUME DataInvariant, Covered, ReachedSoFar, LeaveLoop
    PROVE  Covered' /\ ReachedSoFar'
<1>1. /\ loop \in InnerFrames /\ at[loop] = Iterations(loop)
      /\ loop' = Outer[loop] /\ at' = [at EXCEPT ![Outer[loop]] = @ + 1]
      /\ UNCHANGED <<stored, clock, ticks>>
  BY FrameNames DEF LeaveLoop, Advance, historyVars
<1>2. /\ Types /\ loop \in Frames /\ loop # "crashed" /\ loop # "done"
      /\ at \in [Frames -> Nat]
  BY <1>1, FrameNames DEF DataInvariant, Types, InnerFrames
<1>3. PICK a \in Int, b \in Int, c \in Int, d \in Int :
         /\ a = Now("long") /\ b = Now("intermediate") /\ c = Now("short") /\ d = Now("simulate")
         /\ b >= 0 /\ c >= 0 /\ d >= 0
  BY <1>2, FrameNames DEF Now
<1>4. \A m \in Tuples :
         /\ m[1] \in Int /\ m[2] \in Int /\ m[3] \in Int /\ m[4] \in Int
         /\ 0 <= m[2] /\ 0 <= m[3] /\ 0 <= m[4]
         /\ m[2] < Iterations("intermediate") /\ m[3] < Iterations("short")
         /\ m[4] < Iterations("simulate")
         /\ Iterations("intermediate") \in Nat /\ Iterations("short") \in Nat
         /\ Iterations("simulate") \in Nat
  BY <1>2, TupleTypes DEF Iteration, InnerFrames
<1>5. CASE loop = "intermediate"
  <2>1. loop' = "long" /\ at'["long"] = at["long"] + 1 /\ b = Iterations("intermediate")
    BY <1>1, <1>2, <1>3, <1>5, FrameNames DEF Now
  <2>2. PICK y \in Int, z \in Int :
           Now("long")' = a + 1 /\ Now("intermediate")' = y /\ Now("short")' = z
    BY <1>1, <1>2, <1>3, <1>5, <2>1, FrameNames DEF Now
  <2>3. \A m \in Tuples : Past(m)' <=> Past(m)
    BY <1>3, <1>4, <1>5, <2>1, <2>2 DEF Past, InnerFrames
  <2>4. ReachedSoFar'
    BY <2>1, FrameNames DEF ReachedSoFar, InnerFrames
  <2> QED
    BY <1>1, <1>2, <2>3, <2>4, CoveredKept
<1>6. CASE loop = "short"
  <2>1. /\ loop' = "intermediate" /\ at'["long"] = at["long"]
        /\ at'["intermediate"] = at["intermediate"] + 1 /\ c = Iterations("short")
    BY <1>1, <1>2, <1>3, <1>6, FrameNames DEF Now
  <2>2. Now("long")' = a /\ Now("intermediate")' = b + 1
    BY <1>3, <2>1 DEF Now
  <2>3. \A m \in Tuples : Past(m)' <=> Past(m)
    BY <1>3, <1>4, <1>6, <2>1, <2>2 DEF Past, InnerFrames
  <2>4. Has("long", clock[a])
    BY <1>3, <1>6 DEF ReachedSoFar, InnerFrames
  <2>5. ASSUME NEW p \in 0..((b + 1) - 1)
        PROVE  /\ Has("intermediate", IntermediateAt(a, p))
               /\ \A q \in Iteration("short") : Has("short", ShortAt(a, p, q))
    <3>1. CASE p = b
      BY <1>3, <1>6, <2>1, <3>1 DEF ReachedSoFar, Iteration
    <3>2. CASE p \in 0..(b - 1)
      BY <1>3, <1>6, <3>2 DEF ReachedSoFar, InnerFrames
    <3> QED
      BY <1>3, <3>1, <3>2
  <2>6. PICK z : Now("short")' = z
    OBVIOUS
  <2>7. ReachedSoFar'
    BY <1>1, <2>1, <2>2, <2>4, <2>5, <2>6, SoFarThen
  <2> QED
    BY <1>1, <1>2, <2>3, <2>7, CoveredKept
<1>7. CASE loop = "simulate"
  <2>1. /\ loop' = "short" /\ at'["long"] = at["long"] /\ at'["short"] = at["short"] + 1
        /\ at'["intermediate"] = at["intermediate"] /\ d = Iterations("simulate")
    BY <1>1, <1>2, <1>3, <1>7, FrameNames DEF Now
  <2>2. Now("long")' = a /\ Now("intermediate")' = b /\ Now("short")' = c + 1
    BY <1>3, <2>1 DEF Now
  <2>3. \A m \in Tuples : Past(m)' <=> Past(m)
    BY <1>3, <1>4, <1>7, <2>1, <2>2 DEF Past, InnerFrames
  <2>4. /\ Has("long", clock[a])
        /\ \A p \in 0..(b - 1) :
              /\ Has("intermediate", IntermediateAt(a, p))
              /\ \A q \in Iteration("short") : Has("short", ShortAt(a, p, q))
        /\ Has("intermediate", IntermediateAt(a, b))
    BY <1>3, <1>7 DEF ReachedSoFar, InnerFrames
  <2>5. ASSUME NEW q \in 0..((c + 1) - 1) PROVE Has("short", ShortAt(a, b, q))
    <3>1. CASE q = c
      BY <1>3, <1>7, <3>1 DEF ReachedSoFar
    <3>2. CASE q \in 0..(c - 1)
      BY <1>3, <1>7, <3>2 DEF ReachedSoFar
    <3> QED
      BY <1>3, <3>1, <3>2
  <2>6. ReachedSoFar'
    BY <1>1, <2>1, <2>2, <2>4, <2>5, SoFarThen
  <2> QED
    BY <1>1, <1>2, <2>3, <2>6, CoveredKept
<1> QED
  BY <1>1, <1>5, <1>6, <1>7 DEF InnerFrames

\* What is skipped over could not have been reached: a history was missing there.
LEMMA GapAbandon ==
    ASSUME DataInvariant, Covered, ReachedSoFar, Abandon
    PROVE  Covered' /\ ReachedSoFar'
<1>1. /\ Answered /\ outcome = "out_of_range" /\ loop' = "long"
      /\ at' = [at EXCEPT !["long"] = @ + 1]
      /\ UNCHANGED <<stored, clock, ticks>>
  BY DEF Abandon, Advance, historyVars
<1>2. /\ Types /\ loop \in Frames /\ loop # "crashed" /\ loop # "done"
      /\ at \in [Frames -> Nat] /\ "long" \in Frames
      /\ at[loop] < Iterations(loop)
      /\ call = IF loop = "simulate" THEN CandlesOf(loop) ELSE HistoryOf(loop)
      /\ Outcome(call) = "out_of_range"
  BY <1>1, AnsweredTypes, FrameNames DEF DataInvariant, Types
<1>3. loop # "simulate" /\ ~Has(loop, TickOf(loop))
  <2>1. loop # "simulate"
    BY <1>2, CandlesReturned
  <2>2. Outcome(HistoryOf(loop)) = "out_of_range"
    BY <1>2, <2>1
  <2> QED
    BY <1>2, <2>1, <2>2, HistoryOutOfRange
<1>4. PICK a \in Int, b \in Int, c \in Int :
         /\ a = Now("long") /\ b = Now("intermediate") /\ c = Now("short")
         /\ b >= 0 /\ c >= 0
  BY <1>2, FrameNames DEF Now
<1>5. Now("long")' = a + 1
  BY <1>1, <1>2, <1>4 DEF Now
<1>6. ASSUME NEW m \in Tuples, ReachedAt(m[1], m[2], m[3]) PROVE Past(m)' <=> Past(m)
  <2>1. /\ m[1] \in Int /\ m[2] \in Int /\ m[3] \in Int
        /\ 0 <= m[2] /\ 0 <= m[3] /\ m[3] \in Iteration("short")
    BY <1>2, TupleTypes
  <2>2. Past(m)' <=> m[1] < a + 1
    BY <1>1, <1>5 DEF Past, InnerFrames
  <2>3. ASSUME m[1] < a PROVE Past(m)
    BY <1>4, <2>3 DEF Past
  <2>4. ASSUME Past(m) PROVE m[1] < a \/ m[1] = a
    BY <1>2, <1>4, <2>4 DEF Past
  <2>5. ASSUME m[1] = a PROVE Past(m)
    <3>1. CASE loop = "long"
      <4>1. ~Has("long", clock[a])
        BY <1>3, <1>4, <3>1, NowTicks
      <4> QED
        BY <1>6, <2>5, <4>1 DEF ReachedAt
    <3>2. CASE loop = "intermediate"
      <4>1. ~Has("intermediate", IntermediateAt(a, b))
        BY <1>3, <1>4, <3>2, NowTicks
      <4>2. b \notin 0..m[2]
        BY <1>6, <2>5, <4>1 DEF ReachedAt
      <4>3. m[2] < b
        BY <1>4, <2>1, <4>2
      <4> QED
        BY <1>4, <2>5, <3>2, <4>3 DEF Past, InnerFrames
    <3>3. CASE loop = "short"
      <4>1. ~Has("short", ShortAt(a, b, c))
        BY <1>3, <1>4, <3>3, NowTicks
      <4>2. c \in Iteration("short")
        <5>1. c = at["short"] /\ Iterations("short") \in Nat /\ c < Iterations("short")
          BY <1>2, <1>4, <3>3, TupleTypes DEF Now, InnerFrames
        <5> QED
          BY <1>4, <5>1 DEF Iteration
      <4>3. ~(b \in 0..m[2] /\ (b < m[2] \/ c <= m[3]))
        BY <1>6, <2>5, <4>1, <4>2 DEF ReachedAt
      <4>4. m[2] < b \/ (m[2] = b /\ m[3] < c)
        BY <1>4, <2>1, <4>3
      <4> QED
        BY <1>4, <2>5, <3>3, <4>4 DEF Past, InnerFrames
    <3> QED
      BY <1>2, <1>3, <3>1, <3>2, <3>3, FrameNames
  <2> QED
    BY <1>4, <2>1, <2>2, <2>3, <2>4, <2>5
<1>7. Covered'
  BY <1>1, <1>2, <1>6, CoveredKept
<1>8. ReachedSoFar'
  BY <1>1, FrameNames DEF ReachedSoFar, InnerFrames
<1> QED
  BY <1>7, <1>8

LEMMA GapFinish ==
    ASSUME DataInvariant, Covered, ReachedSoFar, Finish
    PROVE  Covered' /\ ReachedSoFar'
<1>1. /\ loop = "long" /\ loop' = "done" /\ at["long"] = Iterations("long")
      /\ UNCHANGED <<stored, clock, at, ticks>>
  BY DEF Finish, historyVars
<1>2. Types
  BY DEF DataInvariant
<1>3. ASSUME NEW m \in Tuples PROVE Past(m)' <=> Past(m)
  <2>1. Past(m)'
    BY <1>1 DEF Past
  <2>2. m[1] < Now("long")
    BY <1>1, <1>2, TupleTypes DEF Now, Iterations
  <2> QED
    BY <2>1, <2>2 DEF Past
<1>4. Covered'
  BY <1>1, <1>3, CoveredKept
<1>5. ReachedSoFar'
  BY <1>1 DEF ReachedSoFar, InnerFrames
<1> QED
  BY <1>4, <1>5

LEMMA GapCrash ==
    ASSUME Crash
    PROVE  Covered' /\ ReachedSoFar'
BY DEF Crash, Covered, ReachedSoFar, InnerFrames

\* Steps of a lookup, which move no loop.
LEMMA GapKept ==
    ASSUME Covered, ReachedSoFar, UNCHANGED <<stored, clock, loop, at, ticks>>
    PROVE  Covered' /\ ReachedSoFar'
<1>1. \A frame : Now(frame)' = Now(frame)
  BY DEF Now
<1>2. \A m : Past(m)' <=> Past(m)
  BY <1>1 DEF Past
<1>3. Covered'
  <2>1. CASE loop = "crashed"
    BY <2>1 DEF Covered
  <2>2. CASE loop # "crashed"
    BY <1>2, <2>2, CoveredKept
  <2> QED BY <2>1, <2>2
<1>4. PICK a, b, c : /\ a = Now("long") /\ b = Now("intermediate") /\ c = Now("short")
  OBVIOUS
<1>5. ReachedSoFar'
  BY <1>1, <1>4, SoFarThen DEF ReachedSoFar
<1> QED
  BY <1>3, <1>5

LEMMA GapInit ==
    ASSUME Init, DataInvariant
    PROVE  Covered /\ ReachedSoFar
<1>1. /\ loop = "long" /\ at["long"] = 0 /\ ticks = <<>>
  BY FrameNames DEF Init
<1>2. ToSet(ticks) = {}
  BY <1>1 DEF ToSet
<1>3. ASSUME NEW m \in Tuples PROVE ~Past(m)
  BY <1>1, TupleTypes DEF Past, Now, DataInvariant, InnerFrames
<1>4. Covered
  BY <1>2, <1>3 DEF Covered
<1> QED
  BY <1>1, <1>4 DEF ReachedSoFar, InnerFrames

GapInvariant == DataInvariant /\ Covered /\ ReachedSoFar

LEMMA GapInvariantHolds == Spec => []GapInvariant
<1>1. Init => GapInvariant
  BY InitInvariant, GapInit DEF GapInvariant
<1>2. ASSUME GapInvariant, [Next]_vars PROVE Covered' /\ ReachedSoFar'
  <2> USE <1>2 DEF GapInvariant
  <2>1. CASE LookUp
    BY <2>1, GapKept DEF LookUp, Ask
  <2>2. CASE HistoryAnswers
    BY <2>2, GapKept DEF HistoryAnswers, Answer, loopVars
  <2>3. CASE UNCHANGED vars
    BY <2>3, GapKept DEF vars, historyVars, loopVars
  <2> QED
    BY <2>1, <2>2, <2>3, GapEnter, GapSimulate, GapLeave, GapAbandon, GapFinish, GapCrash
       DEF Next, Program
<1>3. GapInvariant /\ [Next]_vars => Covered' /\ ReachedSoFar'
  BY <1>2
<1> QED
  BY <1>1, <1>3, DataInvariantHolds, PTL DEF Spec, GapInvariant

\* A gap in the history of a pair costs the rest of its long tick, for all pairs, and
\* no more: src/apps/main.cpp catches out_of_range in its outermost loop only.
THEOREM GapsCostNoMore == Spec => []GapsCostALongTick
<1>1. ASSUME GapInvariant, loop = "done"
      PROVE  ToSet(ticks) =
                {SimulateAt(m[1], m[2], m[3], m[4]) :
                    m \in {t \in Tuples : ReachedAt(t[1], t[2], t[3])}}
  <2> DEFINE Expected == {SimulateAt(m[1], m[2], m[3], m[4]) :
                            m \in {t \in Tuples : ReachedAt(t[1], t[2], t[3])}}
  <2>1. /\ Covered /\ loop # "crashed" /\ \A m : Past(m)
    BY <1>1 DEF GapInvariant, Past
  <2>2. ASSUME NEW x \in ToSet(ticks) PROVE x \in Expected
    BY <2>1, <2>2 DEF Covered
  <2>3. ASSUME NEW x \in Expected PROVE x \in ToSet(ticks)
    BY <2>1, <2>3 DEF Covered
  <2> HIDE DEF Expected
  <2>4. ToSet(ticks) = Expected
    BY <2>2, <2>3
  <2> QED
    BY <2>4 DEF Expected
<1>2. GapInvariant => GapsCostALongTick
  BY <1>1 DEF GapsCostALongTick, SimulateAt, ShortAt, IntermediateAt, ReachedAt, Has, Stored,
              Tuples, Iteration
<1> QED
  BY <1>2, GapInvariantHolds, PTL
=============================================================================
