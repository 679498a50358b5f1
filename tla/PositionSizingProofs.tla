------------------------- MODULE PositionSizingProofs -------------------------
(***************************************************************************)
(* Proofs about the sizing of positions: for every account, price, stop    *)
(* loss, rate and risk percentage, and every width of int, an order has    *)
(* the side of its signal, a bounded loss and a margin within bounds.      *)
(***************************************************************************)
EXTENDS PositionSizing, TLAPS

----------------------------------------------------------------------------
(* Arithmetic                                                              *)

\* Multiplying by a natural number keeps the order.
LEMMA Scale ==
    ASSUME NEW a \in Int, NEW b \in Int, NEW h \in Nat, a <= b
    PROVE  a * h <= b * h
OBVIOUS

\* A positive factor can be left out.
LEMMA Unscale ==
    ASSUME NEW a \in Int, NEW b \in Int, NEW h \in Nat \ {0}, a * h <= b * h
    PROVE  a <= b
<1>1. SUFFICES ASSUME b + 1 <= a PROVE FALSE
  OBVIOUS
<1>2. (b + 1) * h <= a * h
  BY <1>1, Scale
<1>3. (b + 1) * h = b * h + h
  OBVIOUS
<1> QED
  BY <1>2, <1>3

LEMMA PositiveFactor ==
    ASSUME NEW a \in Int, NEW h \in Nat, 0 < a * h
    PROVE  0 < a
<1>1. SUFFICES ASSUME a <= 0 PROVE FALSE
  OBVIOUS
<1>2. a * h <= 0 * h
  BY <1>1, Scale
<1> QED
  BY <1>2

LEMMA PositiveProduct ==
    ASSUME NEW a \in Nat \ {0}, NEW b \in Nat \ {0}
    PROVE  a * b \in Nat \ {0}
<1>1. 1 * b <= a * b
  BY Scale
<1> QED
  BY <1>1

\* A quotient is rounded down.
LEMMA Quotient ==
    ASSUME NEW n \in Int, NEW d \in Nat \ {0}
    PROVE  /\ n \div d \in Int
           /\ (n \div d) * d <= n
           /\ n < (n \div d) * d + d
OBVIOUS

LEMMA QuotientBound ==
    ASSUME NEW n \in Int, NEW d \in Nat \ {0}, NEW q \in Int, n <= q * d
    PROVE  n \div d <= q
<1>1. (n \div d) * d <= q * d
  BY Quotient
<1> QED
  BY <1>1, Quotient, Unscale

LEMMA TruncatedQuotient ==
    ASSUME NEW n \in Int, NEW d \in Nat \ {0}
    PROVE  /\ Truncated(n, d) \in Int
           /\ Truncated(n, d) > 0 => 0 < n /\ Truncated(n, d) * d <= n
<1>1. CASE n >= 0
  <2>1. Truncated(n, d) = n \div d
    BY <1>1 DEF Truncated
  <2>2. n = 0 => n \div d = 0
    OBVIOUS
  <2> QED
    BY <1>1, <2>1, <2>2, Quotient
<1>2. CASE n < 0
  <2>1. Truncated(n, d) = -((-n) \div d)
    BY <1>2 DEF Truncated
  <2>2. (-n) \div d \in Nat
    BY <1>2
  <2> QED
    BY <2>1, <2>2
<1> QED
  BY <1>1, <1>2

----------------------------------------------------------------------------
(* A situation                                                             *)

LEMMA SituationTypes ==
    ASSUME NEW s \in Inputs
    PROVE  /\ s.equity \in Int /\ s.used \in Nat /\ s.close \in Nat \ {0} /\ s.stop \in Nat
           /\ s.rate.num \in Nat \ {0} /\ s.rate.den \in Nat \ {0} /\ s.short \in BOOLEAN
           /\ OrderPrice(s) \in Nat \ {0}
           /\ s.baseRate.num \in Nat \ {0} /\ s.baseRate.den \in Nat \ {0}
           /\ ~s.short => s.close <= OrderPrice(s)
           /\ MarginAvailable(s) \in Int
           /\ Abs(OrderPrice(s) - s.stop) \in Nat
<1>1. s \in Situations /\ s.close > HalfSpread
  BY InputAssumption
<1>2. /\ s.equity \in Int /\ s.used \in Nat /\ s.close \in Nat /\ s.stop \in Nat
      /\ s.rate \in PositiveRates /\ s.baseRate \in PositiveRates /\ s.short \in BOOLEAN
  BY <1>1 DEF Situations
<1>3. /\ s.rate.num \in Nat \ {0} /\ s.rate.den \in Nat \ {0}
      /\ s.baseRate.num \in Nat \ {0} /\ s.baseRate.den \in Nat \ {0}
  BY <1>2 DEF PositiveRates
<1>4. OrderPrice(s) \in Nat \ {0} /\ (~s.short => s.close <= OrderPrice(s))
  BY <1>1, <1>2, SizingAssumption DEF OrderPrice
<1>5. MarginAvailable(s) \in Int
  BY <1>2 DEF MarginAvailable
<1>6. Abs(OrderPrice(s) - s.stop) \in Nat
  BY <1>2, <1>4 DEF Abs
<1> QED
  BY <1>1, <1>2, <1>3, <1>4, <1>5, <1>6, SizingAssumption

\* What is rounded is at most half as much again as what it is rounded to.
LEMMA Rounded ==
    ASSUME NEW n \in Nat, NEW d \in Nat \ {0}
    PROVE  /\ Round(n, d) \in Nat
           /\ Round(n, d) > 0 => 2 * n <= 3 * (d * Round(n, d))
<1>2. 2 * n + d \in Nat /\ 2 * d \in Nat \ {0}
  OBVIOUS
<1>1. PICK p \in Int : p = (2 * n + d) \div (2 * d)
  BY <1>2, Quotient
<1>3. 2 * n + d < p * (2 * d) + 2 * d
  <2> DEFINE m == 2 * n + d
             e == 2 * d
  <2>1. m \in Int /\ e \in Nat \ {0} /\ p = m \div e
    BY <1>1, <1>2
  <2>2. m < p * e + e
    <3> HIDE DEF m, e
    <3> QED
      BY <2>1, Quotient
  <2> QED
    BY <2>2
<1>4. p \in Nat
  BY <1>1, <1>2
<1>5. p * (2 * d) = 2 * (d * p)
  BY <1>4
<1>6. p > 0 => d <= d * p
  <2>1. p > 0 => 1 * d <= p * d
    BY <1>4, Scale
  <2> QED
    BY <1>4, <2>1
<1>7. d * p \in Nat
  BY <1>4
<1>8. p > 0 => 2 * n <= 3 * (d * p)
  BY <1>3, <1>5, <1>6, <1>7
<1>9. Round(n, d) = p
  BY <1>1 DEF Round
<1> QED
  BY <1>4, <1>8, <1>9

LEMMA Pips ==
    ASSUME NEW s \in Inputs
    PROVE  /\ StopLossPips(s) \in Nat
           /\ StopLossPips(s) > 0 =>
                2 * (Abs(OrderPrice(s) - s.stop) * PipsPerOne) <= 3 * (One * StopLossPips(s))
<1>1. Abs(OrderPrice(s) - s.stop) * PipsPerOne \in Nat /\ One \in Nat \ {0}
  BY SituationTypes, SizingAssumption
<1> QED
  BY <1>1, Rounded DEF StopLossPips

----------------------------------------------------------------------------
(* What the sizing returns                                                 *)

LEMMA IntRange ==
    ASSUME NEW n \in Int
    PROVE  \A m \in ToInt(n) : m \in Int /\ (m > 0 => m <= n)
BY SizingAssumption DEF ToInt, IntMin

LEMMA MagnitudeOfNatural ==
    ASSUME NEW n \in Nat
    PROVE  Magnitudes(n) = {n}
BY SizingAssumption DEF Magnitudes, IntMin, Abs

LEMMA RiskSizeIsInt ==
    ASSUME NEW s \in Inputs
    PROVE  /\ \A n \in RiskSizes(s) : n \in Int
           /\ StopLossPips(s) > 0 => RiskSize(s) \in Int
<1>1. /\ s.equity \in Int /\ s.rate.num \in Nat \ {0} /\ s.rate.den \in Nat \ {0}
      /\ One \in Nat \ {0} /\ RiskNum \in Nat /\ RiskDen \in Nat \ {0} /\ PipsPerOne \in Nat \ {0}
  BY SituationTypes, SizingAssumption
<1>2. StopLossPips(s) \in Nat
  BY Pips
<1>3. ASSUME StopLossPips(s) > 0 PROVE RiskSize(s) \in Int
  <2>1. s.equity * RiskNum * s.rate.num * PipsPerOne \in Int
    BY <1>1
  <2>2. One * RiskDen * s.rate.den * StopLossPips(s) \in Nat \ {0}
    BY <1>1, <1>2, <1>3, PositiveProduct
  <2> QED
    BY <2>1, <2>2, Quotient DEF RiskSize
<1>4. IntMin \in Int /\ IntMax \in Int
  BY SizingAssumption DEF IntMin
<1>5. CASE StopLossPips(s) > 0
  <2>1. RiskSizes(s) = ToInt(RiskSize(s))
    BY <1>5 DEF RiskSizes
  <2> QED
    BY <1>3, <1>5, <2>1, IntRange
<1>6. CASE ~(StopLossPips(s) > 0)
  <2>1. RiskSizes(s) \subseteq {IntMin, IntMax, 0}
    BY <1>6 DEF RiskSizes
  <2> QED
    BY <1>4, <1>6, <2>1
<1> QED
  BY <1>5, <1>6

\* An equity that is positive may risk nothing, but not less.
LEMMA RiskSizeOfEquity ==
    ASSUME NEW s \in Inputs, 0 < MarginAvailable(s), StopLossPips(s) > 0
    PROVE  RiskSize(s) >= 0
<1>1. /\ s.equity \in Int /\ s.used \in Nat /\ s.rate.num \in Nat \ {0} /\ s.rate.den \in Nat \ {0}
      /\ One \in Nat \ {0} /\ RiskNum \in Nat /\ RiskDen \in Nat \ {0} /\ PipsPerOne \in Nat \ {0}
  BY SituationTypes, SizingAssumption
<1>2. s.equity \in Nat
  BY <1>1 DEF MarginAvailable
<1>3. s.equity * RiskNum * s.rate.num * PipsPerOne \in Nat
  BY <1>1, <1>2
<1>4. One * RiskDen * s.rate.den * StopLossPips(s) \in Nat \ {0}
  BY <1>1, Pips, PositiveProduct
<1>5. \A a \in Nat, b \in Nat \ {0} : a \div b >= 0
  OBVIOUS
<1> QED
  BY <1>3, <1>4, <1>5 DEF RiskSize

\* The size of an order is positive and is carried by the margin, at the order
\* price: either it was cut to that, or it was below.
LEMMA OrderIsCarried ==
    ASSUME NEW s \in Inputs, NEW n \in Sizes(s), n # 0
    PROVE  \E size \in Int :
             /\ size >= MinSize /\ n = size * (IF s.short THEN -1 ELSE 1)
             /\ 0 < MarginAvailable(s)
             /\ size * (OrderPrice(s) * s.rate.den) <= MarginAvailable(s) * (Leverage * s.rate.num)
             /\ StopLossPips(s) > 0 /\ RiskSize(s) <= IntMax => size <= RiskSize(s)
<1> DEFINE price == OrderPrice(s)
           margin == MarginAvailable(s)
<1>1. /\ price \in Nat \ {0} /\ margin \in Int
      /\ s.rate.num \in Nat \ {0} /\ s.rate.den \in Nat \ {0}
      /\ Leverage \in Nat \ {0} /\ MinSize \in Nat \ {0} /\ IntMax \in Nat
  BY SituationTypes, SizingAssumption
<1>2. PICK r \in RiskSizes(s) : \E magnitude \in Magnitudes(r) : \E size \in Capped(s, r, magnitude) :
           n = AtLeastMinimum(size) * (IF s.short THEN -1 ELSE 1)
  BY DEF Sizes
<1>22. PICK magnitude \in Magnitudes(r) : \E size \in Capped(s, r, magnitude) :
           n = AtLeastMinimum(size) * (IF s.short THEN -1 ELSE 1)
  BY <1>2
<1>21. PICK size \in Capped(s, r, magnitude) :
           n = AtLeastMinimum(size) * (IF s.short THEN -1 ELSE 1)
  BY <1>22
<1>3. r \in Int
  BY RiskSizeIsInt
<1>4. price * s.rate.den \in Nat \ {0} /\ Leverage * s.rate.num \in Nat \ {0}
  BY <1>1, PositiveProduct
<1>5. margin * Leverage * s.rate.num = margin * (Leverage * s.rate.num)
  BY <1>1
<1>6. MarginSize(s) = Truncated(margin * (Leverage * s.rate.num), price * s.rate.den)
  <2>1. s.rate.den * price = price * s.rate.den
    BY <1>1
  <2> QED
    BY <1>5, <2>1 DEF MarginSize
<1>7. /\ MarginSize(s) \in Int
      /\ MarginSize(s) > 0 => /\ 0 < margin * (Leverage * s.rate.num)
                              /\ MarginSize(s) * (price * s.rate.den) <= margin * (Leverage * s.rate.num)
  <2>1. ASSUME NEW m \in Int, NEW e \in Nat \ {0}, MarginSize(s) = Truncated(m, e)
        PROVE  /\ MarginSize(s) \in Int
               /\ MarginSize(s) > 0 => 0 < m /\ MarginSize(s) * e <= m
    BY <2>1, TruncatedQuotient
  <2>2. margin * (Leverage * s.rate.num) \in Int
    BY <1>1
  <2> HIDE DEF price, margin
  <2> QED
    BY <1>4, <1>6, <2>1, <2>2
<1>8. size \in Int
  <2>1. CASE ExceedsMargin(s, magnitude)
    BY <1>21, <1>7, <2>1, IntRange DEF Capped
  <2>2. CASE ~ExceedsMargin(s, magnitude)
    BY <1>21, <1>3, <2>2 DEF Capped
  <2> QED
    BY <2>1, <2>2
<1>9. size >= MinSize /\ AtLeastMinimum(size) = size
  BY <1>1, <1>21, <1>8 DEF AtLeastMinimum
<1>10. size > 0
  BY <1>1, <1>8, <1>9
<1>11. /\ 0 < margin
       /\ size * (price * s.rate.den) <= margin * (Leverage * s.rate.num)
  <2>1. CASE ExceedsMargin(s, magnitude)
    <3>1. size \in ToInt(MarginSize(s))
      BY <1>21, <2>1 DEF Capped
    <3>2. size <= MarginSize(s) /\ MarginSize(s) > 0
      BY <1>7, <1>8, <1>10, <3>1, IntRange
    <3>3. size * (price * s.rate.den) <= MarginSize(s) * (price * s.rate.den)
      BY <1>4, <1>7, <1>8, <3>2, Scale
    <3>4. 0 < margin
      BY <1>1, <1>4, <1>7, <3>2, PositiveFactor
    <3>5. /\ size * (price * s.rate.den) \in Int /\ MarginSize(s) * (price * s.rate.den) \in Int
          /\ margin * (Leverage * s.rate.num) \in Int
      BY <1>1, <1>4, <1>7, <1>8
    <3> HIDE DEF price, margin
    <3> QED
      BY <1>7, <3>2, <3>3, <3>4, <3>5
  <2>2. CASE ~ExceedsMargin(s, magnitude)
    <3>1. size = r /\ magnitude = r
      BY <1>21, <1>3, <1>10, <2>2, MagnitudeOfNatural DEF Capped
    <3>2. size * price * s.rate.den = size * (price * s.rate.den)
      BY <1>1, <1>8
    <3>3. size * (price * s.rate.den) < margin * (Leverage * s.rate.num)
      <4>1. ~(size * price * s.rate.den >= margin * Leverage * s.rate.num)
        BY <2>2, <3>1 DEF ExceedsMargin
      <4>2. /\ size * (price * s.rate.den) \in Int
            /\ margin * (Leverage * s.rate.num) \in Int
        BY <1>1, <1>4, <1>8
      <4> HIDE DEF price, margin
      <4> QED
        BY <1>5, <3>2, <4>1, <4>2
    <3>4. size * (price * s.rate.den) \in Nat
      BY <1>4, <1>8, <1>10
    <3>5. 0 < margin * (Leverage * s.rate.num)
      BY <1>1, <1>4, <3>3, <3>4
    <3>6. 0 < margin
      BY <1>1, <1>4, <3>5, PositiveFactor
    <3> QED
      BY <1>1, <1>4, <3>3, <3>4, <3>6
  <2> QED
    BY <2>1, <2>2
<1>12. ASSUME StopLossPips(s) > 0, RiskSize(s) <= IntMax
       PROVE  size <= RiskSize(s)
  <2>1. RiskSizes(s) = ToInt(RiskSize(s)) /\ RiskSize(s) \in Int
    BY <1>12, RiskSizeIsInt DEF RiskSizes
  <2>2. r = RiskSize(s) \/ (r = IntMin /\ RiskSize(s) < IntMin)
    BY <1>2, <1>12, <2>1, <1>1 DEF ToInt, IntMin
  <2>3. CASE ~ExceedsMargin(s, magnitude)
    <3>1. size = r
      BY <1>21, <1>3, <1>10, <2>3 DEF Capped
    <3> QED
      BY <1>1, <1>10, <2>1, <2>2, <3>1 DEF IntMin
  <2>4. CASE ExceedsMargin(s, magnitude)
    <3>1. size <= MarginSize(s) /\ MarginSize(s) > 0
      BY <1>21, <1>7, <1>8, <1>10, <2>4, IntRange DEF Capped
    <3>2. RiskSize(s) >= 0
      BY <1>11, <1>12, RiskSizeOfEquity
    <3>3. r = RiskSize(s) /\ r \in Nat /\ magnitude = r
      <4>1. r = RiskSize(s) /\ r \in Nat
        BY <1>1, <2>1, <2>2, <3>2 DEF IntMin
      <4> QED
        BY <4>1, <1>22, MagnitudeOfNatural
    <3>4. margin * (Leverage * s.rate.num) <= r * (price * s.rate.den)
      <4>1. r * price * s.rate.den >= margin * Leverage * s.rate.num
        BY <2>4, <3>3 DEF ExceedsMargin
      <4>2. r * price * s.rate.den = r * (price * s.rate.den)
        BY <1>1, <3>3
      <4>3. margin * (Leverage * s.rate.num) \in Int /\ r * (price * s.rate.den) \in Int
        BY <1>1, <1>4, <3>3
      <4> HIDE DEF price, margin
      <4> QED
        BY <1>5, <4>1, <4>2, <4>3
    <3>5. MarginSize(s) * (price * s.rate.den) <= r * (price * s.rate.den)
      <4>1. /\ margin * (Leverage * s.rate.num) \in Int /\ r * (price * s.rate.den) \in Int
            /\ MarginSize(s) * (price * s.rate.den) \in Int
        BY <1>1, <1>4, <1>7, <3>3
      <4> HIDE DEF price, margin
      <4> QED
        BY <1>7, <3>1, <3>4, <4>1
    <3>6. MarginSize(s) <= r
      <4> HIDE DEF price, margin
      <4> QED
        BY <1>4, <1>7, <3>3, <3>5, Unscale
    <3> QED
      BY <1>7, <1>8, <3>1, <3>3, <3>6
  <2> QED
    BY <2>3, <2>4
<1> QED
  BY <1>21, <1>8, <1>9, <1>11, <1>12

----------------------------------------------------------------------------
(* The theorems                                                            *)

\* The units are those of a situation.
Sized == input \in Inputs /\ (units = None \/ units \in Sizes(input))

LEMMA UnitsAreSized == Spec => []Sized
<1>1. Init => Sized
  BY DEF Init, Sized
<1>2. Sized /\ [Size]_vars => Sized'
  BY DEF Sized, Size, vars
<1> QED
  BY <1>1, <1>2, PTL DEF Spec

\* The side of the signal, a minimum, and no order without a margin, for every
\* account, also one in debt, and every int, also when the conversion of an
\* infinite quotient is undefined (CalculateStopLossPositionSize).
THEOREM OrdersKeepTheirSide == Spec => []UnitsAreTradable
<1>1. ASSUME Sized PROVE UnitsAreTradable
  <2>1. SUFFICES ASSUME units # None, units # 0
                 PROVE  \/ units >= MinSize /\ ~input.short /\ input.equity > input.used
                        \/ units <= -MinSize /\ input.short /\ input.equity > input.used
    BY DEF UnitsAreTradable
  <2>2. input \in Inputs /\ units \in Sizes(input)
    BY <1>1, <2>1 DEF Sized
  <2>3. PICK size \in Int : /\ size >= MinSize /\ units = size * (IF input.short THEN -1 ELSE 1)
                            /\ 0 < MarginAvailable(input)
    BY <2>1, <2>2, OrderIsCarried
  <2>4. input.equity > input.used
    BY <2>2, <2>3, SituationTypes DEF MarginAvailable
  <2>5. input.short \in BOOLEAN /\ MinSize \in Int
    BY <2>2, SituationTypes, SizingAssumption
  <2> QED
    BY <2>3, <2>4, <2>5
<1> QED
  BY <1>1, UnitsAreSized, PTL

\* What the account computes as a margin, with the denominator cleared.
LEMMA MarginUsedIsBounded ==
    ASSUME NEW n \in Nat, NEW r \in PositiveRates
    PROVE  /\ CalculateMarginUsed(n, r, Leverage, One) \in Int
           /\ (CalculateMarginUsed(n, r, Leverage, One) * Leverage) * r.num <= (n * One) * r.den
<1>1. /\ r.num \in Nat \ {0} /\ r.den \in Nat \ {0}
      /\ One \in Nat \ {0} /\ Leverage \in Nat \ {0}
  BY SizingAssumption DEF PositiveRates
<1> DEFINE amount == (n * One) * r.den
<1>2. amount \in Int
  BY <1>1
<1>3. CalculateMarginUsed(n, r, Leverage, One) = (amount \div r.num) \div Leverage
  BY DEF CalculateMarginUsed, InAccountCurrency, Abs
<1> HIDE DEF amount
<1>4. PICK converted \in Int : converted = amount \div r.num /\ converted * r.num <= amount
  BY <1>1, <1>2, Quotient
<1>5. PICK needed \in Int : needed = converted \div Leverage /\ needed * Leverage <= converted
  BY <1>1, Quotient
<1>6. (needed * Leverage) * r.num <= converted * r.num
  <2>1. needed * Leverage \in Int
    BY <1>1
  <2> QED
    BY <1>1, <1>5, <2>1, Scale
<1>7. (needed * Leverage) * r.num \in Int /\ converted * r.num \in Int
  BY <1>1
<1>8. (needed * Leverage) * r.num <= amount
  BY <1>2, <1>4, <1>6, <1>7
<1>9. CalculateMarginUsed(n, r, Leverage, One) = needed
  BY <1>3, <1>4, <1>5
<1> QED
  BY <1>8, <1>9 DEF amount

\* For a pair with the account currency, the rates imply its close, which a long
\* order's price is not below.
LEMMA OwnRatesImplyTheClose ==
    ASSUME NEW s \in Inputs, ~s.short, OwnRates(s)
    PROVE  ImpliedPrice(s) <= OrderedPrice(s)
<1> DEFINE rn == s.rate.num
           rd == s.rate.den
           bn == s.baseRate.num
           bd == s.baseRate.den
<1>1. /\ rn \in Nat \ {0} /\ rd \in Nat \ {0} /\ bn \in Nat \ {0} /\ bd \in Nat \ {0}
      /\ s.close \in Nat \ {0} /\ OrderPrice(s) \in Nat \ {0} /\ One \in Nat \ {0}
      /\ s.close <= OrderPrice(s)
  BY SituationTypes, SizingAssumption
<1>2. ImpliedPrice(s) = s.close * (rd * bn)
  <2>1. CASE rn = rd /\ bn * s.close = bd * One
    <3>1. One * rn * bd = rd * (bd * One)
      BY <1>1, <2>1
    <3>2. rd * (bn * s.close) = s.close * (rd * bn)
      BY <1>1
    <3> QED
      BY <2>1, <3>1, <3>2 DEF ImpliedPrice
  <2>2. CASE rn * One = rd * s.close /\ bn = bd
    <3>1. One * rn * bd = (rn * One) * bn
      BY <1>1, <2>2
    <3>2. (rd * s.close) * bn = s.close * (rd * bn)
      BY <1>1
    <3> QED
      BY <2>2, <3>1, <3>2 DEF ImpliedPrice
  <2> QED
    BY <2>1, <2>2 DEF OwnRates
<1>3. rd * bn \in Nat
  BY <1>1
<1>4. s.close * (rd * bn) <= OrderPrice(s) * (rd * bn)
  <2> HIDE DEF rd, bn
  <2> QED
    BY <1>1, <1>3, Scale
<1>5. OrderedPrice(s) = OrderPrice(s) * (rd * bn)
  BY <1>1 DEF OrderedPrice
<1> QED
  BY <1>2, <1>4, <1>5

\* The margin the account asks for exceeds what is available by no more than the
\* price the rates imply exceeds that of the order, for every leverage, side and
\* pair of rates; a long order of a pair with the account currency has its margin
\* (CalculateStopLossPositionSize, CalculateMarginUsed).
THEOREM OrdersHaveMargin == Spec => []OrderHasMargin
<1>1. ASSUME Sized PROVE OrderHasMargin
  <2> DEFINE s == input
             needed == CalculateMarginUsed(units, s.baseRate, Leverage, One)
             available == CalculateMarginAvailable(s.equity, s.used)
  <2>1. SUFFICES ASSUME units # None, units # 0
                 PROVE  /\ needed * OrderedPrice(s) <= available * ImpliedPrice(s)
                        /\ ~s.short /\ OwnRates(s) => needed <= available
    BY DEF OrderHasMargin
  <2>2. s \in Inputs /\ units \in Sizes(s)
    BY <1>1, <2>1 DEF Sized
  <2> DEFINE P == OrderPrice(s)
             rn == s.rate.num
             rd == s.rate.den
             bn == s.baseRate.num
             bd == s.baseRate.den
             margin == MarginAvailable(s)
  <2>3. /\ rn \in Nat \ {0} /\ rd \in Nat \ {0} /\ bn \in Nat \ {0} /\ bd \in Nat \ {0}
        /\ P \in Nat \ {0} /\ s.equity \in Int /\ s.used \in Nat /\ s.short \in BOOLEAN
        /\ One \in Nat \ {0} /\ Leverage \in Nat \ {0} /\ MinSize \in Nat \ {0}
        /\ margin \in Int
    BY <2>2, SituationTypes, SizingAssumption
  <2>4. s.baseRate \in PositiveRates
    BY <2>2, InputAssumption DEF Situations
  <2>5. PICK size \in Int :
          /\ size >= MinSize /\ units = size * (IF s.short THEN -1 ELSE 1)
          /\ 0 < margin
          /\ size * (P * rd) <= margin * (Leverage * rn)
    BY <2>1, <2>2, OrderIsCarried
  <2>6. size \in Nat /\ Abs(units) = size
    BY <2>3, <2>5 DEF Abs
  <2>7. available = margin
    BY <2>5 DEF CalculateMarginAvailable, MarginAvailable
  <2>8. /\ needed \in Int
        /\ (needed * Leverage) * bn <= (size * One) * bd
    <3>1. Abs(size) = size
      BY <2>6 DEF Abs
    <3>2. needed = CalculateMarginUsed(size, s.baseRate, Leverage, One)
      BY <2>6, <3>1 DEF CalculateMarginUsed
    <3> QED
      BY <2>4, <2>6, <3>2, MarginUsedIsBounded
  <2> HIDE DEF needed, available, margin, P, rn, rd, bn, bd
  <2>9. (needed * (P * rd * bn)) * Leverage <= (margin * (One * rn * bd)) * Leverage
    <3>1. ((needed * Leverage) * bn) * (P * rd) <= ((size * One) * bd) * (P * rd)
      <4>1. (needed * Leverage) * bn \in Int /\ (size * One) * bd \in Int /\ P * rd \in Nat
        BY <2>3, <2>6, <2>8
      <4> QED
        BY <2>8, <4>1, Scale
    <3>2. (size * (P * rd)) * (One * bd) <= (margin * (Leverage * rn)) * (One * bd)
      <4>1. size * (P * rd) \in Int /\ margin * (Leverage * rn) \in Int /\ One * bd \in Nat
        BY <2>3, <2>6
      <4> QED
        BY <2>5, <4>1, Scale
    <3>3. ((size * One) * bd) * (P * rd) = (size * (P * rd)) * (One * bd)
      BY <2>3, <2>6
    <3>4. ((needed * Leverage) * bn) * (P * rd) = (needed * (P * rd * bn)) * Leverage
      BY <2>3, <2>8
    <3>5. (margin * (Leverage * rn)) * (One * bd) = (margin * (One * rn * bd)) * Leverage
      BY <2>3
    <3>6. (size * (P * rd)) * (One * bd) \in Int
      BY <2>3, <2>6
    <3>7. (needed * (P * rd * bn)) * Leverage \in Int /\ (margin * (One * rn * bd)) * Leverage \in Int
      BY <2>3, <2>8
    <3> DEFINE low == (needed * (P * rd * bn)) * Leverage
               mid == (size * (P * rd)) * (One * bd)
               high == (margin * (One * rn * bd)) * Leverage
    <3>8. low \in Int /\ mid \in Int /\ high \in Int /\ low <= mid /\ mid <= high
      BY <3>1, <3>2, <3>3, <3>4, <3>5, <3>6, <3>7
    <3>9. low <= high
      <4> HIDE DEF low, mid, high
      <4> QED
        BY <3>8
    <3> QED
      BY <3>9
  <2>10. /\ OrderedPrice(s) = P * rd * bn /\ OrderedPrice(s) \in Nat \ {0}
         /\ ImpliedPrice(s) = One * rn * bd /\ ImpliedPrice(s) \in Nat
    <3>1. OrderedPrice(s) = P * rd * bn /\ ImpliedPrice(s) = One * rn * bd
      BY DEF OrderedPrice, ImpliedPrice, P, rn, rd, bn, bd
    <3>2. P * rd * bn \in Nat \ {0} /\ One * rn * bd \in Nat
      BY <2>3, PositiveProduct
    <3> QED
      BY <3>1, <3>2
  <2>11. needed * OrderedPrice(s) <= margin * ImpliedPrice(s)
    <3>1. needed * OrderedPrice(s) \in Int /\ margin * ImpliedPrice(s) \in Int
      BY <2>3, <2>8, <2>10
    <3> QED
      BY <2>3, <2>9, <2>10, <3>1, Unscale
  <2>12. ~s.short /\ OwnRates(s) => needed <= margin
    <3>1. SUFFICES ASSUME ImpliedPrice(s) <= OrderedPrice(s) PROVE needed <= margin
      BY <2>2, OwnRatesImplyTheClose
    <3>2. margin \in Nat
      BY <2>3, <2>5
    <3>3. ImpliedPrice(s) * margin <= OrderedPrice(s) * margin
      BY <2>10, <3>1, <3>2, Scale
    <3>4. /\ ImpliedPrice(s) * margin = margin * ImpliedPrice(s)
          /\ OrderedPrice(s) * margin = margin * OrderedPrice(s)
          /\ needed * OrderedPrice(s) \in Int
          /\ margin * ImpliedPrice(s) \in Int /\ margin * OrderedPrice(s) \in Int
      BY <2>8, <2>10, <3>2
    <3>5. needed * OrderedPrice(s) <= margin * OrderedPrice(s)
      BY <2>11, <3>3, <3>4
    <3> QED
      BY <2>8, <2>10, <3>2, <3>5, Unscale
  <2> QED
    BY <2>7, <2>11, <2>12
<1> QED
  BY <1>1, UnitsAreSized, PTL

\* Rounding the distance to pips costs at most half of the risk percentage
\* again, for every percentage and pip (CalculateMarketOrderUnits, round).
THEOREM LossesAreBounded == Spec => []StoppedLossIsBounded
<1>1. ASSUME Sized PROVE StoppedLossIsBounded
  <2> DEFINE s == input
             distance == Abs(OrderPrice(s) - s.stop)
             pips == StopLossPips(s)
             risk == s.equity * RiskNum * s.rate.num
  <2>1. SUFFICES ASSUME units # None, units # 0, pips > 0, RiskSize(s) <= IntMax
                 PROVE  2 * Abs(units) * distance * RiskDen * s.rate.den
                            <= 3 * s.equity * RiskNum * s.rate.num
    BY DEF StoppedLossIsBounded
  <2>2. s \in Inputs /\ units \in Sizes(s)
    BY <1>1, <2>1 DEF Sized
  <2>3. /\ s.equity \in Int /\ s.rate.num \in Nat \ {0} /\ s.rate.den \in Nat \ {0}
        /\ distance \in Nat /\ s.short \in BOOLEAN
        /\ One \in Nat \ {0} /\ MinSize \in Nat \ {0} /\ PipsPerOne \in Nat \ {0}
        /\ RiskNum \in Nat /\ RiskDen \in Nat \ {0}
    BY <2>2, SituationTypes, SizingAssumption
  <2>4. pips \in Nat \ {0} /\ 2 * (distance * PipsPerOne) <= 3 * (One * pips)
    BY <2>1, <2>2, Pips
  <2>5. PICK size \in Int : /\ size >= MinSize /\ size <= RiskSize(s)
                            /\ units = size * (IF s.short THEN -1 ELSE 1)
    BY <2>1, <2>2, OrderIsCarried
  <2>6. Abs(units) = size /\ size \in Nat
    BY <2>3, <2>5 DEF Abs
  <2> DEFINE den == One * RiskDen * s.rate.den * pips
  <2>7. den \in Nat \ {0} /\ risk \in Int /\ RiskDen * s.rate.den \in Nat \ {0}
    BY <2>3, <2>4, PositiveProduct
  <2>8. size * den <= risk * PipsPerOne
    <3>1. RiskSize(s) = (risk * PipsPerOne) \div den
      BY DEF RiskSize
    <3>2. risk * PipsPerOne \in Int
      BY <2>3, <2>7
    <3> HIDE DEF risk, den, pips
    <3>3. RiskSize(s) \in Int /\ RiskSize(s) * den <= risk * PipsPerOne
      <4>1. ASSUME NEW m \in Int PROVE m \div den \in Int /\ (m \div den) * den <= m
        BY <2>7, Quotient
      <4> QED
        BY <3>1, <3>2, <4>1
    <3>4. size * den <= RiskSize(s) * den
      BY <2>5, <2>7, <3>3, Scale
    <3>5. size * den \in Int /\ RiskSize(s) * den \in Int
      BY <2>7, <3>3
    <3> QED
      BY <3>2, <3>3, <3>4, <3>5
  <2> DEFINE weight == size * (RiskDen * s.rate.den)
             left == 2 * (distance * weight)
  <2>9. weight \in Nat
    BY <2>6, <2>7
  <2>10. left * PipsPerOne <= (3 * risk) * PipsPerOne
    <3>1. (2 * (distance * PipsPerOne)) * weight <= (3 * (One * pips)) * weight
      <4>1. 2 * (distance * PipsPerOne) \in Int /\ 3 * (One * pips) \in Int
        BY <2>3, <2>4
      <4> HIDE DEF weight, distance, pips
      <4> QED
        BY <2>4, <2>9, <4>1, Scale
    <3>2. (2 * (distance * PipsPerOne)) * weight = left * PipsPerOne
      <4> HIDE DEF weight, distance
      <4> QED
        BY <2>3, <2>9
    <3>3. (3 * (One * pips)) * weight = 3 * (size * den)
      <4> HIDE DEF pips
      <4> QED
        BY <2>3, <2>4, <2>6
    <3>4. (3 * risk) * PipsPerOne = 3 * (risk * PipsPerOne)
      <4> HIDE DEF risk
      <4> QED
        BY <2>3, <2>7
    <3>5. size * den \in Int /\ risk * PipsPerOne \in Int
      <4> HIDE DEF risk, den
      <4> QED
        BY <2>3, <2>7
    <3>6. left * PipsPerOne <= 3 * (size * den)
      <4> HIDE DEF risk, den, left, weight, pips, distance
      <4> QED
        BY <3>1, <3>2, <3>3, Zenon
    <3>7. left * PipsPerOne \in Int
      <4> HIDE DEF weight, distance
      <4> QED
        BY <2>3, <2>9
    <3>8. left * PipsPerOne <= 3 * (risk * PipsPerOne)
      <4> HIDE DEF risk, den, left
      <4> DEFINE l == left * PipsPerOne
                 m == size * den
                 r == risk * PipsPerOne
      <4>1. l \in Int /\ m \in Int /\ r \in Int /\ l <= 3 * m /\ m <= r
        BY <2>8, <3>5, <3>6, <3>7
      <4>2. l <= 3 * r
        <5> HIDE DEF l, m, r
        <5> QED
          BY <4>1
      <4> QED
        BY <4>2
    <3> QED
      BY <3>4, <3>8
  <2>11. left <= 3 * risk
    <3>1. left \in Int /\ 3 * risk \in Int
      <4> HIDE DEF weight, risk, distance
      <4> QED
        BY <2>3, <2>7, <2>9
    <3> HIDE DEF left, risk
    <3> QED
      BY <2>3, <2>10, <3>1, Unscale
  <2>12. left = 2 * Abs(units) * distance * RiskDen * s.rate.den
    <3> HIDE DEF distance
    <3> QED
      BY <2>3, <2>6
  <2>13. 3 * risk = 3 * s.equity * RiskNum * s.rate.num
    BY <2>3
  <2> QED
    BY <2>11, <2>12, <2>13
<1> QED
  BY <1>1, UnitsAreSized, PTL
=============================================================================
