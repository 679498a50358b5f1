--------------------------- MODULE MCPositionSizing ---------------------------
(* Accounts in debt, out of margin and rich enough for an int to overflow, *)
(* with stop losses from none to several pips away, for TLC.  The rates of *)
(* quote and base currency are any two, those of the two pairs with the    *)
(* account currency (19/20 and 6/5 are the closes) among them.             *)
EXTENDS PositionSizing

Fraction(n, d) == [num |-> n, den |-> d]

MCRates == {Fraction(1, 1), Fraction(3, 2), Fraction(2, 3), Fraction(19, 20), Fraction(6, 5)}
MCBaseRates == {Fraction(1, 1), Fraction(3, 2), Fraction(2, 3), Fraction(20, 19), Fraction(5, 6)}

MCInputs ==
    [equity : {-300, 0, 100, 299, 600, 3000, 20000}, used : {0, 100, 299, 700},
     close : {95, 120}, stop : {0, 60, 93, 96, 97, 100, 107, 117, 118, 121, 122, 126, 160},
     rate : MCRates, baseRate : MCBaseRates, short : BOOLEAN]
=============================================================================
