---------------------------- MODULE TradeLedger ----------------------------
(***************************************************************************)
(* What an account promises about its trades and its money, whatever order,*)
(* stop or call is the cause: a trade is entered once, keeps its           *)
(* instrument, price and side while it is open, is frozen once it is       *)
(* closed, and the balance moves only by what a trade realizes.            *)
(***************************************************************************)
EXTENDS Integers, Sequences

CONSTANT CapitalBase

VARIABLES
    entries,    \* one entry per trade, in opening order
    balance

ledger == <<entries, balance>>

SameSign(m, n) == (m > 0 /\ n > 0) \/ (m < 0 /\ n < 0)

Init == entries = <<>> /\ balance = CapitalBase

Open ==
    /\ Len(entries') = Len(entries) + 1
    /\ \A k \in DOMAIN entries : entries'[k] = entries[k]
    /\ LET new == entries'[Len(entries) + 1]
       IN  new.open /\ new.units # 0 /\ new.realized = 0
    /\ balance' = balance

\* Entry k is settled in part or in full.
Settle(k) ==
    /\ entries[k].open
    /\ Len(entries') = Len(entries)
    /\ \A j \in DOMAIN entries \ {k} : entries'[j] = entries[j]
    /\ entries'[k].instrument = entries[k].instrument
    /\ entries'[k].price = entries[k].price
    /\ IF entries'[k].open THEN SameSign(entries[k].units, entries'[k].units)
                           ELSE entries'[k].units = 0
    /\ balance' - balance = entries'[k].realized - entries[k].realized

Next == Open \/ \E k \in DOMAIN entries : Settle(k)

Spec == Init /\ [][Next]_ledger
=============================================================================
