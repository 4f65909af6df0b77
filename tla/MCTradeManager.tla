--------------------------- MODULE MCTradeManager ---------------------------
(* Values of the constants of TradeManager for TLC. *)
EXTENDS TradeProperties, TLC

CONSTANTS s1, s2, p1, p2

\* Both setups, and any stray, are on the same symbol.
OneSymbol == [k \in Setups \cup Pids |-> "XAUUSD"]

\* Setups and position ids are interchangeable where no position is a stray.
Symmetry == Permutations(Setups) \cup Permutations(Pids)
=============================================================================
