-------------------------------- MODULE Chart --------------------------------
(***************************************************************************)
(* A series of closed bars that grows, as its readers see it: the zones    *)
(* and levels found in it bar after bar, and the plan the executor makes   *)
(* of it (executor/engine.py confirm).                                     *)
(***************************************************************************)
EXTENDS Ladder

CONSTANTS Shapes,     \* the bars that may follow, relative to the last close
          Beginnings, \* the series to start from
          MaxBars     \* bound: the length of the series

OneBar == [o : Int, h : Int, l : Int, c : Int]
ASSUME ChartAssumption ==
  Shapes \subseteq OneBar /\ Beginnings \subseteq Seq(OneBar) \ {<<>>} /\ MaxBars \in Nat

\* The broker's bars: the low and the high are the extremes of the bar.
Proper(x) == x.l <= Bot(x) /\ Top(x) <= x.h
ASSUME ProperAssumption ==
  (\A s \in Shapes : Proper(s)) /\ (\A w \in Beginnings : \A i \in 1 .. Len(w) : Proper(w[i]))

VARIABLE bars
ChartInit == bars \in Beginnings

Follow(s, c) == [o |-> c + s.o, h |-> c + s.h, l |-> c + s.l, c |-> c + s.c]
NextBar ==
  /\ Len(bars) < MaxBars
  /\ \E s \in Shapes : bars' = Append(bars, Follow(s, bars[Len(bars)].c))
-----------------------------------------------------------------------------
\* Levels not traded through since they were confirmed.
LiveLevels(b) ==
  {b[i].h : i \in {k \in SwingHighs(b) : SweepStatus(b[k].h, "high", 0, b, k + 2).status = "UNTOUCHED"}} \cup
  {b[i].l : i \in {k \in SwingLows(b) : SweepStatus(b[k].l, "low", 0, b, k + 2).status = "UNTOUCHED"}}

\* opposing_edges: near edges of the untouched gaps and blocks of the other direction.
OpposingEdges(b, d) ==
  {IF d = "buy" THEN z.low ELSE z.high :
     z \in {y \in Fvgs(b) \cup OrderBlocks(b) : y.dir = Against(d) /\ MitigatedAt(y, b) = 0}}

\* confirm: what the last bar makes of a raid by bar i; a buy enters at the ask.
ExtremeSince(b, i, d) ==
  IF d = "buy" THEN Least({b[k].l : k \in i .. Len(b)}) ELSE Greatest({b[k].h : k \in i .. Len(b)})
EntryPrice(b, d) == IF d = "buy" THEN b[Len(b)].c + Spread ELSE b[Len(b)].c
Setup(b, i, d) ==
  LET n == Len(b)
      extreme == ExtremeSince(b, i, d)
      sl == StopAt(d, Anchor(d, b[i], extreme, [sum |-> AtrSum(b, n), len |-> AtrLen(n)]))
  IN [dir |-> d, entry |-> EntryPrice(b, d), sl |-> sl, risk |-> Risk(d, EntryPrice(b, d), sl),
      extreme |-> extreme, disp |-> ExtremeSince(b, i, Against(d)),
      objectives |-> LiveLevels(b) \cup OpposingEdges(b, d)]
Setups(b) ==
  {t \in {Setup(b, i, d) : i \in 1 .. Len(b) - 1, d \in {"buy", "sell"}} :
     ~StopRefused(t.dir, t.entry, t.sl, LiveLevels(b)) /\ Tp1(t) # {}}
=============================================================================
