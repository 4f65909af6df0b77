------------------------------- MODULE Ladder --------------------------------
(***************************************************************************)
(* The stop loss (executor/stoploss.py) and the take-profit ladder         *)
(* (executor/targets.py) of a confirmed sequence.  Prices are even         *)
(* integers, so that halves of them are integers too.                      *)
(***************************************************************************)
EXTENDS Primitives

CONSTANTS Spread, Safety,  \* of the quote; safety_buffer
          TrapTol,         \* level_tol
          SessionAtr

ASSUME LadderAssumption == {Spread, Safety, TrapTol, SessionAtr} \subseteq Nat /\ 0 < Spread

Side(d, x) == IF d = "buy" THEN x ELSE -x           \* x points in direction d
LowestFirst(d, S) == CHOOSE x \in S : \A y \in S : x <= y   \* mutant
Nearest(d, S) == CHOOSE x \in S : \A y \in S : Side(d, x) <= Side(d, y)
First(d, S) == IF S = {} THEN {} ELSE {Nearest(d, S)}

\* fiduciary_sl: behind the extreme of the sweep, or behind the middle of its wick when that
\* is longer than two ATR.
RaidWick(d, raid) == IF d = "buy" THEN Bot(raid) - raid.l ELSE raid.h - Top(raid)
WickEnd(d, b) == IF d = "buy" THEN b.l ELSE b.h
Anchor(d, raid, extreme, atr) ==
  IF WickEnd(d, raid) = extreme /\ atr.sum > 0 /\ RaidWick(d, raid) * atr.len > 2 * atr.sum
  THEN extreme + Side(d, RaidWick(d, raid) \div 2)
  ELSE extreme
StopAt(d, anchor) == anchor - Side(d, Spread + Safety)
Risk(d, entry, sl) == Side(d, entry - sl)

\* dangerous_trap, risk_out_of_bounds
StopRefused(d, entry, sl, traps) ==
  \/ \E lv \in traps : Gap(lv, sl) <= TrapTol
  \/ LET risk == Risk(d, entry, sl)
     IN risk <= 0 \/ risk < 4 * Spread \/ 2 * risk > SessionAtr
-----------------------------------------------------------------------------
Dist(d, entry, lv) == Side(d, lv - entry)
Ahead(d, entry, objectives) == {lv \in objectives : Dist(d, entry, lv) > 0}
Reachable(d, entry, lv) == /\ 5 * Dist(d, entry, lv) <= 2 * SessionAtr
                           /\ Dist(d, entry, lv) >= 10 * Spread
ThreeR(d, entry, risk, lv) == Dist(d, entry, lv) >= 3 * risk

\* The projection of `halves' half legs beyond the displacement.
Leg(t) == Gap(t.disp, t.extreme)
Projection(t, halves) == IF Leg(t) = 0 THEN {} ELSE {t.disp + Side(t.dir, (halves * Leg(t)) \div 2)}

\* TP1: the nearest objective of 3R decides, within reach or not; else the projection of 2.
Deciding(t) == First(t.dir, {lv \in Ahead(t.dir, t.entry, t.objectives) : ThreeR(t.dir, t.entry, t.risk, lv)})
Tp1(t) ==
  LET found == {lv \in Deciding(t) : Reachable(t.dir, t.entry, lv)}
  IN IF found # {} THEN found
     ELSE {lv \in Projection(t, 4) : ThreeR(t.dir, t.entry, t.risk, lv) /\ Reachable(t.dir, t.entry, lv)}

\* TP2: the next objective of 3.5R beyond TP1; else the projection of 2.5.
Tp2(t, tp1) ==
  LET past(lv) == /\ Dist(t.dir, t.entry, lv) > Dist(t.dir, t.entry, tp1)
                  /\ 2 * Dist(t.dir, t.entry, lv) >= 7 * t.risk
      found == {lv \in t.objectives : past(lv) /\ Dist(t.dir, t.entry, lv) >= 10 * Spread}
  IN IF found # {} THEN First(t.dir, found) ELSE {lv \in Projection(t, 5) : past(lv)}

\* The level short of 3R that the management of the trade watches.
Management(t) ==
  LET ahead == Ahead(t.dir, t.entry, t.objectives)
  IN {lv \in First(t.dir, ahead) : ~ThreeR(t.dir, t.entry, t.risk, lv)}
ServerTp(t, tp1) == IF Tp2(t, tp1) = {} THEN tp1 ELSE CHOOSE lv \in Tp2(t, tp1) : TRUE
=============================================================================
