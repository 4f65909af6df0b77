--------------------------- MODULE DataProperties ----------------------------
(* What the path from the bars to a plan promises. *)
EXTENDS DataPath
-----------------------------------------------------------------------------
\* On the one ordered session a bar that a tick reads as closed has its final values, whatever
\* was cached before and whichever tool call came between; on either session a bar whose
\* values are not final, put back by an answer that was overtaken too, is asked for again by
\* the next refresh.  (candles.py "readers get closed bars only"; the start at have[-2])
ClosedBarsAreFinal ==
  /\ session = "mcp" /\ job["tick"].pc \in {"show", "decide"} =>
       \A n \in Closed(job["tick"].at) : cache[n]
  /\ Enough(DOMAIN cache) => \A n \in DOMAIN cache : cache[n] \/ n >= StartOf(DOMAIN cache)

\* The paper venue is shown every bar that has closed since the last one it was shown: a tick
\* cut short, a refetch or a tool call never makes it pass over a bar that could have hit a
\* stop.  (main.py symbol_tick, last_m1)
PaperSeesEveryBar ==
  [][Show => \A n \in Closed(job["tick"].at) :
               (shown # {} /\ \A j \in shown : j < n) => n \in shown']_pathVars

\* The zones that may send an entry, as opposed to those dropped when they fail.
Formed(b) == Fvgs(b) \cup OrderBlocks(b) \cup BreakerBlocks(b) \cup RejectionBlocks(b)
             \cup PropulsionBlocks(b) \cup VolumeImbalances(b) \cup Vacuums(b)

\* Nothing found in closed bars is withdrawn or changed by the next bar: no detector looks
\* ahead of what it is given, and none forgets what it dated.  (primitives.py "every function
\* only looks at the bars it is given")
NothingRepaints ==
  [][Bar => /\ SwingHighs(bars) \subseteq SwingHighs(bars') /\ SwingLows(bars) \subseteq SwingLows(bars')
            /\ MajorHighs(bars) \subseteq MajorHighs(bars') /\ MajorLows(bars) \subseteq MajorLows(bars')
            /\ StructureBreaks(bars) \subseteq StructureBreaks(bars')
            /\ Formed(bars) \subseteq Formed(bars')]_pathVars

\* What was used up stays used up: a gap broken after its tap, a void filled, an overlap
\* traversed, a zone touched or failed, a level swept by a body never comes back to life.
ZonesStayDead ==
  [][Bar => /\ \A z \in Fvgs(bars) : FirstTouch(z, bars, z.idx + 2) # 0 =>
                 (z \in IFvgs(bars') => z \in IFvgs(bars))
            /\ Voids(bars') \cap Fvgs(bars) \subseteq Voids(bars)
            /\ Bprs(bars') \cap Overlaps(bars) \subseteq Bprs(bars)
            /\ \A z \in Formed(bars) :
                 /\ MitigatedAt(z, bars) # 0 => MitigatedAt(z, bars') = MitigatedAt(z, bars)
                 /\ BrokenZone(z, bars) => BrokenZone(z, bars')
            /\ \A i \in SwingHighs(bars) :
                 LET was == SweepStatus(bars[i].h, "high", 2, bars, i + 2)
                     is == SweepStatus(bars[i].h, "high", 2, bars', i + 2)
                 IN /\ was.status = "SWEPT_BODY" => is = was
                    /\ is.status = "UNTOUCHED" => was.status = "UNTOUCHED"]_pathVars

\* The definition of a break: the first body close beyond the most recent swing known by then.
BreakOf(b, i, d) ==
  LET known == {j \in (IF d = "buy" THEN SwingHighs(b) ELSE SwingLows(b)) : j + 2 <= i}
      s == Greatest(known)
      through(k) == IF d = "buy" THEN b[k].c > b[s].h ELSE b[k].c < b[s].l
  IN IF known # {} /\ through(i) /\ \A k \in s + 2 .. i - 1 : ~through(k)
     THEN {[idx |-> i, dir |-> d, swing |-> s]} ELSE {}

\* The breaks of the one pass over the bars, which keeps two swings and spends them, are
\* those of the definition.  (primitives.py structure_breaks)
BreaksAreTheLastSwing ==
  StructureBreaks(bars) = UNION {BreakOf(bars, i, d) : i \in 1 .. Len(bars), d \in {"buy", "sell"}}

\* The chart upside down.
Mirrored(b) == [i \in 1 .. Len(b) |-> [o |-> -b[i].o, h |-> -b[i].l, l |-> -b[i].h, c |-> -b[i].c]]
Turned(z) == [z EXCEPT !.dir = Against(z.dir), !.low = -z.high, !.high = -z.low]

\* Buying and selling are mirror images: turning the chart upside down turns every zone and
\* every break over, and changes nothing else.  (both branches of every detector of
\* primitives.py)
BuyMirrorsSell ==
  LET m == Mirrored(bars)
  IN /\ Formed(m) = {Turned(z) : z \in Formed(bars)}
     /\ IFvgs(m) = {Turned(z) : z \in IFvgs(bars)}
     /\ Bprs(m) = {Turned(z) : z \in Bprs(bars)}
     /\ Voids(m) = {Turned(z) : z \in Voids(bars)}
     /\ StructureBreaks(m) = {[k EXCEPT !.dir = Against(k.dir)] : k \in StructureBreaks(bars)}

\* A plan risks and aims at what it should: the stop lies behind the entry within the bounds
\* of risk, TP1 pays three times the risk within reach of the session, no objective of 3R
\* stands before it, and the target sent to the broker is not nearer than TP1.
PlanIsSane ==
  \A t \in Setups(bars) : \A tp1 \in Tp1(t) :
    /\ 0 < t.risk /\ 2 * t.risk <= SessionAtr /\ Side(t.dir, t.entry - t.sl) = t.risk
    /\ Dist(t.dir, t.entry, tp1) >= 3 * t.risk /\ 5 * Dist(t.dir, t.entry, tp1) <= 2 * SessionAtr
    /\ \A lv \in t.objectives : Dist(t.dir, t.entry, lv) >= 3 * t.risk => Dist(t.dir, t.entry, lv) >= Dist(t.dir, t.entry, tp1)
    /\ \A lv \in Management(t) : Dist(t.dir, t.entry, lv) < Dist(t.dir, t.entry, tp1)
    /\ Dist(t.dir, t.entry, ServerTp(t, tp1)) >= Dist(t.dir, t.entry, tp1)
=============================================================================
