----------------------------- MODULE Primitives ------------------------------
(***************************************************************************)
(* Candle primitives (core/primitives.py) and level helpers (core/levels.py*)
(* and mapper/chains.py, mapper/liquidity.py): functions of a sequence of  *)
(* closed bars, oldest first.  Prices are integers; the middle of two      *)
(* prices is kept as their sum.  A bar is dated by its index.              *)
(***************************************************************************)
EXTENDS Integers, Sequences, FiniteSets, Functions

CONSTANT AtrBars    \* 14 in ATR14
ASSUME AtrAssumption == AtrBars \in Nat \ {0, 1}

Low2(a, b) == IF a <= b THEN a ELSE b
High2(a, b) == IF a >= b THEN a ELSE b
Least(S) == CHOOSE x \in S : \A y \in S : x <= y
Greatest(S) == CHOOSE x \in S : \A y \in S : x >= y
Gap(a, b) == IF a >= b THEN a - b ELSE b - a

Top(b) == High2(b.o, b.c)
Bot(b) == Low2(b.o, b.c)
Body(b) == Gap(b.o, b.c)
Bull(b) == b.c > b.o
Bear(b) == b.c < b.o
Way(b) == IF Bull(b) THEN "buy" ELSE "sell"
Against(d) == IF d = "buy" THEN "sell" ELSE "buy"
Beyond(d, a, b) == IF d = "buy" THEN a > b ELSE a < b   \* a lies further than b in direction d
-----------------------------------------------------------------------------
\* true_range, atr_series: the mean as known at the close of bar i is AtrSum / AtrLen; the
\* range of the first bar counts only for that bar.
TrueRange(bars, i) ==
  IF i = 1 THEN bars[1].h - bars[1].l
  ELSE Greatest({bars[i].h - bars[i].l, Gap(bars[i].h, bars[i - 1].c), Gap(bars[i].l, bars[i - 1].c)})
AtrWindow(i) == IF i = 1 THEN {1} ELSE High2(2, i - AtrBars + 1) .. i
AtrSum(bars, i) == SumFunction([j \in AtrWindow(i) |-> TrueRange(bars, j)])
AtrLen(i) == Cardinality(AtrWindow(i))

\* swing_highs, swing_lows: a bar above (below) both its neighbours.
Inner(bars) == 2 .. Len(bars) - 1
EarlyHighs(bars) == {i \in 2 .. Len(bars) : bars[i].h > bars[i - 1].h /\ (i < Len(bars) => bars[i].h > bars[i + 1].h)}  \* mutant
SwingHighs(bars) == {i \in Inner(bars) : bars[i].h > bars[i - 1].h /\ bars[i].h > bars[i + 1].h}
SwingLows(bars) == {i \in Inner(bars) : bars[i].l < bars[i - 1].l /\ bars[i].l < bars[i + 1].l}

\* structure_breaks: bar by bar, a close beyond the last confirmed swing, which is then
\* spent; the swing at i - 1 is confirmed by the close of bar i.
KeepsSwing(broken, swing) == swing                         \* mutant
Unspent(broken, swing) == IF broken THEN 0 ELSE swing
Scan(bars) ==
  LET hs == SwingHighs(bars)
      ls == SwingLows(bars)
      after[i \in 0 .. Len(bars)] ==
        IF i = 0 THEN [high |-> 0, low |-> 0, out |-> {}]
        ELSE LET p == after[i - 1]
                 up == p.high # 0 /\ bars[i].c > bars[p.high].h
                 down == p.low # 0 /\ bars[i].c < bars[p.low].l
             IN [high |-> IF i - 1 \in hs THEN i - 1 ELSE Unspent(up, p.high),
                 low |-> IF i - 1 \in ls THEN i - 1 ELSE Unspent(down, p.low),
                 out |-> p.out \cup (IF up THEN {[idx |-> i, dir |-> "buy", swing |-> p.high]} ELSE {})
                               \cup (IF down THEN {[idx |-> i, dir |-> "sell", swing |-> p.low]} ELSE {})]
  IN after[Len(bars)]
StructureBreaks(bars) == Scan(bars).out

\* cisd_anchor: the first bar of the run of opposite closes right before bar i, or 0.
Opposite(b, d) == IF d = "buy" THEN Bear(b) ELSE Bull(b)
CisdStart(bars, i, d) ==
  LET runs == {j \in 1 .. i - 1 : \A k \in j .. i - 1 : Opposite(bars[k], d)}
  IN IF runs = {} THEN 0 ELSE Least(runs)
-----------------------------------------------------------------------------
\* A PD array: its direction, edges, the bar it is dated by and the displacement.
Zone(kind, d, low, high, idx, disp) ==
  [kind |-> kind, dir |-> d, low |-> low, high |-> high, idx |-> idx, disp |-> disp]

FvgAt(bars, m, d) ==
  m \in Inner(bars) /\ IF d = "buy" THEN bars[m + 1].l > bars[m - 1].h ELSE bars[m + 1].h < bars[m - 1].l
Fvgs(bars) ==
  {Zone("FVG", "buy", bars[m - 1].h, bars[m + 1].l, m, m) : m \in {k \in Inner(bars) : FvgAt(bars, k, "buy")}} \cup
  {Zone("FVG", "sell", bars[m + 1].h, bars[m - 1].l, m, m) : m \in {k \in Inner(bars) : FvgAt(bars, k, "sell")}}

\* is_displacement: a body of at least one ATR and of 60 % of the range, leaving a gap.
Displaced(bars, i) ==
  LET b == bars[i]
  IN /\ AtrSum(bars, i) > 0 /\ Body(b) * AtrLen(i) >= AtrSum(bars, i)
     /\ 5 * Body(b) >= 3 * (b.h - b.l) /\ FvgAt(bars, i, Way(b))

OrderBlockAt(bars, i) ==
  /\ i \in Inner(bars) /\ Displaced(bars, i) /\ CisdStart(bars, i, Way(bars[i])) # 0
  /\ \E k \in StructureBreaks(bars) : k.dir = Way(bars[i]) /\ k.idx \in i .. i + 2
  /\ \E m \in i .. i + 2 : FvgAt(bars, m, Way(bars[i]))
OrderBlock(bars, i) ==
  LET run == CisdStart(bars, i, Way(bars[i])) .. i - 1
  IN Zone("OB", Way(bars[i]), Least({bars[j].l : j \in run}), Greatest({bars[j].h : j \in run}), Least(run), i)
OrderBlocks(bars) == {OrderBlock(bars, i) : i \in {k \in Inner(bars) : OrderBlockAt(bars, k)}}

\* breaker_blocks: the first close through an order block, if a displacement against it
\* starts within three bars of that close.
BreakerBlocks(bars) ==
  LET through(z) == {k \in z.disp + 1 .. Len(bars) : Beyond(Against(z.dir), bars[k].c, IF z.dir = "buy" THEN z.low ELSE z.high)}
      legs(z) == LET k == Least(through(z)) IN {j \in k .. k + 2 : j \in Inner(bars) /\ Displaced(bars, j) /\ Way(bars[j]) = Against(z.dir)}
      failed == {z \in OrderBlocks(bars) : through(z) # {} /\ legs(z) # {}}
  IN {Zone("BB", Against(z.dir), z.low, z.high, Least(legs(z)), Least(legs(z))) : z \in failed}

\* rejection_blocks, propulsion_blocks, volume_imbalances, vacuums
RejectionBlocks(bars) ==
  {Zone("RB", "buy", bars[i].l, Bot(bars[i]), i, i + 1) : i \in
     {k \in 1 .. Len(bars) - 1 : Bear(bars[k]) /\ bars[k + 1].c > bars[k].h /\ Displaced(bars, k + 1)}} \cup
  {Zone("RB", "sell", Top(bars[i]), bars[i].h, i, i + 1) : i \in
     {k \in 1 .. Len(bars) - 1 : Bull(bars[k]) /\ bars[k + 1].c < bars[k].l /\ Displaced(bars, k + 1)}}
PropulsionBlocks(bars) ==
  {Zone("PB", Way(bars[i]), Bot(bars[i]), Top(bars[i]), i, i) : i \in
     {k \in Inner(bars) : 2 * Body(bars[k]) * AtrLen(k) >= 3 * AtrSum(bars, k)
                          /\ \E j \in {k - 1, k} : Displaced(bars, j)}}
VolumeImbalances(bars) ==
  {Zone("VI", "buy", Top(bars[i - 1]), Bot(bars[i]), i, i) : i \in
     {k \in 2 .. Len(bars) : Bot(bars[k]) > Top(bars[k - 1]) /\ bars[k].l <= bars[k - 1].h}} \cup
  {Zone("VI", "sell", Top(bars[i]), Bot(bars[i - 1]), i, i) : i \in
     {k \in 2 .. Len(bars) : Top(bars[k]) < Bot(bars[k - 1]) /\ bars[k].h >= bars[k - 1].l}}
Vacuums(bars) ==
  {Zone("VACUUM", "buy", bars[i - 1].h, bars[i].l, i, i) : i \in {k \in 2 .. Len(bars) : bars[k].l > bars[k - 1].h}} \cup
  {Zone("VACUUM", "sell", bars[i].h, bars[i - 1].l, i, i) : i \in {k \in 2 .. Len(bars) : bars[k].h < bars[k - 1].l}}
-----------------------------------------------------------------------------
\* What becomes of a zone.  first_touch from bar s on, and mark_mitigation: 0 while untouched.
Touches(z, b) == IF z.dir = "buy" THEN b.l <= z.high ELSE b.h >= z.low
FirstTouch(z, bars, s) ==
  LET touched == {k \in s .. Len(bars) : Touches(z, bars[k])} IN IF touched = {} THEN 0 ELSE Least(touched)
MitigatedAt(z, bars) == FirstTouch(z, bars, z.disp + 2)

\* ifvgs: re-entered, and no close beyond the middle since.
ClosedAgainst(z, b) == IF z.dir = "buy" THEN 2 * b.c < z.low + z.high ELSE 2 * b.c > z.low + z.high
LastOnly(k, bars) == {Len(bars)}                           \* mutant
SinceTap(k, bars) == k .. Len(bars)
IFvgs(bars) ==
  {z \in Fvgs(bars) : LET k == FirstTouch(z, bars, z.idx + 2)
                      IN k # 0 /\ \A j \in SinceTap(k, bars) : ~ClosedAgainst(z, bars[j])}

\* bprs: a gap overlapped by a later one of the other direction, dead once closes lie on
\* both sides of the overlap.  voids: a gap of one ATR not traded through.
Overlaps(bars) ==
  {[low |-> High2(p[1].low, p[2].low), high |-> Low2(p[1].high, p[2].high), idx |-> p[2].idx, dir |-> p[2].dir] :
     p \in {q \in Fvgs(bars) \X Fvgs(bars) :
              /\ q[1].idx < q[2].idx /\ q[1].dir # q[2].dir
              /\ High2(q[1].low, q[2].low) < Low2(q[1].high, q[2].high)}}
Traversed(v, bars) ==
  /\ \E k \in v.idx + 2 .. Len(bars) : bars[k].c < v.low
  /\ \E k \in v.idx + 2 .. Len(bars) : bars[k].c > v.high
Bprs(bars) == {v \in Overlaps(bars) : ~Traversed(v, bars)}

Wide(bars) == {z \in Fvgs(bars) : (z.high - z.low) * AtrLen(z.idx) >= AtrSum(bars, z.idx)}
FillsAtEdge(z, b) == IF z.dir = "buy" THEN b.l <= z.low ELSE b.h >= z.low  \* mutant
Filled(z, b) == IF z.dir = "buy" THEN b.l <= z.low ELSE b.h >= z.high
Voids(bars) == {z \in Wide(bars) : \A k \in z.idx + 2 .. Len(bars) : ~Filled(z, bars[k])}

\* chains.broken: a bar closed beyond the far edge after the bar the zone is dated by.
BrokenZone(z, bars) ==
  \E k \in z.idx + 1 .. Len(bars) : IF z.dir = "buy" THEN bars[k].c < z.low ELSE bars[k].c > z.high

\* levels.sweep_status of a level over the bars from s on: a body beyond it counts more
\* than an earlier wick.
SweepStatus(level, side, tol, bars, s) ==
  LET rest == s .. Len(bars)
      bodies == {k \in rest : IF side = "high" THEN bars[k].c > level ELSE bars[k].c < level}
      wicks == {k \in rest : IF side = "high" THEN bars[k].h >= level - tol ELSE bars[k].l <= level + tol}
  IN IF bodies # {} THEN [status |-> "SWEPT_BODY", at |-> Least(bodies)]
     ELSE IF wicks # {} THEN [status |-> "SWEPT_WICK", at |-> Least(wicks)]
     ELSE [status |-> "UNTOUCHED", at |-> 0]

\* major_swings: beyond the two swings of its kind before it and the two after it.
Around(S, i) ==
  LET before == {j \in S : j < i}
      later == {j \in S : j > i}
  IN {j \in before : Cardinality({k \in before : k >= j}) <= 2} \cup
     {j \in later : Cardinality({k \in later : k <= j}) <= 2}
MajorHighs(bars) ==
  LET S == SwingHighs(bars)
  IN {i \in S : Cardinality(Around(S, i)) = 4 /\ \A j \in Around(S, i) : bars[i].h > bars[j].h}
MajorLows(bars) ==
  LET S == SwingLows(bars)
  IN {i \in S : Cardinality(Around(S, i)) = 4 /\ \A j \in Around(S, i) : bars[i].l < bars[j].l}
=============================================================================
