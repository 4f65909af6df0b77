----------------------------- MODULE DataProofs ------------------------------
(***************************************************************************)
(* From the bars to a plan, for any shapes and any length of the series:   *)
(* bars are read once their values are final, no detector looks ahead or   *)
(* forgets, what is used up stays used up, the breaks of the one pass are  *)
(* those of the definition, and a plan risks and aims at what it should.   *)
(***************************************************************************)
EXTENDS DataProperties, FiniteSetTheorems, WellFoundedInduction, TLAPS
-----------------------------------------------------------------------------
(* The series grows, and what is found in the bars there were stays.         *)
\* The next bar leaves the bars before it as they are.
Grown(b, a) == /\ b \in Seq(OneBar) /\ a \in Seq(OneBar) /\ Len(a) = Len(b) + 1
               /\ \A i \in 1 .. Len(b) : a[i] = b[i]
BarsType == bars \in Seq(OneBar) /\ (part = "chart" => Len(bars) > 0)

LEMMA InitBars == Init => BarsType
<1> SUFFICES ASSUME Init PROVE BarsType
  OBVIOUS
<1>1. CASE part = "chart"
  <2>1. bars \in Seq(OneBar) /\ bars # <<>>
    BY <1>1, ChartAssumption DEF ChartAssumption, Init, ChartInit
  <2>2. QED
    BY <2>1 DEF BarsType
<1>2. CASE part = "feed"
  <2>1. bars = <<>>
    BY <1>2 DEF Init
  <2>2. QED
    BY <1>2, <2>1 DEF BarsType
<1>3. QED
  BY <1>1, <1>2 DEF Init

LEMMA BarGrows == BarsType /\ Bar => BarsType' /\ Grown(bars, bars')
<1> SUFFICES ASSUME BarsType, Bar PROVE BarsType' /\ Grown(bars, bars')
  OBVIOUS
<1>1. PICK s \in Shapes : bars' = Append(bars, Follow(s, bars[Len(bars)].c))
  BY DEF Bar, NextBar
<1>2. bars \in Seq(OneBar) /\ Len(bars) > 0
  BY DEF Bar, BarsType
<1>3. Follow(s, bars[Len(bars)].c) \in OneBar
  <2>1. s \in OneBar /\ bars[Len(bars)] \in OneBar
    BY <1>2, ChartAssumption DEF ChartAssumption
  <2>2. s.o \in Int /\ s.h \in Int /\ s.l \in Int /\ s.c \in Int /\ bars[Len(bars)].c \in Int
    BY <2>1 DEF OneBar
  <2>3. QED
    BY <2>2 DEF OneBar, Follow
<1>4. QED
  <2> DEFINE x == Follow(s, bars[Len(bars)].c)
  <2>1. x \in OneBar /\ bars' = Append(bars, x)
    BY <1>1, <1>3
  <2>2. bars' \in Seq(OneBar) /\ Len(bars') = Len(bars) + 1
    BY <1>2, <2>1
  <2>3. \A i \in 1 .. Len(bars) : bars'[i] = bars[i]
    BY <1>2, <2>1
  <2>4. QED
    BY <1>2, <2>2, <2>3 DEF Grown, BarsType, Bar

LEMMA BarsTyped == Spec => []BarsType
<1>1. BarsType /\ [Next]_pathVars => BarsType'
  <2> SUFFICES ASSUME BarsType, [Next]_pathVars PROVE BarsType'
    OBVIOUS
  <2>1. CASE Bar
    BY <2>1, BarGrows
  <2>2. CASE Feed \/ UNCHANGED pathVars
    BY <2>2 DEF Feed, pathVars, BarsType
  <2>3. QED
    BY <2>1, <2>2 DEF Next
<1>2. QED
  BY <1>1, InitBars, PTL DEF Spec
-----------------------------------------------------------------------------
LEMMA InnerGrows ==
  ASSUME NEW b, NEW a, Grown(b, a), NEW i \in Inner(b)
  PROVE  /\ i \in Inner(a) /\ i \in 1 .. Len(b)
         /\ a[i - 1] = b[i - 1] /\ a[i] = b[i] /\ a[i + 1] = b[i + 1]
<1>1. Len(b) \in Nat /\ Len(a) = Len(b) + 1 /\ i \in 2 .. Len(b) - 1
  BY DEF Grown, Inner
<1>2. i - 1 \in 1 .. Len(b) /\ i \in 1 .. Len(b) /\ i + 1 \in 1 .. Len(b) /\ i \in Inner(a)
  BY <1>1 DEF Inner
<1>3. QED
  BY <1>2 DEF Grown

LEMMA SwingsStay ==
  ASSUME NEW b, NEW a, Grown(b, a)
  PROVE  SwingHighs(b) \subseteq SwingHighs(a) /\ SwingLows(b) \subseteq SwingLows(a)
BY InnerGrows DEF SwingHighs, SwingLows

LEMMA GapAtStays ==
  ASSUME NEW b, NEW a, Grown(b, a), NEW i \in Inner(b), NEW d
  PROVE  FvgAt(b, i, d) = FvgAt(a, i, d)
BY InnerGrows DEF FvgAt

LEMMA GapsStay ==
  ASSUME NEW b, NEW a, Grown(b, a)
  PROVE  Fvgs(b) \subseteq Fvgs(a)
<1> SUFFICES ASSUME NEW z \in Fvgs(b) PROVE z \in Fvgs(a)
  OBVIOUS
<1>1. ASSUME NEW m \in Inner(b), FvgAt(b, m, "buy"), z = Zone("FVG", "buy", b[m - 1].h, b[m + 1].l, m, m)
      PROVE  z \in Fvgs(a)
  <2>1. FvgAt(a, m, "buy") /\ z = Zone("FVG", "buy", a[m - 1].h, a[m + 1].l, m, m) /\ m \in Inner(a)
    BY <1>1, InnerGrows, GapAtStays
  <2>2. QED
    BY <2>1 DEF Fvgs
<1>2. ASSUME NEW m \in Inner(b), FvgAt(b, m, "sell"), z = Zone("FVG", "sell", b[m + 1].h, b[m - 1].l, m, m)
      PROVE  z \in Fvgs(a)
  <2>1. FvgAt(a, m, "sell") /\ z = Zone("FVG", "sell", a[m + 1].h, a[m - 1].l, m, m) /\ m \in Inner(a)
    BY <1>2, InnerGrows, GapAtStays
  <2>2. QED
    BY <2>1 DEF Fvgs
<1>3. QED
  BY <1>1, <1>2 DEF Fvgs

LEMMA PairStays ==
  ASSUME NEW b, NEW a, Grown(b, a), NEW i \in 2 .. Len(b)
  PROVE  i \in 2 .. Len(a) /\ a[i - 1] = b[i - 1] /\ a[i] = b[i]
<1>1. Len(b) \in Nat /\ Len(a) = Len(b) + 1
  BY DEF Grown
<1>2. i - 1 \in 1 .. Len(b) /\ i \in 1 .. Len(b) /\ i \in 2 .. Len(a)
  BY <1>1
<1>3. QED
  BY <1>2 DEF Grown

LEMMA ImbalancesStay ==
  ASSUME NEW b, NEW a, Grown(b, a)
  PROVE  VolumeImbalances(b) \subseteq VolumeImbalances(a)
<1> DEFINE up(x, k) == Bot(x[k]) > Top(x[k - 1]) /\ x[k].l <= x[k - 1].h
           down(x, k) == Top(x[k]) < Bot(x[k - 1]) /\ x[k].h >= x[k - 1].l
<1> SUFFICES ASSUME NEW z \in VolumeImbalances(b) PROVE z \in VolumeImbalances(a)
  OBVIOUS
<1>1. ASSUME NEW k \in 2 .. Len(b), up(b, k), z = Zone("VI", "buy", Top(b[k - 1]), Bot(b[k]), k, k)
      PROVE  z \in VolumeImbalances(a)
  <2>1. up(a, k) /\ z = Zone("VI", "buy", Top(a[k - 1]), Bot(a[k]), k, k) /\ k \in 2 .. Len(a)
    BY <1>1, PairStays
  <2>2. QED
    BY <2>1 DEF VolumeImbalances
<1>2. ASSUME NEW k \in 2 .. Len(b), down(b, k), z = Zone("VI", "sell", Top(b[k]), Bot(b[k - 1]), k, k)
      PROVE  z \in VolumeImbalances(a)
  <2>1. down(a, k) /\ z = Zone("VI", "sell", Top(a[k]), Bot(a[k - 1]), k, k) /\ k \in 2 .. Len(a)
    BY <1>2, PairStays
  <2>2. QED
    BY <2>1 DEF VolumeImbalances
<1>3. QED
  BY <1>1, <1>2 DEF VolumeImbalances

LEMMA VacuumsStay ==
  ASSUME NEW b, NEW a, Grown(b, a)
  PROVE  Vacuums(b) \subseteq Vacuums(a)
<1> SUFFICES ASSUME NEW z \in Vacuums(b) PROVE z \in Vacuums(a)
  OBVIOUS
<1>1. ASSUME NEW k \in 2 .. Len(b), b[k].l > b[k - 1].h, z = Zone("VACUUM", "buy", b[k - 1].h, b[k].l, k, k)
      PROVE  z \in Vacuums(a)
  <2>1. a[k].l > a[k - 1].h /\ z = Zone("VACUUM", "buy", a[k - 1].h, a[k].l, k, k) /\ k \in 2 .. Len(a)
    BY <1>1, PairStays
  <2>2. QED
    BY <2>1 DEF Vacuums
<1>2. ASSUME NEW k \in 2 .. Len(b), b[k].h < b[k - 1].l, z = Zone("VACUUM", "sell", b[k].h, b[k - 1].l, k, k)
      PROVE  z \in Vacuums(a)
  <2>1. a[k].h < a[k - 1].l /\ z = Zone("VACUUM", "sell", a[k].h, a[k - 1].l, k, k) /\ k \in 2 .. Len(a)
    BY <1>2, PairStays
  <2>2. QED
    BY <2>1 DEF Vacuums
<1>3. QED
  BY <1>1, <1>2 DEF Vacuums

\* The true range, and with it the mean of the last bars, is settled at the close of a bar.
LEMMA AtrStays ==
  ASSUME NEW b, NEW a, Grown(b, a), NEW i \in 1 .. Len(b)
  PROVE  AtrSum(b, i) = AtrSum(a, i)
<1>1. AtrWindow(i) \subseteq 1 .. i
  BY AtrAssumption DEF AtrAssumption, AtrWindow, High2, Grown
<1>2. ASSUME NEW j \in 1 .. i PROVE TrueRange(b, j) = TrueRange(a, j)
  <2>1. j \in 1 .. Len(b) /\ a[j] = b[j] /\ Len(b) \in Nat
    BY DEF Grown
  <2>2. CASE j = 1
    BY <2>1, <2>2 DEF TrueRange
  <2>3. CASE j # 1
    <3>1. a[j - 1] = b[j - 1]
      BY <2>1, <2>3 DEF Grown
    <3>2. QED
      BY <2>1, <2>3, <3>1 DEF TrueRange
  <2>4. QED
    BY <2>2, <2>3
<1>3. [j \in AtrWindow(i) |-> TrueRange(b, j)] = [j \in AtrWindow(i) |-> TrueRange(a, j)]
  BY <1>1, <1>2
<1>4. QED
  BY <1>3 DEF AtrSum

LEMMA DisplacementsStay ==
  ASSUME NEW b, NEW a, Grown(b, a), NEW i \in Inner(b)
  PROVE  Displaced(b, i) = Displaced(a, i)
<1>1. i \in 1 .. Len(b) /\ a[i] = b[i]
  BY InnerGrows
<1>2. AtrSum(b, i) = AtrSum(a, i)
  BY <1>1, AtrStays
<1>3. FvgAt(b, i, Way(b[i])) = FvgAt(a, i, Way(b[i]))
  BY GapAtStays
<1>4. QED
  BY <1>1, <1>2, <1>3 DEF Displaced

LEMMA DisplacedStays ==
  ASSUME NEW b, NEW a, Grown(b, a), NEW i, Displaced(b, i)
  PROVE  i \in Inner(b) /\ Displaced(a, i)
<1>1. i \in Inner(b)
  BY DEF Displaced, FvgAt
<1>2. QED
  BY <1>1, DisplacementsStay

LEMMA RejectionsStay ==
  ASSUME NEW b, NEW a, Grown(b, a)
  PROVE  RejectionBlocks(b) \subseteq RejectionBlocks(a)
<1> DEFINE low(x, k) == Bear(x[k]) /\ x[k + 1].c > x[k].h /\ Displaced(x, k + 1)
           high(x, k) == Bull(x[k]) /\ x[k + 1].c < x[k].l /\ Displaced(x, k + 1)
<1> SUFFICES ASSUME NEW z \in RejectionBlocks(b) PROVE z \in RejectionBlocks(a)
  OBVIOUS
<1>1. ASSUME NEW k \in 1 .. Len(b) - 1
      PROVE  k \in 1 .. Len(a) - 1 /\ a[k] = b[k] /\ a[k + 1] = b[k + 1]
  <2>1. Len(b) \in Nat /\ Len(a) = Len(b) + 1 /\ k \in 1 .. Len(b) /\ k + 1 \in 1 .. Len(b)
    BY DEF Grown
  <2>2. QED
    BY <2>1 DEF Grown
<1>2. ASSUME NEW k \in 1 .. Len(b) - 1, low(b, k), z = Zone("RB", "buy", b[k].l, Bot(b[k]), k, k + 1)
      PROVE  z \in RejectionBlocks(a)
  <2>1. Displaced(a, k + 1)
    BY <1>2, DisplacedStays
  <2>2. low(a, k) /\ z = Zone("RB", "buy", a[k].l, Bot(a[k]), k, k + 1) /\ k \in 1 .. Len(a) - 1
    BY <1>1, <1>2, <2>1
  <2>3. QED
    BY <2>2 DEF RejectionBlocks
<1>3. ASSUME NEW k \in 1 .. Len(b) - 1, high(b, k), z = Zone("RB", "sell", Top(b[k]), b[k].h, k, k + 1)
      PROVE  z \in RejectionBlocks(a)
  <2>1. Displaced(a, k + 1)
    BY <1>3, DisplacedStays
  <2>2. high(a, k) /\ z = Zone("RB", "sell", Top(a[k]), a[k].h, k, k + 1) /\ k \in 1 .. Len(a) - 1
    BY <1>1, <1>3, <2>1
  <2>3. QED
    BY <2>2 DEF RejectionBlocks
<1>4. QED
  BY <1>2, <1>3 DEF RejectionBlocks

LEMMA PropulsionsStay ==
  ASSUME NEW b, NEW a, Grown(b, a)
  PROVE  PropulsionBlocks(b) \subseteq PropulsionBlocks(a)
<1> DEFINE strong(x, k) == 2 * Body(x[k]) * AtrLen(k) >= 3 * AtrSum(x, k)
           moved(x, k) == \E j \in {k - 1, k} : Displaced(x, j)
<1> SUFFICES ASSUME NEW k \in Inner(b), strong(b, k), moved(b, k)
             PROVE  Zone("PB", Way(b[k]), Bot(b[k]), Top(b[k]), k, k) \in PropulsionBlocks(a)
  BY DEF PropulsionBlocks
<1>1. k \in Inner(a) /\ k \in 1 .. Len(b) /\ a[k] = b[k]
  BY InnerGrows
<1>2. strong(a, k)
  BY <1>1, AtrStays
<1>3. moved(a, k)
  BY DisplacedStays
<1>4. QED
  BY <1>1, <1>2, <1>3 DEF PropulsionBlocks
-----------------------------------------------------------------------------
(* The feed: bars are read once their values are final.                      *)
LEMMA LeastOf ==
  ASSUME NEW T \in SUBSET Nat, T # {}
  PROVE  Min(T) \in T /\ \A y \in T : Min(T) <= y
<1>1. PICK x \in T : \A y \in T : ~(<<y, x>> \in OpToRel(<, Nat))
  BY WFMin, NatLessThanWellFounded, Zenon
<1>2. \A y \in T : ~(y < x)
  BY <1>1, Zenon DEF OpToRel
<1>3. \A y \in T : x <= y
  BY <1>2
<1>4. QED
  BY <1>3 DEF Min

LEMMA GreatestOf ==
  ASSUME NEW T \in SUBSET Nat, T # {}, NEW top \in Nat, \A y \in T : y <= top
  PROVE  Max(T) \in T /\ \A y \in T : y <= Max(T)
<1> DEFINE D == {d \in Nat : top - d \in T}
<1>1. D # {} /\ D \in SUBSET Nat
  <2>1. PICK y \in T : y <= top
    OBVIOUS
  <2>2. top - y \in D
    BY <2>1
  <2>3. QED
    BY <2>2
<1>2. Min(D) \in D /\ \A d \in D : Min(D) <= d
  BY <1>1, LeastOf
<1> DEFINE x == top - Min(D)
<1>3. x \in T /\ \A y \in T : y <= x
  <2>1. x \in T /\ Min(D) \in Nat
    BY <1>2
  <2>2. ASSUME NEW y \in T PROVE y <= x
    <3>1. top - y \in D
      BY <2>2
    <3>2. QED
      BY <1>2, <2>1, <3>1
  <2>3. QED
    BY <2>1, <2>2
<1> HIDE DEF x
<1>4. QED
  BY <1>3 DEF Max

LEMMA Opens ==
  ASSUME NEW a \in Nat, NEW b \in Nat
  PROVE  /\ a * Step \in Nat /\ a <= a * Step /\ (a + 1) * Step = a * Step + Step /\ (a + 2) * Step = a * Step + 2 * Step
         /\ a <= b => a * Step <= b * Step
<1>1. Step \in Nat /\ 0 < Step
  BY CandleAssumption
<1>2. QED
  BY <1>1, SMTT(30)

\* What a refresh or a task holds: bars the broker has given, whose values are final but
\* for those that the next refresh asks for again.
Fetched == UNION {[S -> BOOLEAN] : S \in SUBSET Nat}
Refreshable(f, at, bs) ==
  /\ f \in Fetched /\ DOMAIN f \subseteq bs
  /\ \A n \in DOMAIN f : n * Step <= at /\ (~f[n] /\ Enough(DOMAIN f) => StartOf(DOMAIN f) <= n)

Hows == {"range", "count", "served"}
Pcs == {"idle", "refresh", "check", "refetch", "recheck", "show", "decide"}
TaskType == [pc : Pcs, at : Nat, have : Fetched, how : Hows, ok : BOOLEAN]
FeedType ==
  /\ now \in Nat /\ given \in SUBSET Nat /\ \A n \in given : n * Step <= now
  /\ job \in [Tasks -> TaskType] /\ \A k \in Tasks : job[k].how = "served" => Waiting(k)
  /\ line \in Seq(Tasks)
  /\ last \in Nat \cup {None} /\ shown \in SUBSET Nat
Reads == job["tick"].pc \in {"check", "recheck", "show", "decide"}

\* The time by which a task's bars were there: that of the answer once it is computed.
Due(k) == IF job[k].how = "served" THEN now ELSE job[k].at

\* On the ordered session only the call at the head has an answer on its way, so that one
\* stored after the tick's was computed after it too.
Sound(f, at) == \A n \in DOMAIN f : Final(n, at) => f[n]
Ordered ==
  session = "mcp" =>
    /\ Reads => Sound(cache, job["tick"].at)
    /\ \A k \in Tasks : job[k].how = "served" =>
         /\ line # <<>> /\ Head(line) = k
         /\ k = "tick" \/ Reads => Sound(job[k].have, job["tick"].at)
FeedInv ==
  /\ FeedType
  /\ Refreshable(cache, now, given)
  /\ \A k \in Tasks : job[k].at <= now /\ Refreshable(job[k].have, Due(k), given)
  /\ Ordered
  /\ shown # {} => last # None /\ \E j \in shown : last <= j

LEMMA NoneHeld == NoBars \in Fetched /\ DOMAIN NoBars = {} /\ \A at, bs : Refreshable(NoBars, at, bs)
<1>1. NoBars \in [{} -> BOOLEAN] /\ DOMAIN NoBars = {}
  BY DEF NoBars
<1>2. NoBars \in Fetched
  BY <1>1 DEF Fetched
<1>3. QED
  BY <1>1, <1>2 DEF Refreshable

LEMMA HeldIs == ASSUME NEW f \in Fetched PROVE \A n \in DOMAIN f : n \in Nat /\ f[n] \in BOOLEAN
BY DEF Fetched

\* A bar that is not among the newest k has that many of them after it.
LEMMA NewestAfter ==
  ASSUME NEW S \in SUBSET Nat, NEW top \in Nat, \A j \in S : j <= top, NEW k \in Nat, NEW n \in S, n \notin Newest(S, k),
         NEW U \in SUBSET S, Newest(S, k) \subseteq U
  PROVE  n \notin Newest(U, k)
<1> DEFINE G == {j \in S : j > n}
           W == {j \in U : j > n}
<1>1. IsFiniteSet(S) /\ IsFiniteSet(G) /\ IsFiniteSet(W)
  <2>1. S \subseteq 0 .. top /\ IsFiniteSet(0 .. top)
    BY FS_Interval
  <2>2. G \subseteq S /\ W \subseteq S
    OBVIOUS
  <2>3. QED
    BY <2>1, <2>2, FS_Subset
<1>2. Cardinality(G) \in Nat /\ Cardinality(W) \in Nat /\ Cardinality(G) >= k
  BY <1>1, FS_CardinalityType DEF Newest
<1>3. SUFFICES ASSUME Cardinality(W) < k PROVE FALSE
  BY DEF Newest
<1>4. ~(G \subseteq W)
  BY <1>1, <1>2, <1>3, FS_Subset
<1> DEFINE M == G \ W
<1>5. M \in SUBSET Nat /\ M # {} /\ \A j \in M : j <= top
  BY <1>4
<1> DEFINE g == Max(M)
<1>6. g \in M /\ \A j \in M : j <= g
  BY <1>5, GreatestOf
<1> HIDE DEF g
<1>7. ASSUME NEW j \in S, j > g PROVE j \in W
  <2>1. g \in S /\ g > n /\ g \in Nat /\ n \in Nat /\ j \in Nat
    BY <1>6
  <2>2. j \in G
    BY <1>7, <2>1
  <2>3. j \notin M
    BY <1>6, <1>7, <2>1
  <2>4. QED
    BY <2>2, <2>3
<1>8. Cardinality({j \in S : j > g}) < k
  <2>1. {j \in S : j > g} \subseteq W
    BY <1>7
  <2>2. Cardinality({j \in S : j > g}) <= Cardinality(W) /\ Cardinality({j \in S : j > g}) \in Nat
    BY <1>1, <2>1, FS_Subset, FS_CardinalityType
  <2>3. QED
    BY <1>2, <1>3, <2>2
<1>9. g \in Newest(S, k)
  BY <1>6, <1>8 DEF Newest
<1>10. QED
  BY <1>6, <1>9

\* After the answer, the bars whose values are not final are the two newest ones.
LEMMA MergedIs ==
  ASSUME FeedInv, NEW k \in Tasks, job[k].how # "served"
  PROVE  LET m == Merged(job[k])
         IN Refreshable(m, now, given) /\ \A n \in DOMAIN m : Final(n, now) => m[n]
<1> DEFINE j == job[k]
           U == DOMAIN j.have \cup Fresh(j)
           S == Newest(U, Keep)
           m == Merged(j)
<1>1. /\ Refreshable(j.have, j.at, given) /\ j.at \in Nat /\ j.at <= now /\ j.have \in Fetched /\ now \in Nat
      /\ given \in SUBSET Nat /\ Keep \in Nat /\ Step \in Nat /\ Grace \in Nat /\ Grace < Step
  BY CandleAssumption DEF FeedInv, FeedType, TaskType, Due
<1>2. U \subseteq given /\ Fresh(j) \subseteq given /\ S \subseteq U
  BY <1>1 DEF Fresh, Newest, Refreshable
<1>3. m = [n \in S |-> IF n \in Fresh(j) THEN Final(n, now) ELSE j.have[n]] /\ DOMAIN m = S
  BY DEF Merged
<1>4. m \in Fetched
  <2>1. \A n \in S : Final(n, now) \in BOOLEAN /\ (n \notin Fresh(j) => j.have[n] \in BOOLEAN)
    BY <1>1, <1>2, HeldIs DEF Final
  <2>2. m \in [S -> BOOLEAN]
    BY <1>3, <2>1
  <2>3. QED
    BY <1>1, <1>2, <2>2 DEF Fetched
<1>5. ASSUME NEW n \in S, n \notin Fresh(j) PROVE j.have[n]
  <2>1. n \in DOMAIN j.have /\ n \in given /\ n * Step <= j.at /\ n \in Nat /\ n * Step \in Nat
    BY <1>1, <1>2, <1>5, Opens DEF Refreshable
  <2>2. CASE j.how = "count"
    <3>1. Fresh(j) = Newest(given, Keep)
      BY <2>2 DEF Fresh
    <3>2. \A i \in given : i <= now
      <4>1. ASSUME NEW i \in given PROVE i <= now
        <5>1. i \in Nat /\ i * Step <= now
          BY DEF FeedInv, FeedType
        <5>2. QED
          BY <1>1, <5>1, Opens
      <4>2. QED
        BY <4>1
    <3>3. n \notin Newest(U, Keep)
      BY <1>1, <1>2, <1>5, <2>1, <3>1, <3>2, NewestAfter
    <3>4. QED
      BY <3>3
  <2>3. CASE j.how # "count"
    <3>1. ~(Enough(DOMAIN j.have) => n >= StartOf(DOMAIN j.have))
      <4>1. n * Step < j.at + Step
        BY <1>1, <2>1, CandleAssumption
      <4>2. QED
        BY <1>5, <2>1, <2>3, <4>1 DEF Fresh
    <3>2. Enough(DOMAIN j.have) /\ ~(StartOf(DOMAIN j.have) <= n)
      BY <3>1
    <3>3. QED
      BY <1>1, <2>1, <3>2 DEF Refreshable
  <2>4. QED
    BY <2>2, <2>3
<1>6. \A n \in S : Final(n, now) => m[n]
  BY <1>3, <1>5
<1>7. ASSUME NEW n \in S, ~m[n] PROVE StartOf(S) <= n
  <2>1. ~Final(n, now) /\ n \in Nat
    BY <1>1, <1>2, <1>6, <1>7
  <2>2. now < (n + 1) * Step + Grace
    BY <1>1, <2>1, Opens DEF Final
  <2>3. ASSUME NEW i \in S PROVE i <= n + 1
    <3>1. i \in Nat /\ i * Step <= now
      BY <1>2 DEF FeedInv, FeedType
    <3>2. (n + 2) * Step = (n + 1) * Step + Step /\ n + 2 \in Nat /\ (n + 1) * Step \in Nat
      BY <1>1, <2>1, Opens
    <3>3. ~(n + 2 <= i)
      <4>1. n + 2 <= i => (n + 2) * Step <= i * Step
        BY <3>1, <3>2, Opens
      <4>2. QED
        BY <1>1, <2>2, <3>1, <3>2, <4>1, Opens
    <3>4. QED
      BY <2>1, <3>1, <3>3
  <2>4. {i \in S : i > n} \subseteq {n + 1}
    <3>1. ASSUME NEW i \in S, i > n PROVE i = n + 1
      <4>1. i \in Nat /\ n \in Nat /\ i <= n + 1
        BY <1>1, <1>2, <2>1, <2>3
      <4> HIDE DEF S
      <4>2. QED
        BY <3>1, <4>1
    <3> HIDE DEF S
    <3>2. QED
      BY <3>1
  <2>5. Cardinality({i \in S : i > n}) < 2
    <3>1. IsFiniteSet({n + 1}) /\ Cardinality({n + 1}) = 1
      BY FS_Singleton
    <3>2. Cardinality({i \in S : i > n}) <= 1 /\ Cardinality({i \in S : i > n}) \in Nat
      BY <2>4, <3>1, FS_Subset, FS_CardinalityType
    <3>3. QED
      BY <3>2
  <2>6. n \in Newest(S, 2) /\ Newest(S, 2) \in SUBSET Nat
    BY <1>1, <1>2, <2>5 DEF Newest
  <2>7. QED
    BY <2>6, LeastOf DEF StartOf
<1>8. \A n \in S : n * Step <= now
  BY <1>2 DEF FeedInv, FeedType
<1>9. S \subseteq given
  BY <1>2
<1> HIDE DEF S, m
<1>10. QED
  BY <1>3, <1>4, <1>6, <1>7, <1>8, <1>9 DEF Refreshable, m

LEMMA Keeps ==
  ASSUME NEW f, NEW a \in Nat, NEW b \in Nat, a <= b, NEW G \in SUBSET Nat, NEW H \in SUBSET Nat, G \subseteq H,
         Refreshable(f, a, G)
  PROVE  Refreshable(f, b, H)
<1>1. \A n \in DOMAIN f : n \in Nat /\ n * Step \in Nat
  <2>1. \A n \in DOMAIN f : n \in Nat
    BY DEF Refreshable
  <2>2. QED
    BY <2>1, Opens
<1>2. QED
  BY <1>1 DEF Refreshable

LEMMA FinalStays ==
  ASSUME NEW n \in Nat, NEW a \in Nat, NEW b \in Nat, a <= b, Final(n, a)
  PROVE  Final(n, b)
<1>1. Step \in Nat /\ Grace \in Nat /\ n * Step \in Nat /\ (n + 1) * Step = n * Step + Step
  BY CandleAssumption, Opens
<1>2. QED
  BY <1>1 DEF Final

LEMMA TaskIs ==
  ASSUME NEW p \in Pcs, NEW a \in Nat, NEW h \in Fetched, NEW w \in Hows, NEW o \in BOOLEAN
  PROVE  [pc |-> p, at |-> a, have |-> h, how |-> w, ok |-> o] \in TaskType
BY Zenon DEF TaskType, Hows

LEMMA IdleTask ==
  /\ Idle \in TaskType /\ Idle.at = 0 /\ Idle.have = NoBars /\ Idle.how # "served" /\ Idle.pc = "idle"
  /\ "tick" \in Tasks /\ "tool" \in Tasks
<1>1. [pc |-> "idle", at |-> 0, have |-> NoBars, how |-> "range", ok |-> TRUE] \in TaskType
  BY NoneHeld, TaskIs DEF Pcs, Hows
<1>2. Idle \in TaskType
  BY <1>1 DEF Idle, TaskType
<1>3. QED
  BY <1>2 DEF Idle, Tasks

LEMMA InitFeed == Init => FeedInv
<1> SUFFICES ASSUME Init PROVE FeedInv
  OBVIOUS
<1>1. FeedInit
  BY DEF Init
<1>2. job = [k \in Tasks |-> Idle]
  BY <1>1 DEF FeedInit
<1>3. 0 * Step = 0
  BY CandleAssumption
<1>4. FeedType
  <2>1. \A k \in Tasks : job[k] = Idle
    BY <1>2
  <2>2. job \in [Tasks -> TaskType] /\ \A k \in Tasks : job[k].how # "served"
    BY <1>2, <2>1, IdleTask
  <2>3. QED
    BY <1>1, <1>3, <2>2 DEF FeedInit, FeedType
<1>5. \A k \in Tasks : job[k].at <= now /\ Refreshable(job[k].have, Due(k), given)
  BY <1>1, <1>2, IdleTask, NoneHeld DEF FeedInit
<1>6. Ordered
  BY <1>2, IdleTask DEF Ordered, Reads
<1>7. QED
  BY <1>1, <1>4, <1>5, <1>6, NoneHeld DEF FeedInit, FeedInv

\* What a task holds stays refreshable while time passes and bars are given.
LEMMA DueStays ==
  ASSUME FeedInv, now' \in Nat, now <= now', given' \in SUBSET Nat, given \subseteq given',
         NEW k \in Tasks, job'[k] = job[k]
  PROVE  job'[k].at <= now' /\ Refreshable(job'[k].have, Due(k)', given')
<1>1. /\ now \in Nat /\ given \in SUBSET Nat /\ job[k].at \in Nat /\ job[k].at <= now
      /\ Refreshable(job[k].have, Due(k), given)
  BY DEF FeedInv, FeedType, TaskType
<1>2. Due(k) \in Nat /\ Due(k)' \in Nat /\ Due(k) <= Due(k)'
  BY <1>1 DEF Due
<1>3. Refreshable(job[k].have, Due(k)', given')
  <2> DEFINE a == Due(k)
             b == Due(k)'
  <2>1. a \in Nat /\ b \in Nat /\ a <= b /\ Refreshable(job[k].have, a, given)
    BY <1>1, <1>2
  <2> HIDE DEF a, b
  <2>2. Refreshable(job[k].have, b, given')
    BY <1>1, <2>1, Keeps
  <2>3. QED
    BY <2>2 DEF b
<1>4. QED
  BY <1>1, <1>3

\* A task that asks holds what was cached, or nothing.
LEMMA AskStep ==
  ASSUME FeedInv, NEW k \in Tasks, NEW pc \in {"refresh", "refetch"}, NEW at \in Nat, NEW have \in Fetched, NEW ok \in BOOLEAN,
         at <= now, Refreshable(have, at, given), Ask(k, pc, at, have, ok), UNCHANGED <<now, given>>
  PROVE  /\ job' \in [Tasks -> TaskType] /\ line' \in Seq(Tasks)
         /\ \A i \in Tasks : job'[i].how = "served" => Waiting(i)'
         /\ \A i \in Tasks : job'[i].at <= now' /\ Refreshable(job'[i].have, Due(i)', given')
         /\ job'[k].pc = pc /\ job'[k].how # "served" /\ \A i \in Tasks \ {k} : job'[i] = job[i]
<1> DEFINE w == IF Enough(DOMAIN have) THEN "range" ELSE "count"
           r == [pc |-> pc, at |-> at, have |-> have, ok |-> ok, how |-> w]
<1>1. job' = [job EXCEPT ![k] = r]
  BY DEF Ask
<1>2. w \in Hows /\ w # "served" /\ pc \in Pcs
  BY DEF Hows, Pcs
<1> HIDE DEF w
<1>3. r \in TaskType
  <2>1. [pc |-> pc, at |-> at, have |-> have, how |-> w, ok |-> ok] \in TaskType
    BY <1>2, TaskIs
  <2>2. r = [pc |-> pc, at |-> at, have |-> have, how |-> w, ok |-> ok]
    OBVIOUS
  <2>3. QED
    BY <2>1, <2>2 DEF TaskType
<1>4. job \in [Tasks -> TaskType] /\ line \in Seq(Tasks) /\ now \in Nat /\ given \in SUBSET Nat
  BY DEF FeedInv, FeedType
<1>5. r.at = at /\ r.have = have /\ r.pc = pc /\ r.how # "served"
  BY <1>2
<1> HIDE DEF r
<1>6. job'[k] = r /\ \A i \in Tasks \ {k} : job'[i] = job[i]
  BY <1>1, <1>4
<1>7. ASSUME NEW i \in Tasks PROVE job'[i].at <= now' /\ Refreshable(job'[i].have, Due(i)', given')
  <2>1. CASE i = k
    BY <1>5, <1>6, <2>1 DEF Due
  <2>2. CASE i # k
    BY <1>4, <1>6, <2>2, DueStays
  <2>3. QED
    BY <2>1, <2>2
<1>8. line' \in Seq(Tasks)
  BY <1>4 DEF Ask
<1>9. \A i \in Tasks : job'[i].how = "served" => Waiting(i)'
  BY <1>5, <1>6 DEF FeedInv, FeedType, Waiting
<1>10. job' \in [Tasks -> TaskType]
  BY <1>1, <1>3, <1>4
<1>11. QED
  BY <1>5, <1>6, <1>7, <1>8, <1>9, <1>10

\* The answer is computed: what the task holds from now on is the merger.
LEMMA ServedStep == ASSUME FeedInv, NEW k \in Tasks, Served(k) PROVE FeedInv'
<1> DEFINE m == Merged(job[k])
           r == [job[k] EXCEPT !.how = "served", !.have = m]
<1>1. /\ job' = [job EXCEPT ![k] = r] /\ Turn(k) /\ job[k].how # "served"
      /\ UNCHANGED <<now, given, cache, session, line, last, shown>>
  <2>1. /\ job' = [job EXCEPT ![k].how = "served", ![k].have = Merged(job[k])] /\ Turn(k) /\ job[k].how # "served"
        /\ UNCHANGED <<now, given, cache, session, line, last, shown>>
    BY DEF Served
  <2>2. job \in [Tasks -> TaskType]
    BY DEF FeedInv, FeedType
  <2>3. QED
    BY <2>1, <2>2
<1>2. /\ job \in [Tasks -> TaskType] /\ job[k] \in TaskType
      /\ now \in Nat /\ given \in SUBSET Nat /\ job["tick"].at \in Nat /\ job["tick"].at <= now
  BY IdleTask DEF FeedInv, FeedType, TaskType
<1>3. Refreshable(m, now, given) /\ Sound(m, now)
  BY <1>1, MergedIs DEF Sound
<1> HIDE DEF m
<1>4. m \in Fetched /\ \A n \in DOMAIN m : n \in Nat
  BY <1>3, HeldIs DEF Refreshable
<1>5. r \in TaskType /\ r.at = job[k].at /\ r.have = m /\ r.how = "served" /\ r.pc = job[k].pc
  BY <1>2, <1>4 DEF TaskType, Hows
<1> HIDE DEF r
<1>6. job'[k] = r /\ \A i \in Tasks \ {k} : job'[i] = job[i]
  BY <1>1, <1>2
<1>7. \A i \in Tasks : job'[i].pc = job[i].pc /\ job'[i].at = job[i].at
  BY <1>5, <1>6
<1>8. FeedType'
  <2>1. job' \in [Tasks -> TaskType]
    BY <1>1, <1>2, <1>5
  <2>2. \A i \in Tasks : job'[i].how = "served" => Waiting(i)'
    BY <1>1, <1>6, <1>7 DEF FeedInv, FeedType, Waiting, Turn
  <2>3. QED
    BY <1>1, <2>1, <2>2 DEF FeedInv, FeedType
<1>9. ASSUME NEW i \in Tasks PROVE job'[i].at <= now' /\ Refreshable(job'[i].have, Due(i)', given')
  <2>1. CASE i = k
    BY <1>1, <1>2, <1>3, <1>5, <1>6, <2>1 DEF Due, FeedInv
  <2>2. CASE i # k
    BY <1>1, <1>2, <1>6, <2>2, DueStays
  <2>3. QED
    BY <2>1, <2>2
<1>10. Ordered'
  <2>1. SUFFICES ASSUME session = "mcp" PROVE Ordered'
    BY <1>1 DEF Ordered
  <2>2. line # <<>> /\ Head(line) = k
    BY <1>1, <2>1 DEF Turn
  <2>3. \A i \in Tasks : job'[i].how = "served" => i = k
    BY <1>6, <2>1, <2>2 DEF FeedInv, Ordered
  <2>4. Sound(m, job["tick"].at)
    BY <1>2, <1>3, <1>4, FinalStays DEF Sound
  <2>5. Reads' = Reads /\ job'["tick"].at = job["tick"].at
    BY <1>7, IdleTask DEF Reads
  <2>6. Reads' => Sound(cache', job'["tick"].at)
    BY <1>1, <2>1, <2>5 DEF FeedInv, Ordered
  <2>7. \A i \in Tasks : job'[i].how = "served" =>
          /\ line' # <<>> /\ Head(line') = i
          /\ i = "tick" \/ Reads' => Sound(job'[i].have, job'["tick"].at)
    BY <1>1, <1>5, <1>6, <2>2, <2>3, <2>4, <2>5
  <2>8. QED
    BY <2>6, <2>7 DEF Ordered
<1>11. Refreshable(cache', now', given') /\ (shown' # {} => last' # None /\ \E j \in shown' : last' <= j)
  BY <1>1 DEF FeedInv
<1>12. QED
  BY <1>8, <1>9, <1>10, <1>11 DEF FeedInv

\* The call at the head is gone; nothing else is on its way on the ordered session.
LEMMA LeftIs ==
  ASSUME FeedInv, NEW k \in Tasks, Turn(k)
  PROVE  /\ Left \in Seq(Tasks)
         /\ session = "mcp" => Append(Tail(line), k) \in Seq(Tasks) /\ \A i \in Tasks \ {k} : job[i].how # "served"
<1>1. line \in Seq(Tasks)
  BY DEF FeedInv, FeedType
<1>2. session = "mcp" => Tail(line) \in Seq(Tasks) /\ Append(Tail(line), k) \in Seq(Tasks)
  BY <1>1 DEF Turn
<1>3. session = "mcp" => \A i \in Tasks \ {k} : job[i].how # "served"
  BY DEF FeedInv, Ordered, Turn
<1>4. QED
  BY <1>1, <1>2, <1>3 DEF Left

\* What the answer stores may be asked for again, and on the ordered session is final for
\* the tick that reads it, be it the tick's own answer or the tool's.
LEMMA AnswerStep ==
  ASSUME FeedInv, NEW k \in Tasks, NEW pc \in Pcs, Answered(k, pc)
  PROVE  FeedInv'
<1> DEFINE r == IF pc = "idle" THEN Idle ELSE [Idle EXCEPT !.pc = pc, !.at = job[k].at]
<1>1. /\ job' = [job EXCEPT ![k] = r] /\ cache' = job[k].have /\ job[k].how = "served" /\ Turn(k) /\ line' = Left
      /\ UNCHANGED <<now, given, session, last, shown>>
  BY DEF Answered
<1>2. /\ job \in [Tasks -> TaskType]
      /\ now \in Nat /\ given \in SUBSET Nat
  BY DEF FeedInv, FeedType
<1>3. /\ r \in TaskType /\ r.at <= now /\ r.have = NoBars /\ r.how # "served"
      /\ pc = "idle" => r.pc = "idle"
      /\ pc # "idle" => r.at = job[k].at
  <2> DEFINE a == job[k].at
             h == [Idle EXCEPT !.pc = pc, !.at = a]
  <2>1. a \in Nat /\ a <= now
    BY <1>2 DEF FeedInv, TaskType
  <2> HIDE DEF a
  <2>2. h \in TaskType /\ h.at = a /\ h.have = NoBars /\ h.how # "served"
    BY <2>1, IdleTask DEF TaskType
  <2>3. CASE pc = "idle"
    BY <1>2, <2>3, IdleTask
  <2>4. CASE pc # "idle"
    BY <2>1, <2>2, <2>4 DEF a
  <2>5. QED
    BY <2>3, <2>4
<1> HIDE DEF r
<1>4. job'[k] = r /\ \A i \in Tasks \ {k} : job'[i] = job[i]
  BY <1>1, <1>2
<1>5. FeedType'
  <2>1. job' \in [Tasks -> TaskType] /\ line' \in Seq(Tasks)
    BY <1>1, <1>2, <1>3, LeftIs
  <2>2. \A i \in Tasks : job'[i].how = "served" => Waiting(i)'
    BY <1>3, <1>4 DEF FeedInv, FeedType, Waiting
  <2>3. QED
    BY <1>1, <2>1, <2>2 DEF FeedInv, FeedType
<1>6. ASSUME NEW i \in Tasks PROVE job'[i].at <= now' /\ Refreshable(job'[i].have, Due(i)', given')
  <2>1. CASE i = k
    BY <1>1, <1>3, <1>4, <2>1, NoneHeld
  <2>2. CASE i # k
    BY <1>1, <1>2, <1>4, <2>2, DueStays
  <2>3. QED
    BY <2>1, <2>2
<1>7. Refreshable(cache', now', given')
  BY <1>1 DEF FeedInv, Due
<1>8. Ordered'
  <2>1. SUFFICES ASSUME session = "mcp" PROVE Ordered'
    BY <1>1 DEF Ordered
  <2>2. \A i \in Tasks : job'[i].how # "served"
    BY <1>1, <1>3, <1>4, <2>1, LeftIs
  <2>3. ASSUME Reads' PROVE Sound(cache', job'["tick"].at)
    <3>1. CASE k = "tick"
      <4>1. pc # "idle"
        BY <1>3, <1>4, <2>3, <3>1 DEF Reads
      <4>2. job'["tick"].at = job["tick"].at
        BY <1>3, <1>4, <3>1, <4>1
      <4>3. QED
        BY <1>1, <2>1, <3>1, <4>2 DEF FeedInv, Ordered
    <3>2. CASE k # "tick"
      <4>1. job'["tick"] = job["tick"]
        BY <1>4, <3>2, IdleTask
      <4>2. Reads
        BY <2>3, <4>1 DEF Reads
      <4>3. QED
        BY <1>1, <2>1, <4>1, <4>2 DEF FeedInv, Ordered
    <3>3. QED
      BY <3>1, <3>2
  <2>4. QED
    BY <2>2, <2>3 DEF Ordered
<1>9. shown' # {} => last' # None /\ \E j \in shown' : last' <= j
  BY <1>1 DEF FeedInv
<1>10. QED
  BY <1>5, <1>6, <1>7, <1>8, <1>9 DEF FeedInv

\* Bars that open, time that passes and a list that is kept leave the invariant as it is.
LEMMA ClockStep ==
  ASSUME FeedInv, now' \in Nat, now <= now', given' \in SUBSET Nat, given \subseteq given',
         \A n \in given' : n * Step <= now', UNCHANGED <<cache, job, session, line, last, shown>>
  PROVE  FeedInv'
<1>1. now \in Nat /\ given \in SUBSET Nat
  BY DEF FeedInv, FeedType
<1>2. FeedType'
  BY DEF FeedInv, FeedType, Waiting
<1>3. Refreshable(cache', now', given')
  BY <1>1, Keeps DEF FeedInv
<1>4. \A k \in Tasks : job'[k].at <= now' /\ Refreshable(job'[k].have, Due(k)', given')
  BY DueStays
<1>5. Ordered'
  BY DEF FeedInv, Ordered, Reads
<1>6. QED
  BY <1>2, <1>3, <1>4, <1>5 DEF FeedInv

\* The task goes on, with what it had or idle; the list stays.
LEMMA TaskStep ==
  ASSUME FeedInv, NEW k \in Tasks, NEW r \in TaskType, job' = [job EXCEPT ![k] = r], r.how # "served",
         r = Idle \/ (r.at = job[k].at /\ r.have = job[k].have /\ job[k].how # "served"),
         Reads' => Reads, line' \in Seq(Tasks),
         line' = line \/ (session = "mcp" => \A i \in Tasks \ {k} : job[i].how # "served"),
         UNCHANGED <<now, given, cache, session, last, shown>>
  PROVE  FeedInv'
<1>1. job \in [Tasks -> TaskType] /\ now \in Nat /\ given \in SUBSET Nat
  BY DEF FeedInv, FeedType
<1>2. job'[k] = r /\ \A i \in Tasks \ {k} : job'[i] = job[i]
  BY <1>1
<1>3. FeedType'
  <2>1. \A i \in Tasks : job'[i].how = "served" => Waiting(i)'
    BY <1>2 DEF FeedInv, FeedType, Waiting
  <2>2. QED
    BY <1>1, <2>1 DEF FeedInv, FeedType
<1>4. r.at <= now /\ Refreshable(r.have, r.at, given)
  <2>1. CASE r = Idle
    BY <1>1, <2>1, IdleTask, NoneHeld
  <2>2. CASE r # Idle
    BY <2>2 DEF FeedInv, Due
  <2>3. QED
    BY <2>1, <2>2
<1>5. ASSUME NEW i \in Tasks PROVE job'[i].at <= now' /\ Refreshable(job'[i].have, Due(i)', given')
  <2>1. CASE i = k
    BY <1>2, <1>4, <2>1 DEF Due
  <2>2. CASE i # k
    BY <1>1, <1>2, <2>2, DueStays
  <2>3. QED
    BY <2>1, <2>2
<1>6. Refreshable(cache', now', given')
  BY DEF FeedInv
<1>7. Reads' => job'["tick"].at = job["tick"].at
  <2>1. Reads' => job'["tick"] # Idle
    BY IdleTask DEF Reads
  <2>2. QED
    BY <1>2, <2>1, IdleTask
<1>8. Ordered'
  <2>1. SUFFICES ASSUME session = "mcp" PROVE Ordered'
    BY DEF Ordered
  <2>2. Reads' => Sound(cache', job'["tick"].at)
    BY <1>7, <2>1 DEF FeedInv, Ordered
  <2>3. ASSUME NEW i \in Tasks, job'[i].how = "served"
        PROVE /\ line' # <<>> /\ Head(line') = i
              /\ i = "tick" \/ Reads' => Sound(job'[i].have, job'["tick"].at)
    <3>1. i # k /\ job'[i] = job[i]
      BY <1>2, <2>3
    <3>2. line' = line
      BY <2>1, <2>3, <3>1
    <3>3. i = "tick" => job'["tick"].at = job["tick"].at
      BY <3>1
    <3>4. QED
      BY <1>7, <2>1, <2>3, <3>1, <3>2, <3>3 DEF FeedInv, Ordered
  <2>4. QED
    BY <2>2, <2>3 DEF Ordered
<1>9. shown' # {} => last' # None /\ \E j \in shown' : last' <= j
  BY DEF FeedInv
<1>10. QED
  BY <1>3, <1>5, <1>6, <1>8, <1>9 DEF FeedInv

LEMMA GiveStep == FeedInv /\ GiveBar => FeedInv'
<1> SUFFICES ASSUME FeedInv, GiveBar PROVE FeedInv'
  OBVIOUS
<1> DEFINE n == now \div Step
<1>1. now \in Nat /\ Step \in Nat /\ 0 < Step /\ given \in SUBSET Nat /\ \A i \in given : i * Step <= now
  BY CandleAssumption DEF FeedInv, FeedType
<1>2. n \in Nat /\ n * Step <= now
  BY <1>1
<1> HIDE DEF n
<1>3. given' = given \cup {n} /\ UNCHANGED <<now, cache, job, session, line, last, shown>>
  BY DEF GiveBar, n
<1>4. \A i \in given' : i * Step <= now'
  BY <1>1, <1>2, <1>3
<1>5. given' \in SUBSET Nat /\ given \subseteq given' /\ now' \in Nat /\ now <= now'
  BY <1>1, <1>2, <1>3
<1>6. QED
  BY <1>3, <1>4, <1>5, ClockStep

LEMMA FillStep == FeedInv /\ FillHole => FeedInv'
<1> SUFFICES ASSUME FeedInv, FillHole PROVE FeedInv'
  OBVIOUS
<1>1. now \in Nat /\ Step \in Nat /\ 0 < Step /\ MaxNow \in Nat /\ given \in SUBSET Nat /\ \A i \in given : i * Step <= now
  BY CandleAssumption DEF FeedInv, FeedType
<1>2. Holes \in SUBSET Nat /\ Holes # {}
  <2>1. MaxNow \div Step \in Nat
    BY <1>1
  <2>2. QED
    BY <2>1 DEF FillHole, Holes, Bars
<1>3. Min(Holes) \in Holes
  BY <1>2, LeastOf
<1> DEFINE n == Min(Holes)
<1> HIDE DEF n
<1>4. n \in Nat /\ \E j \in given : n < j
  BY <1>2, <1>3 DEF n, Holes
<1>5. n * Step <= now
  <2>1. PICK j \in given : n < j
    BY <1>4
  <2>2. j \in Nat /\ n * Step <= j * Step /\ j * Step <= now /\ n * Step \in Nat /\ j * Step \in Nat
    BY <1>1, <1>4, <2>1, Opens
  <2>3. QED
    BY <1>1, <2>2
<1>6. given' = given \cup {n} /\ UNCHANGED <<now, cache, job, session, line, last, shown>>
  BY DEF FillHole, n
<1>7. QED
  <2>1. \A i \in given' : i * Step <= now'
    BY <1>1, <1>5, <1>6
  <2>2. given' \in SUBSET Nat /\ given \subseteq given' /\ now' \in Nat /\ now <= now'
    BY <1>1, <1>4, <1>6
  <2>3. QED
    BY <1>6, <2>1, <2>2, ClockStep

LEMMA BootStep == FeedInv /\ Restart => FeedInv'
<1> SUFFICES ASSUME FeedInv, Restart PROVE FeedInv'
  OBVIOUS
<1>1. /\ cache' = NoBars /\ job' = [k \in Tasks |-> Idle] /\ line' = <<>> /\ last' = None /\ shown' = {}
      /\ UNCHANGED <<now, given, session>>
  BY DEF Restart
<1>2. \A k \in Tasks : job'[k] = Idle
  BY <1>1
<1>3. FeedType'
  <2>1. job' \in [Tasks -> TaskType] /\ \A k \in Tasks : job'[k].how # "served"
    BY <1>1, <1>2, IdleTask
  <2>2. QED
    BY <1>1, <2>1 DEF FeedInv, FeedType
<1>4. \A k \in Tasks : job'[k].at <= now' /\ Refreshable(job'[k].have, Due(k)', given')
  <2>1. now \in Nat
    BY DEF FeedInv, FeedType
  <2>2. QED
    BY <1>1, <1>2, <2>1, IdleTask, NoneHeld
<1>5. Ordered'
  BY <1>2, IdleTask DEF Ordered, Reads
<1>6. QED
  BY <1>1, <1>3, <1>4, <1>5, NoneHeld DEF FeedInv

LEMMA ClosedIs ==
  ASSUME FeedInv, NEW at
  PROVE  /\ Closed(at) \in SUBSET Nat
         /\ Closed(at) # {} => Max(Closed(at)) \in Closed(at) /\ \A n \in Closed(at) : n <= Max(Closed(at))
<1>1. now \in Nat /\ Closed(at) \in SUBSET Nat
  BY DEF FeedInv, FeedType, Closed, Refreshable
<1>2. ASSUME NEW n \in Closed(at) PROVE n <= now
  <2>1. n * Step <= now /\ n \in Nat
    BY <1>1 DEF Closed, FeedInv, Refreshable
  <2>2. n <= n * Step /\ n * Step \in Nat
    BY <2>1, Opens
  <2>3. QED
    BY <1>1, <2>1, <2>2
<1>3. QED
  BY <1>1, <1>2, GreatestOf

\* The bar a tick saw last is among those the paper venue was shown, or before one of them.
LEMMA ShowIs ==
  ASSUME FeedInv, Show
  PROVE  /\ last' \in Nat \cup {None} /\ shown' \in SUBSET Nat
         /\ shown' # {} => last' # None /\ \E j \in shown' : last' <= j
         /\ \A n \in Closed(job["tick"].at) : (shown # {} /\ \A j \in shown : j < n) => n \in shown'
<1> DEFINE C == Closed(job["tick"].at)
           m == Max(C)
<1>1. /\ last \in Nat \cup {None} /\ shown \in SUBSET Nat /\ job["tick"].at \in Nat /\ Step \in Nat
      /\ shown # {} => last # None /\ \E j \in shown : last <= j
  BY IdleTask, CandleAssumption DEF FeedInv, FeedType, TaskType
<1>2. C \in SUBSET Nat /\ (C # {} => m \in C /\ \A n \in C : n <= m)
  BY ClosedIs
<1>3. /\ shown' = shown \cup {n \in C : New(n)}
      /\ last' = IF C = {} THEN last ELSE m
  BY DEF Show, ShownNow, Seen
<1> HIDE DEF m, C
<1>4. \A n \in C : New(n) <=> IF last = None THEN n * Step > job["tick"].at - 2 * Step ELSE n > last
  BY DEF New
<1>5. last' \in Nat \cup {None} /\ shown' \in SUBSET Nat
  BY <1>1, <1>2, <1>3
<1>6. ASSUME C # {}, ~New(m) PROVE {n \in C : New(n)} = {}
  <2>1. SUFFICES ASSUME NEW n \in C, New(n) PROVE FALSE
    OBVIOUS
  <2>2. n \in Nat /\ m \in Nat /\ n <= m
    BY <1>2, <2>1
  <2>3. n * Step <= m * Step /\ n * Step \in Nat /\ m * Step \in Nat
    BY <2>2, Opens
  <2>4. CASE last = None
    <3>1. n * Step > job["tick"].at - 2 * Step /\ ~(m * Step > job["tick"].at - 2 * Step)
      BY <1>2, <1>4, <1>6, <2>1, <2>4
    <3>2. QED
      BY <1>1, <2>3, <3>1
  <2>5. CASE last # None
    <3>1. n > last /\ ~(m > last)
      BY <1>2, <1>4, <1>6, <2>1, <2>5
    <3>2. QED
      BY <1>1, <2>2, <2>5, <3>1
  <2>6. QED
    BY <2>4, <2>5
<1>7. ASSUME shown' # {} PROVE last' # None /\ \E j \in shown' : last' <= j
  <2>1. CASE C = {}
    BY <1>1, <1>3, <1>7, <2>1
  <2>2. CASE C # {} /\ New(m)
    <3>1. m \in shown' /\ last' = m /\ m \in Nat
      BY <1>2, <1>3, <2>2
    <3>2. QED
      BY <3>1 DEF None
  <2>3. CASE C # {} /\ ~New(m)
    <3>1. shown' = shown /\ last' = m /\ m \in Nat /\ last # None /\ shown # {}
      BY <1>1, <1>2, <1>3, <1>6, <1>7, <2>3
    <3>2. m <= last /\ last \in Nat
      BY <1>1, <1>2, <1>4, <2>3, <3>1
    <3>3. PICK j \in shown : last <= j
      BY <1>1, <3>1
    <3>4. m <= j /\ j \in shown' /\ j \in Nat
      BY <1>1, <3>1, <3>2, <3>3
    <3>5. QED
      BY <3>1, <3>4 DEF None
  <2>4. QED
    BY <2>1, <2>2, <2>3
<1>8. ASSUME NEW n \in C, shown # {}, \A j \in shown : j < n PROVE n \in shown'
  <2>1. PICK j \in shown : last <= j /\ j < n
    BY <1>1, <1>8
  <2>2. n > last
    BY <1>1, <1>2, <1>8, <2>1
  <2>3. New(n)
    BY <1>1, <1>4, <1>8, <2>2
  <2>4. QED
    BY <1>3, <2>3
<1>9. QED
  BY <1>5, <1>7, <1>8 DEF C

LEMMA ShowStep == FeedInv /\ Show => FeedInv'
<1> SUFFICES ASSUME FeedInv, Show PROVE FeedInv'
  OBVIOUS
<1> DEFINE r == [job["tick"] EXCEPT !.pc = "decide"]
<1>1. /\ job["tick"] \in TaskType /\ job \in [Tasks -> TaskType] /\ "tick" \in Tasks
      /\ now \in Nat /\ given \in SUBSET Nat
  BY IdleTask DEF FeedInv, FeedType
<1>2. /\ r \in TaskType /\ r.at = job["tick"].at /\ r.have = job["tick"].have /\ r.pc = "decide"
      /\ r.how = job["tick"].how
  BY <1>1 DEF TaskType, Pcs
<1>3. job' = [job EXCEPT !["tick"] = r] /\ UNCHANGED <<now, given, cache, session, line>> /\ Reads /\ job["tick"].pc = "show"
  BY <1>1 DEF Show, Reads
<1>4. r.how # "served"
  BY <1>1, <1>2, <1>3 DEF FeedInv, FeedType, Waiting
<1> HIDE DEF r
<1>5. job'["tick"] = r /\ \A i \in Tasks \ {"tick"} : job'[i] = job[i]
  BY <1>1, <1>3
<1>6. FeedType'
  <2>1. job' \in [Tasks -> TaskType] /\ \A i \in Tasks : job'[i].how = "served" => Waiting(i)'
    BY <1>1, <1>2, <1>3, <1>4, <1>5 DEF FeedInv, FeedType, Waiting
  <2>2. QED
    BY <1>3, <2>1, ShowIs DEF FeedInv, FeedType
<1>7. ASSUME NEW i \in Tasks PROVE job'[i].at <= now' /\ Refreshable(job'[i].have, Due(i)', given')
  <2>1. CASE i = "tick"
    BY <1>2, <1>3, <1>4, <1>5, <2>1 DEF FeedInv, Due
  <2>2. CASE i # "tick"
    BY <1>1, <1>3, <1>5, <2>2, DueStays
  <2>3. QED
    BY <2>1, <2>2
<1>8. Ordered'
  BY <1>2, <1>3, <1>4, <1>5 DEF FeedInv, Ordered
<1>9. Refreshable(cache', now', given')
  BY <1>3 DEF FeedInv
<1>10. QED
  BY <1>6, <1>7, <1>8, <1>9, ShowIs DEF FeedInv

\* Asking empties the list, or leaves it; the tick that asks has not read it yet.
LEMMA AskedStep ==
  ASSUME FeedInv, NEW k \in Tasks, NEW pc \in {"refresh", "refetch"}, NEW at \in Nat, NEW have \in Fetched, at <= now,
         Refreshable(have, at, given), Ask(k, pc, at, have, TRUE), cache' = cache \/ cache' = NoBars,
         UNCHANGED <<now, given, session, last, shown>>
  PROVE  FeedInv'
<1>1. /\ job' \in [Tasks -> TaskType] /\ line' \in Seq(Tasks)
      /\ \A i \in Tasks : job'[i].how = "served" => Waiting(i)'
      /\ \A i \in Tasks : job'[i].at <= now' /\ Refreshable(job'[i].have, Due(i)', given')
      /\ job'[k].pc = pc /\ job'[k].how # "served" /\ \A i \in Tasks \ {k} : job'[i] = job[i]
  BY AskStep
<1>2. FeedType'
  BY <1>1 DEF FeedInv, FeedType
<1>3. Refreshable(cache', now', given')
  BY NoneHeld DEF FeedInv
<1>4. Reads' => k # "tick" /\ Reads /\ job'["tick"] = job["tick"]
  BY <1>1, IdleTask DEF Reads
<1>5. Ordered'
  <2>1. SUFFICES ASSUME session = "mcp" PROVE Ordered'
    BY DEF Ordered
  <2>2. Reads' => Sound(cache', job'["tick"].at)
    BY <1>4, <2>1, NoneHeld DEF FeedInv, Ordered, Sound
  <2>3. line' = Append(line, k) /\ line \in Seq(Tasks)
    BY <2>1 DEF Ask, FeedInv, FeedType
  <2>4. ASSUME NEW i \in Tasks, job'[i].how = "served"
        PROVE /\ line' # <<>> /\ Head(line') = i
              /\ i = "tick" \/ Reads' => Sound(job'[i].have, job'["tick"].at)
    <3>1. i # k /\ job'[i] = job[i] /\ line # <<>> /\ Head(line) = i
      BY <1>1, <2>1, <2>4 DEF FeedInv, Ordered
    <3>2. line' # <<>> /\ Head(line') = i
      BY <2>3, <3>1
    <3>3. i = "tick" \/ Reads' => job'["tick"].at = job["tick"].at
      BY <1>4, <3>1
    <3>4. QED
      BY <1>4, <2>1, <2>4, <3>1, <3>2, <3>3 DEF FeedInv, Ordered
  <2>5. QED
    BY <2>2, <2>4 DEF Ordered
<1>6. QED
  BY <1>1, <1>2, <1>3, <1>5 DEF FeedInv

LEMMA BeginStep ==
  ASSUME FeedInv, NEW k \in Tasks, Ask(k, "refresh", now, cache, TRUE),
         UNCHANGED <<now, given, cache, session, last, shown>>
  PROVE  FeedInv'
<1>1. now \in Nat /\ now <= now /\ cache \in Fetched /\ Refreshable(cache, now, given)
  BY DEF FeedInv, FeedType, Refreshable
<1>2. QED
  BY <1>1, AskedStep

LEMMA RefetchStep == FeedInv /\ Refetch => FeedInv'
<1> SUFFICES ASSUME FeedInv, Refetch PROVE FeedInv'
  OBVIOUS
<1>1. job["tick"].at \in Nat /\ job["tick"].at <= now
  BY IdleTask DEF FeedInv, FeedType, TaskType
<1>2. cache' = NoBars /\ Ask("tick", "refetch", job["tick"].at, NoBars, TRUE) /\ UNCHANGED <<now, given, session, last, shown>>
  BY DEF Refetch
<1>3. QED
  BY <1>1, <1>2, IdleTask, NoneHeld, AskedStep

\* The steps that only move a task on.
LEMMA MoveStep ==
  FeedInv /\ (Whole \/ Rechecked \/ Decide \/ \E k \in Tasks : LoadByRanges(k) \/ Failed(k)) => FeedInv'
<1> SUFFICES ASSUME FeedInv, Whole \/ Rechecked \/ Decide \/ \E k \in Tasks : LoadByRanges(k) \/ Failed(k) PROVE FeedInv'
  OBVIOUS
<1>1. job \in [Tasks -> TaskType] /\ line \in Seq(Tasks) /\ \A k \in Tasks : job[k] \in TaskType
  BY DEF FeedInv, FeedType
<1>2. job["tick"].how = "served" => Waiting("tick")
  BY IdleTask DEF FeedInv, FeedType
<1>3. CASE Whole
  <2> DEFINE r == [job["tick"] EXCEPT !.pc = "show"]
  <2>1. job' = [job EXCEPT !["tick"] = r] /\ Reads /\ UNCHANGED <<now, given, cache, session, line, last, shown>>
    BY <1>3 DEF Whole, Reads
  <2>2. job["tick"].how # "served"
    BY <1>2, <1>3 DEF Whole, Waiting
  <2>3. r \in TaskType /\ r.at = job["tick"].at /\ r.have = job["tick"].have /\ r.how # "served"
    BY <1>1, <2>2, IdleTask DEF TaskType, Pcs
  <2> HIDE DEF r
  <2>4. QED
    BY <1>1, <2>1, <2>2, <2>3, IdleTask, TaskStep
<1>4. CASE Rechecked
  <2> DEFINE o == Gaps(Closed(job["tick"].at)) = {}
             r == [job["tick"] EXCEPT !.pc = "show", !.ok = o]
  <2>1. o \in BOOLEAN
    OBVIOUS
  <2>2. job' = [job EXCEPT !["tick"] = r] /\ Reads /\ UNCHANGED <<now, given, cache, session, line, last, shown>>
    BY <1>4 DEF Rechecked, Reads
  <2>3. job["tick"].how # "served"
    BY <1>2, <1>4 DEF Rechecked, Waiting
  <2> HIDE DEF o
  <2>4. r \in TaskType /\ r.at = job["tick"].at /\ r.have = job["tick"].have /\ r.how # "served"
    BY <1>1, <2>1, <2>3, IdleTask DEF TaskType, Pcs
  <2> HIDE DEF r
  <2>5. QED
    BY <1>1, <2>2, <2>3, <2>4, IdleTask, TaskStep
<1>5. CASE Decide
  <2>1. job' = [job EXCEPT !["tick"] = Idle] /\ Reads /\ UNCHANGED <<now, given, cache, session, line, last, shown>>
    BY <1>5 DEF Decide, Reads
  <2>2. QED
    BY <1>1, <2>1, IdleTask, TaskStep
<1>6. ASSUME NEW k \in Tasks, LoadByRanges(k) PROVE FeedInv'
  <2> DEFINE r == [job[k] EXCEPT !.how = "range"]
  <2>1. r \in TaskType /\ r.at = job[k].at /\ r.have = job[k].have /\ r.pc = job[k].pc /\ r.how # "served"
    BY <1>1 DEF TaskType, Hows
  <2>2. /\ job' = [job EXCEPT ![k] = r] /\ Turn(k) /\ job[k].how = "count"
        /\ line' = (IF session = "mcp" THEN Append(Tail(line), k) ELSE line)
        /\ UNCHANGED <<now, given, cache, session, last, shown>>
    BY <1>6 DEF LoadByRanges
  <2> HIDE DEF r
  <2>3. job'["tick"].pc = job["tick"].pc
    BY <1>1, <2>1, <2>2, IdleTask
  <2>4. Reads' => Reads
    BY <2>3 DEF Reads
  <2>5. line' \in Seq(Tasks) /\ (line' = line \/ (session = "mcp" => \A i \in Tasks \ {k} : job[i].how # "served"))
    BY <1>1, <2>2, LeftIs
  <2>6. QED
    BY <2>1, <2>2, <2>4, <2>5, TaskStep
<1>7. ASSUME NEW k \in Tasks, Failed(k) PROVE FeedInv'
  <2>1. job' = [job EXCEPT ![k] = Idle] /\ Turn(k) /\ line' = Left /\ UNCHANGED <<now, given, cache, session, last, shown>>
    BY <1>7 DEF Failed
  <2>2. job'["tick"].pc \in {job["tick"].pc, "idle"}
    BY <1>1, <2>1, IdleTask
  <2>3. Reads' => Reads
    BY <2>2 DEF Reads
  <2>4. line' \in Seq(Tasks) /\ (session = "mcp" => \A i \in Tasks \ {k} : job[i].how # "served")
    BY <2>1, LeftIs
  <2>5. QED
    BY <2>1, <2>3, <2>4, IdleTask, TaskStep
<1>8. QED
  BY <1>3, <1>4, <1>5, <1>6, <1>7

LEMMA FeedStep == FeedInv /\ [Next]_pathVars => FeedInv'
<1> SUFFICES ASSUME FeedInv, [Next]_pathVars PROVE FeedInv'
  OBVIOUS
<1>1. CASE UNCHANGED feedVars
  BY <1>1 DEF feedVars, FeedInv, FeedType, Ordered, Reads, Waiting, Due
<1>2. CASE BeginTick
  BY <1>2, IdleTask, BeginStep DEF BeginTick
<1>3. CASE BeginTool
  BY <1>3, IdleTask, BeginStep DEF BeginTool
<1>4. CASE Refreshed \/ Refetched \/ ToolAnswered
  <2>1. {"check", "recheck", "idle"} \subseteq Pcs
    BY DEF Pcs
  <2>2. QED
    BY <1>4, <2>1, IdleTask, AnswerStep DEF Refreshed, Refetched, ToolAnswered
<1>5. CASE Clock
  <2>1. now \in Nat /\ given \in SUBSET Nat /\ Step \in Nat /\ \A n \in given : n * Step <= now
    BY CandleAssumption DEF FeedInv, FeedType
  <2>2. now' \in Nat /\ now <= now' /\ given' = given /\ UNCHANGED <<cache, job, session, line, last, shown>>
    BY <1>5, <2>1 DEF Clock
  <2>3. \A n \in given' : n * Step <= now'
    <3>1. ASSUME NEW n \in given PROVE n * Step <= now'
      <4>1. n * Step \in Nat /\ n * Step <= now
        BY <2>1, Opens
      <4>2. QED
        BY <2>1, <2>2, <4>1
    <3>2. QED
      BY <2>2, <3>1
  <2>4. QED
    BY <2>1, <2>2, <2>3, ClockStep
<1>6. QED
  <2>1. CASE Feed
    BY <2>1, <1>2, <1>3, <1>4, <1>5, ShowStep, RefetchStep, ServedStep, MoveStep, GiveStep, FillStep, BootStep DEF Feed, FeedNext
  <2>2. CASE Bar \/ UNCHANGED pathVars
    BY <2>2, <1>1 DEF Bar, pathVars, feedVars
  <2>3. QED
    BY <2>1, <2>2 DEF Next

LEMMA FeedHolds == Spec => []FeedInv
<1>1. QED
  BY InitFeed, FeedStep, PTL DEF Spec

\* On the ordered session a bar that a tick reads as closed has its final values; on either,
\* also where an answer was overtaken, the next refresh asks again for every bar whose values
\* are not final (candles.py "readers get closed bars only").
THEOREM ClosedBarsHold == Spec => []ClosedBarsAreFinal
<1>1. FeedInv => ClosedBarsAreFinal
  BY DEF FeedInv, Ordered, Sound, Refreshable, ClosedBarsAreFinal, Reads, Closed
<1>2. QED
  BY <1>1, FeedHolds, PTL

\* No tick passes over a bar that closed since the paper venue was last shown one (main.py
\* symbol_tick, last_m1).
THEOREM PaperSeesHolds == Spec => PaperSeesEveryBar
<1>1. FeedInv /\ [Next]_pathVars =>
        [Show => \A n \in Closed(job["tick"].at) :
                   (shown # {} /\ \A j \in shown : j < n) => n \in shown']_pathVars
  BY ShowIs
<1>2. QED
  BY <1>1, FeedHolds, PTL DEF Spec, PaperSeesEveryBar
-----------------------------------------------------------------------------
(* The one pass over the bars that finds the breaks of structure.            *)
ScanStart == [high |-> 0, low |-> 0, out |-> {}]
ScanStep(b, p, i) ==
  LET up == p.high # 0 /\ b[i].c > b[p.high].h
      down == p.low # 0 /\ b[i].c < b[p.low].l
  IN [high |-> IF i - 1 \in SwingHighs(b) THEN i - 1 ELSE Unspent(up, p.high),
      low |-> IF i - 1 \in SwingLows(b) THEN i - 1 ELSE Unspent(down, p.low),
      out |-> p.out \cup (IF up THEN {[idx |-> i, dir |-> "buy", swing |-> p.high]} ELSE {})
                    \cup (IF down THEN {[idx |-> i, dir |-> "sell", swing |-> p.low]} ELSE {})]
ScanTo(b, n, f) == f = [i \in 0 .. n |-> IF i = 0 THEN ScanStart ELSE ScanStep(b, f[i - 1], i)]

LEMMA ScanChosen ==
  ASSUME NEW b
  PROVE  Scan(b) = (CHOOSE f : ScanTo(b, Len(b), f))[Len(b)]
BY DEF Scan, ScanTo, ScanStep, ScanStart

\* A property of 0 and of the successors within a bound holds up to the bound.
LEMMA ScanExists ==
  ASSUME NEW b \in Seq(OneBar)
  PROVE  \E f : ScanTo(b, Len(b), f)
<1> DEFINE bad == {n \in 0 .. Len(b) : ~\E f : ScanTo(b, n, f)}
<1>1. Len(b) \in Nat
  OBVIOUS
<1>2. SUFFICES ASSUME bad # {} PROVE FALSE
  BY <1>1
<1>3. bad \in SUBSET Nat
  BY <1>1
<1> DEFINE n == Min(bad)
<1>4. n \in bad /\ \A k \in bad : n <= k
  BY <1>2, <1>3, LeastOf
<1> HIDE DEF n
<1>5. n \in 0 .. Len(b) /\ ~\E f : ScanTo(b, n, f)
  BY <1>4
<1>6. n # 0
  <2> DEFINE f == [i \in 0 .. 0 |-> ScanStart]
  <2>1. f = [i \in 0 .. 0 |-> IF i = 0 THEN ScanStart ELSE ScanStep(b, f[i - 1], i)]
    OBVIOUS
  <2>2. ScanTo(b, 0, f)
    BY <2>1 DEF ScanTo
  <2>3. QED
    BY <1>5, <2>2
<1>7. \E f : ScanTo(b, n - 1, f)
  <2>1. n - 1 \in 0 .. Len(b) /\ ~(n <= n - 1)
    BY <1>1, <1>5, <1>6
  <2>2. n - 1 \notin bad
    BY <1>4, <2>1
  <2>3. QED
    BY <2>1, <2>2
<1>8. PICK f : ScanTo(b, n - 1, f)
  BY <1>7
<1> DEFINE g == [i \in 0 .. n |-> IF i = n THEN ScanStep(b, f[n - 1], n) ELSE f[i]]
<1>9. g = [i \in 0 .. n |-> IF i = 0 THEN ScanStart ELSE ScanStep(b, g[i - 1], i)]
  <2>1. n \in Nat /\ n # 0
    BY <1>1, <1>5, <1>6
  <2>2. DOMAIN g = 0 .. n
    OBVIOUS
  <2>3. ASSUME NEW i \in 0 .. n PROVE g[i] = IF i = 0 THEN ScanStart ELSE ScanStep(b, g[i - 1], i)
    <3>1. CASE i = n
      <4>1. g[i] = ScanStep(b, f[n - 1], n) /\ g[n - 1] = f[n - 1] /\ i # 0
        BY <2>1, <3>1
      <4>2. QED
        BY <3>1, <4>1
    <3>2. CASE i # n
      <4>1. i \in 0 .. n - 1 /\ g[i] = f[i] /\ (i # 0 => g[i - 1] = f[i - 1])
        BY <2>1, <3>2
      <4>2. f[i] = IF i = 0 THEN ScanStart ELSE ScanStep(b, f[i - 1], i)
        BY <1>8, <4>1 DEF ScanTo
      <4>3. QED
        BY <4>1, <4>2
    <3>3. QED
      BY <3>1, <3>2
  <2> HIDE DEF g
  <2>4. QED
    <3>1. g = [i \in 0 .. n |-> g[i]]
      BY <2>2 DEF g
    <3>2. QED
      BY <2>3, <3>1
<1> HIDE DEF g
<1>10. ScanTo(b, n, g)
  BY <1>9 DEF ScanTo
<1>11. QED
  BY <1>5, <1>10

\* The swing a close can break: the last one confirmed, until a close goes through it.
Swings(b, d) == IF d = "buy" THEN SwingHighs(b) ELSE SwingLows(b)
Through(b, d, k, s) == IF d = "buy" THEN b[k].c > b[s].h ELSE b[k].c < b[s].l
Known(b, d, i) == {j \in Swings(b, d) : j + 1 <= i}
Dirs == {"buy", "sell"}
LiveSwing(b, d, i) ==
  IF Known(b, d, i) = {} \/ \E k \in Greatest(Known(b, d, i)) + 2 .. i : Through(b, d, k, Greatest(Known(b, d, i)))
  THEN 0 ELSE Greatest(Known(b, d, i))

LEMMA GreatestIn ==
  ASSUME NEW T \in SUBSET Nat, T # {}, NEW top \in Nat, \A y \in T : y <= top
  PROVE  Greatest(T) \in T /\ \A y \in T : y <= Greatest(T)
<1>1. PICK x \in T : \A y \in T : y <= x
  BY GreatestOf
<1>2. \E z \in T : \A y \in T : z >= y
  BY <1>1
<1>3. QED
  BY <1>2 DEF Greatest

LEMMA LeastIn ==
  ASSUME NEW T \in SUBSET Nat, T # {}
  PROVE  Least(T) \in T /\ \A y \in T : Least(T) <= y
<1>1. PICK x \in T : \A y \in T : x <= y
  BY LeastOf
<1>2. QED
  BY <1>1 DEF Least

LEMMA SwingsIn ==
  ASSUME NEW b \in Seq(OneBar), NEW d
  PROVE  Swings(b, d) \subseteq 2 .. Len(b) - 1
BY DEF Swings, SwingHighs, SwingLows, Inner

LEMMA KnownIs ==
  ASSUME NEW b \in Seq(OneBar), NEW d, NEW i \in Nat
  PROVE  /\ Known(b, d, i) \in SUBSET Nat
         /\ Known(b, d, i) # {} =>
              LET s == Greatest(Known(b, d, i))
              IN s \in Known(b, d, i) /\ s \in Nat /\ s >= 2 /\ s + 1 <= i /\ \A j \in Known(b, d, i) : j <= s
<1>1. Known(b, d, i) \subseteq 2 .. Len(b) - 1 /\ Len(b) \in Nat
  BY SwingsIn DEF Known
<1>2. \A j \in Known(b, d, i) : j \in Nat /\ j >= 2 /\ j <= i /\ j + 1 <= i
  BY <1>1 DEF Known
<1>3. QED
  BY <1>2, GreatestIn

LEMMA LiveStep ==
  ASSUME NEW b \in Seq(OneBar), NEW d, NEW i \in 1 .. Len(b)
  PROVE  LET s == LiveSwing(b, d, i - 1)
         IN LiveSwing(b, d, i) = IF i - 1 \in Swings(b, d) THEN i - 1 ELSE IF s # 0 /\ Through(b, d, i, s) THEN 0 ELSE s
<1>1. i \in Nat /\ i - 1 \in Nat /\ Len(b) \in Nat
  OBVIOUS
<1> DEFINE K == Known(b, d, i)
           L == Known(b, d, i - 1)
<1>2. CASE i - 1 \in Swings(b, d)
  <2>1. i - 1 \in K /\ K # {}
    BY <1>1, <1>2 DEF Known
  <2>2. Greatest(K) = i - 1
    <3>1. Greatest(K) \in Nat /\ Greatest(K) + 1 <= i /\ i - 1 <= Greatest(K)
      BY <1>1, <2>1, KnownIs
    <3>2. QED
      BY <1>1, <3>1
  <2>3. ~\E k \in (i - 1) + 2 .. i : Through(b, d, k, i - 1)
    BY <1>1
  <2>4. LiveSwing(b, d, i) = i - 1
    BY <2>1, <2>2, <2>3 DEF LiveSwing
  <2>5. QED
    BY <1>2, <2>4
<1>3. CASE i - 1 \notin Swings(b, d)
  <2>1. K = L
    <3>1. \A j \in Swings(b, d) : j \in Nat
      BY SwingsIn
    <3>2. \A j \in Swings(b, d) : j + 1 <= i <=> j + 1 <= i - 1
      BY <1>1, <1>3, <3>1
    <3>3. QED
      BY <3>2 DEF Known
  <2>2. CASE L = {}
    <3>1. LiveSwing(b, d, i) = 0 /\ LiveSwing(b, d, i - 1) = 0
      BY <2>1, <2>2 DEF LiveSwing
    <3>2. QED
      BY <1>3, <3>1
  <2>3. CASE L # {}
    <3> DEFINE g == Greatest(L)
               P(k) == Through(b, d, k, g)
    <3>1. g \in Nat /\ g >= 2 /\ g + 1 <= i - 1
      BY <1>1, <2>3, KnownIs
    <3>2. /\ LiveSwing(b, d, i) = IF \E k \in g + 2 .. i : P(k) THEN 0 ELSE g
          /\ LiveSwing(b, d, i - 1) = IF \E k \in g + 2 .. i - 1 : P(k) THEN 0 ELSE g
      BY <2>1, <2>3 DEF LiveSwing
    <3> HIDE DEF g, P
    <3>3. g + 2 .. i = (g + 2 .. i - 1) \cup {i}
      BY <1>1, <3>1
    <3>4. (\E k \in g + 2 .. i : P(k)) <=> (\E k \in g + 2 .. i - 1 : P(k)) \/ P(i)
      BY <3>3
    <3>5. P(i) <=> Through(b, d, i, g)
      BY DEF P
    <3>6. g # 0
      BY <3>1
    <3>7. QED
      BY <1>3, <3>2, <3>4, <3>5, <3>6
  <2>4. QED
    BY <2>2, <2>3
<1>4. QED
  BY <1>2, <1>3

LEMMA BreakIs ==
  ASSUME NEW b \in Seq(OneBar), NEW d, NEW i \in 1 .. Len(b)
  PROVE  LET s == LiveSwing(b, d, i - 1)
         IN BreakOf(b, i, d) = IF s # 0 /\ Through(b, d, i, s) THEN {[idx |-> i, dir |-> d, swing |-> s]} ELSE {}
<1>1. i \in Nat /\ i - 1 \in Nat /\ Len(b) \in Nat
  OBVIOUS
<1> DEFINE K == Known(b, d, i - 1)
           g == Greatest(K)
<1>2. K = {j \in Swings(b, d) : j + 2 <= i}
  <2>1. \A j \in Swings(b, d) : j \in Nat
    BY SwingsIn
  <2>2. \A j \in Swings(b, d) : j + 1 <= i - 1 <=> j + 2 <= i
    BY <1>1, <2>1
  <2>3. QED
    BY <2>2 DEF Known
<1>3. BreakOf(b, i, d) =
        IF K # {} /\ Through(b, d, i, g) /\ \A k \in g + 2 .. i - 1 : ~Through(b, d, k, g)
        THEN {[idx |-> i, dir |-> d, swing |-> g]} ELSE {}
  BY <1>2, Zenon DEF BreakOf, Through, Swings
<1>4. K # {} => g # 0
  BY <1>1, KnownIs
<1>5. LiveSwing(b, d, i - 1) = IF K = {} \/ \E k \in g + 2 .. i - 1 : Through(b, d, k, g) THEN 0 ELSE g
  BY DEF LiveSwing
<1> HIDE DEF K, g
<1>6. CASE K = {} \/ \E k \in g + 2 .. i - 1 : Through(b, d, k, g)
  <2>1. LiveSwing(b, d, i - 1) = 0
    BY <1>5, <1>6
  <2>2. BreakOf(b, i, d) = {}
    BY <1>3, <1>6
  <2>3. QED
    BY <2>1, <2>2
<1>7. CASE K # {} /\ \A k \in g + 2 .. i - 1 : ~Through(b, d, k, g)
  <2>1. LiveSwing(b, d, i - 1) = g
    BY <1>5, <1>7
  <2>2. BreakOf(b, i, d) = IF Through(b, d, i, g) THEN {[idx |-> i, dir |-> d, swing |-> g]} ELSE {}
    BY <1>3, <1>7
  <2>3. g # 0
    BY <1>4, <1>7
  <2>4. QED
    BY <2>1, <2>2, <2>3
<1>8. QED
  BY <1>6, <1>7

\* What the pass has found and keeps after bar i.
FoundTo(b, n) == UNION {BreakOf(b, k, d) : k \in 1 .. n, d \in Dirs}
ScanKeeps(b, r, i) ==
  /\ r.high = LiveSwing(b, "buy", i) /\ r.low = LiveSwing(b, "sell", i)
  /\ r.out = FoundTo(b, i)

LEMMA FoundIs ==
  ASSUME NEW b, NEW n, NEW x
  PROVE  x \in FoundTo(b, n) <=> \E k \in 1 .. n : \E d \in Dirs : x \in BreakOf(b, k, d)
BY DEF FoundTo

LEMMA FoundNext ==
  ASSUME NEW b, NEW i \in Nat \ {0}
  PROVE  FoundTo(b, i) = FoundTo(b, i - 1) \cup BreakOf(b, i, "buy") \cup BreakOf(b, i, "sell")
<1>1. 1 .. i = (1 .. i - 1) \cup {i}
  OBVIOUS
<1>2. ASSUME NEW x
      PROVE  x \in FoundTo(b, i) <=> x \in FoundTo(b, i - 1) \/ x \in BreakOf(b, i, "buy") \/ x \in BreakOf(b, i, "sell")
  <2>1. x \in FoundTo(b, i) <=> \E k \in 1 .. i : \E d \in Dirs : x \in BreakOf(b, k, d)
    BY FoundIs
  <2>2. x \in FoundTo(b, i - 1) <=> \E k \in 1 .. i - 1 : \E d \in Dirs : x \in BreakOf(b, k, d)
    BY FoundIs
  <2>3. (\E d \in Dirs : x \in BreakOf(b, i, d)) <=> x \in BreakOf(b, i, "buy") \/ x \in BreakOf(b, i, "sell")
    BY DEF Dirs
  <2>4. QED
    BY <1>1, <2>1, <2>2, <2>3, Zenon
<1>3. QED
  BY <1>2

LEMMA ScanStepKeeps ==
  ASSUME NEW b \in Seq(OneBar), NEW i \in 1 .. Len(b), NEW p, ScanKeeps(b, p, i - 1)
  PROVE  ScanKeeps(b, ScanStep(b, p, i), i)
<1> DEFINE H == LiveSwing(b, "buy", i - 1)
           L == LiveSwing(b, "sell", i - 1)
           up == H # 0 /\ b[i].c > b[H].h
           down == L # 0 /\ b[i].c < b[L].l
           r == ScanStep(b, p, i)
<1>1. p.high = H /\ p.low = L /\ p.out = FoundTo(b, i - 1)
  BY DEF ScanKeeps
<1>2. up <=> H # 0 /\ Through(b, "buy", i, H)
  BY DEF Through
<1>3. down <=> L # 0 /\ Through(b, "sell", i, L)
  BY DEF Through
<1>4. /\ r.high = IF i - 1 \in SwingHighs(b) THEN i - 1 ELSE IF up THEN 0 ELSE H
      /\ r.low = IF i - 1 \in SwingLows(b) THEN i - 1 ELSE IF down THEN 0 ELSE L
      /\ r.out = FoundTo(b, i - 1) \cup (IF up THEN {[idx |-> i, dir |-> "buy", swing |-> H]} ELSE {})
                                   \cup (IF down THEN {[idx |-> i, dir |-> "sell", swing |-> L]} ELSE {})
  BY <1>1 DEF ScanStep, Unspent
<1> HIDE DEF H, L, up, down, r
<1>5. /\ LiveSwing(b, "buy", i) = IF i - 1 \in SwingHighs(b) THEN i - 1 ELSE IF up THEN 0 ELSE H
      /\ LiveSwing(b, "sell", i) = IF i - 1 \in SwingLows(b) THEN i - 1 ELSE IF down THEN 0 ELSE L
  <2>1. Swings(b, "buy") = SwingHighs(b) /\ Swings(b, "sell") = SwingLows(b)
    BY DEF Swings
  <2>2. QED
    BY <1>2, <1>3, <2>1, LiveStep DEF H, L
<1>6. /\ BreakOf(b, i, "buy") = IF up THEN {[idx |-> i, dir |-> "buy", swing |-> H]} ELSE {}
      /\ BreakOf(b, i, "sell") = IF down THEN {[idx |-> i, dir |-> "sell", swing |-> L]} ELSE {}
  BY <1>2, <1>3, BreakIs DEF H, L
<1>7. FoundTo(b, i) = FoundTo(b, i - 1) \cup BreakOf(b, i, "buy") \cup BreakOf(b, i, "sell")
  BY FoundNext
<1>8. QED
  BY <1>4, <1>5, <1>6, <1>7 DEF ScanKeeps, r

\* The breaks of the one pass are those of the definition.
LEMMA BreaksAre ==
  ASSUME NEW b \in Seq(OneBar)
  PROVE  StructureBreaks(b) = FoundTo(b, Len(b))
<1> DEFINE f == CHOOSE f : ScanTo(b, Len(b), f)
           bad == {n \in 0 .. Len(b) : ~ScanKeeps(b, f[n], n)}
<1>1. ScanTo(b, Len(b), f)
  BY ScanExists
<1>2. Len(b) \in Nat
  OBVIOUS
<1>3. Scan(b) = f[Len(b)]
  BY ScanChosen
<1> HIDE DEF f
<1>4. \A i \in 0 .. Len(b) : f[i] = IF i = 0 THEN ScanStart ELSE ScanStep(b, f[i - 1], i)
  BY <1>1 DEF ScanTo
<1>5. bad = {}
  <2>1. SUFFICES ASSUME bad # {} PROVE FALSE
    OBVIOUS
  <2> DEFINE n == Min(bad)
  <2>2. n \in bad /\ \A k \in bad : n <= k
    <3>1. bad \in SUBSET Nat
      BY <1>2
    <3>2. QED
      BY <2>1, <3>1, LeastOf
  <2> HIDE DEF n
  <2>3. n \in 0 .. Len(b) /\ ~ScanKeeps(b, f[n], n)
    BY <2>2
  <2>4. CASE n = 0
    <3>1. f[0] = ScanStart
      BY <1>2, <1>4
    <3>2. ASSUME NEW d PROVE LiveSwing(b, d, 0) = 0
      <4>1. Known(b, d, 0) = {}
        BY KnownIs
      <4>2. QED
        BY <4>1 DEF LiveSwing
    <3>3. FoundTo(b, 0) = {}
      <4>1. 1 .. 0 = {}
        OBVIOUS
      <4>2. QED
        BY <4>1, FoundIs
    <3>4. ScanKeeps(b, ScanStart, 0)
      BY <3>2, <3>3 DEF ScanKeeps, ScanStart
    <3>5. QED
      BY <2>3, <2>4, <3>1, <3>4
  <2>5. CASE n # 0
    <3>1. n - 1 \in 0 .. Len(b) /\ ~(n <= n - 1) /\ n \in 1 .. Len(b)
      BY <1>2, <2>3, <2>5
    <3>2. ScanKeeps(b, f[n - 1], n - 1)
      BY <2>2, <3>1
    <3>3. f[n] = ScanStep(b, f[n - 1], n)
      BY <1>4, <2>3, <2>5
    <3>4. QED
      BY <2>3, <3>1, <3>2, <3>3, ScanStepKeeps
  <2>6. QED
    BY <2>4, <2>5
<1>6. ScanKeeps(b, f[Len(b)], Len(b))
  BY <1>2, <1>5
<1>7. QED
  BY <1>3, <1>6 DEF ScanKeeps, StructureBreaks

\* primitives.py structure_breaks: the one pass that keeps two swings and spends them finds
\* the breaks of the definition, whatever the bars.
THEOREM BreaksHold == Spec => []BreaksAreTheLastSwing
<1>1. BarsType => BreaksAreTheLastSwing
  BY BreaksAre DEF BarsType, BreaksAreTheLastSwing, FoundTo, Dirs
<1>2. QED
  BY <1>1, BarsTyped, PTL
-----------------------------------------------------------------------------
(* What is found stays found.                                                *)
LEMMA GrownIs ==
  ASSUME NEW b, NEW a, Grown(b, a)
  PROVE  /\ b \in Seq(OneBar) /\ a \in Seq(OneBar) /\ Len(b) \in Nat /\ Len(a) = Len(b) + 1
         /\ \A i \in 1 .. Len(b) : a[i] = b[i] /\ i \in 1 .. Len(a) /\ i \in Nat
BY DEF Grown

\* The next bar confirms the swing at the bar before it, and no other.
LEMMA SwingsNext ==
  ASSUME NEW b, NEW a, Grown(b, a), NEW d
  PROVE  \A i \in Nat : i # Len(b) => (i \in Swings(a, d) <=> i \in Swings(b, d))
<1>1. Len(b) \in Nat /\ Len(a) = Len(b) + 1
  BY GrownIs
<1>2. SUFFICES ASSUME NEW i \in Inner(a), i # Len(b) PROVE i \in Swings(a, d) <=> i \in Swings(b, d)
  <2>1. \A i : i \in Swings(a, d) => i \in Inner(a)
    BY DEF Swings, SwingHighs, SwingLows
  <2>2. \A i : i \in Swings(b, d) => i \in Inner(a) /\ i # Len(b)
    <3>1. \A i : i \in Swings(b, d) => i \in Inner(b)
      BY DEF Swings, SwingHighs, SwingLows
    <3>2. \A i \in Inner(b) : i \in Inner(a) /\ i # Len(b)
      BY <1>1 DEF Inner
    <3>3. QED
      BY <3>1, <3>2
  <2>3. QED
    BY <2>1, <2>2
<1>3. i \in Inner(b)
  BY <1>1, <1>2 DEF Inner
<1>4. a[i - 1] = b[i - 1] /\ a[i] = b[i] /\ a[i + 1] = b[i + 1]
  BY <1>3, InnerGrows
<1>5. QED
  BY <1>2, <1>3, <1>4 DEF Swings, SwingHighs, SwingLows

LEMMA BreakStays ==
  ASSUME NEW b, NEW a, Grown(b, a), NEW d, NEW i \in 1 .. Len(b)
  PROVE  BreakOf(a, i, d) = BreakOf(b, i, d)
<1> DEFINE K(x) == {j \in Swings(x, d) : j + 2 <= i}
           g == Greatest(K(b))
           R(x) == IF K(x) # {} /\ Through(x, d, i, Greatest(K(x))) /\ \A k \in Greatest(K(x)) + 2 .. i - 1 : ~Through(x, d, k, Greatest(K(x)))
                   THEN {[idx |-> i, dir |-> d, swing |-> Greatest(K(x))]} ELSE {}
<1>1. b \in Seq(OneBar) /\ a \in Seq(OneBar) /\ Len(b) \in Nat /\ i \in Nat /\ i <= Len(b)
  BY GrownIs
<1>2. BreakOf(a, i, d) = R(a) /\ BreakOf(b, i, d) = R(b)
  BY Zenon DEF BreakOf, Through, Swings
<1>3. K(a) = K(b)
  <2>1. \A j : j \in Swings(a, d) \/ j \in Swings(b, d) => j \in Nat
    BY <1>1, SwingsIn
  <2>2. \A j \in Nat : j + 2 <= i => j # Len(b)
    BY <1>1
  <2>3. QED
    BY <2>1, <2>2, SwingsNext
<1>4. K(b) # {} => g \in 1 .. Len(b) /\ g + 2 <= i
  <2>1. \A j \in K(b) : j \in Nat /\ j >= 2 /\ j <= i /\ j + 2 <= i
    BY <1>1, SwingsIn
  <2>2. K(b) # {} => g \in K(b)
    BY <1>1, <2>1, GreatestIn
  <2>3. QED
    BY <1>1, <2>1, <2>2
<1>5. \A k \in 1 .. Len(b), s \in 1 .. Len(b) : Through(a, d, k, s) = Through(b, d, k, s)
  BY GrownIs DEF Through
<1>6. CASE K(b) = {}
  <2>1. R(a) = {} /\ R(b) = {}
    BY <1>3, <1>6
  <2>2. QED
    BY <1>2, <2>1
<1>7. CASE K(b) # {}
  <2>1. g \in 1 .. Len(b) /\ \A k \in g + 2 .. i - 1 : k \in 1 .. Len(b)
    <3>1. g \in 1 .. Len(b)
      BY <1>4, <1>7
    <3> HIDE DEF g
    <3>2. QED
      BY <1>1, <3>1
  <2>2. /\ Through(a, d, i, g) = Through(b, d, i, g)
        /\ \A k \in g + 2 .. i - 1 : Through(a, d, k, g) = Through(b, d, k, g)
    BY <1>5, <2>1
  <2>3. Greatest(K(a)) = g
    BY <1>3
  <2>4. R(a) = R(b)
    BY <1>3, <2>2, <2>3, Zenon
  <2>5. QED
    BY <1>2, <2>4
<1>8. QED
  BY <1>6, <1>7

LEMMA BreaksStay ==
  ASSUME NEW b, NEW a, Grown(b, a)
  PROVE  StructureBreaks(b) \subseteq StructureBreaks(a)
<1>1. b \in Seq(OneBar) /\ a \in Seq(OneBar) /\ Len(b) \in Nat /\ Len(a) = Len(b) + 1
  BY GrownIs
<1>2. StructureBreaks(b) = FoundTo(b, Len(b)) /\ StructureBreaks(a) = FoundTo(a, Len(a))
  BY <1>1, BreaksAre
<1>3. ASSUME NEW x \in FoundTo(b, Len(b)) PROVE x \in FoundTo(a, Len(a))
  <2>1. PICK k \in 1 .. Len(b) : \E d \in Dirs : x \in BreakOf(b, k, d)
    BY <1>3, FoundIs
  <2>2. k \in 1 .. Len(a) /\ \E d \in Dirs : x \in BreakOf(a, k, d)
    BY <1>1, <2>1, BreakStays
  <2>3. QED
    BY <2>2, FoundIs
<1>4. QED
  BY <1>2, <1>3

\* The run of opposite closes before a bar, and the block it makes.
Runs(b, i, d) == {j \in 1 .. i - 1 : \A k \in j .. i - 1 : Opposite(b[k], d)}
LEMMA CisdIs ==
  ASSUME NEW b, NEW i \in Nat, NEW d
  PROVE  /\ CisdStart(b, i, d) = IF Runs(b, i, d) = {} THEN 0 ELSE Least(Runs(b, i, d))
         /\ CisdStart(b, i, d) # 0 => CisdStart(b, i, d) \in 1 .. i - 1
<1>1. CisdStart(b, i, d) = IF Runs(b, i, d) = {} THEN 0 ELSE Least(Runs(b, i, d))
  BY DEF CisdStart, Runs
<1>2. Runs(b, i, d) \in SUBSET Nat /\ Runs(b, i, d) \subseteq 1 .. i - 1
  BY DEF Runs
<1>3. Runs(b, i, d) # {} => Least(Runs(b, i, d)) \in 1 .. i - 1
  BY <1>2, LeastIn
<1>4. QED
  BY <1>1, <1>3

LEMMA CisdStays ==
  ASSUME NEW b, NEW a, Grown(b, a), NEW i \in 1 .. Len(b), NEW d
  PROVE  CisdStart(a, i, d) = CisdStart(b, i, d)
<1>1. Len(b) \in Nat /\ i \in Nat /\ \A k \in 1 .. i - 1 : a[k] = b[k]
  BY GrownIs
<1>2. Runs(a, i, d) = Runs(b, i, d)
  <2>1. \A j \in 1 .. i - 1 : \A k \in j .. i - 1 : a[k] = b[k]
    BY <1>1
  <2>2. QED
    BY <2>1 DEF Runs
<1>3. QED
  BY <1>1, <1>2, CisdIs

LEMMA BlockStays ==
  ASSUME NEW b, NEW a, Grown(b, a), NEW i \in Inner(b), OrderBlockAt(b, i)
  PROVE  OrderBlockAt(a, i) /\ OrderBlock(a, i) = OrderBlock(b, i) /\ i \in Inner(a)
<1>1. i \in Inner(a) /\ i \in 1 .. Len(b) /\ a[i] = b[i] /\ i \in Nat
  BY InnerGrows, GrownIs
<1>2. CisdStart(a, i, Way(a[i])) = CisdStart(b, i, Way(b[i]))
  BY <1>1, CisdStays
<1>3. OrderBlockAt(a, i)
  <2>1. Displaced(a, i) /\ CisdStart(a, i, Way(a[i])) # 0
    BY <1>2, DisplacementsStay DEF OrderBlockAt
  <2>2. \E k \in StructureBreaks(a) : k.dir = Way(a[i]) /\ k.idx \in i .. i + 2
    BY <1>1, BreaksStay DEF OrderBlockAt
  <2>3. \E m \in i .. i + 2 : FvgAt(a, m, Way(a[i]))
    <3>1. PICK m \in i .. i + 2 : FvgAt(b, m, Way(b[i]))
      BY DEF OrderBlockAt
    <3>2. m \in Inner(b)
      BY <3>1 DEF FvgAt
    <3>3. FvgAt(a, m, Way(a[i]))
      BY <1>1, <3>1, <3>2, GapAtStays
    <3>4. QED
      BY <3>3
  <2>4. QED
    BY <1>1, <2>1, <2>2, <2>3 DEF OrderBlockAt
<1>4. OrderBlock(a, i) = OrderBlock(b, i)
  <2> DEFINE s == CisdStart(b, i, Way(b[i]))
             run == s .. i - 1
  <2>1. s \in 1 .. i - 1
    BY <1>1, CisdIs DEF OrderBlockAt
  <2>2. \A j \in run : a[j] = b[j]
    BY <1>1, <2>1, GrownIs
  <2>3. {a[j].l : j \in run} = {b[j].l : j \in run} /\ {a[j].h : j \in run} = {b[j].h : j \in run}
    BY <2>2
  <2>4. QED
    BY <1>1, <1>2, <2>3 DEF OrderBlock
<1>5. QED
  BY <1>1, <1>3, <1>4

LEMMA BlocksStay ==
  ASSUME NEW b, NEW a, Grown(b, a)
  PROVE  OrderBlocks(b) \subseteq OrderBlocks(a)
BY BlockStays DEF OrderBlocks

\* The close that breaks a block, and the displacement that makes it a breaker.
Passed(b, z) == {k \in z.disp + 1 .. Len(b) : Beyond(Against(z.dir), b[k].c, IF z.dir = "buy" THEN z.low ELSE z.high)}
Legs(b, z) ==
  {j \in Least(Passed(b, z)) .. Least(Passed(b, z)) + 2 : j \in Inner(b) /\ Displaced(b, j) /\ Way(b[j]) = Against(z.dir)}
Breaker(b, z) == Zone("BB", Against(z.dir), z.low, z.high, Least(Legs(b, z)), Least(Legs(b, z)))

LEMMA BreakersAre ==
  ASSUME NEW b
  PROVE  BreakerBlocks(b) = {Breaker(b, z) : z \in {y \in OrderBlocks(b) : Passed(b, y) # {} /\ Legs(b, y) # {}}}
BY Zenon DEF BreakerBlocks, Breaker, Passed, Legs

LEMMA BlockDated ==
  ASSUME NEW b \in Seq(OneBar), NEW z \in OrderBlocks(b)
  PROVE  z.disp \in Inner(b) /\ z.idx \in Nat /\ z.disp \in Nat
<1>1. PICK i \in Inner(b) : OrderBlockAt(b, i) /\ z = OrderBlock(b, i)
  BY DEF OrderBlocks
<1> DEFINE s == CisdStart(b, i, Way(b[i]))
<1>2. i \in Nat /\ s \in 1 .. i - 1
  <2>1. i \in Nat
    BY DEF Inner
  <2>2. s # 0
    BY <1>1 DEF OrderBlockAt
  <2>3. QED
    BY <2>1, <2>2, CisdIs
<1> HIDE DEF s
<1>3. Least(s .. i - 1) \in s .. i - 1
  <2>1. s \in Nat /\ i - 1 \in Nat /\ s <= i - 1
    BY <1>2
  <2>2. s \in s .. i - 1 /\ \A j \in s .. i - 1 : j \in Nat
    BY <2>1
  <2>3. QED
    BY <2>2, LeastIn
<1>4. z.disp = i /\ z.idx = Least(s .. i - 1)
  BY <1>1 DEF OrderBlock, Zone, s
<1>5. QED
  BY <1>1, <1>2, <1>3, <1>4

\* The first of what is there is the first of what will be.
LEMMA FirstStays ==
  ASSUME NEW T \in SUBSET Nat, T # {}, NEW x \in Nat, NEW R \in SUBSET Nat, T \subseteq R, R \subseteq T \cup {x},
         \A y \in T : y < x
  PROVE  Least(R) = Least(T)
<1>1. Least(T) \in T /\ \A y \in T : Least(T) <= y
  BY LeastIn
<1>2. R # {} /\ Least(R) \in R /\ \A y \in R : Least(R) <= y
  BY LeastIn
<1> DEFINE t == Least(T)
           r == Least(R)
<1> HIDE DEF t, r
<1>3. t \in T /\ r \in R /\ (\A y \in T : t <= y) /\ (\A y \in R : r <= y) /\ t \in Nat /\ r \in Nat /\ t < x
  BY <1>1, <1>2 DEF t, r
<1>4. r <= t
  BY <1>3
<1>5. r \in T
  BY <1>3, <1>4
<1>6. t = r
  BY <1>3, <1>4, <1>5
<1>7. QED
  BY <1>6 DEF t, r

LEMMA PassedStays ==
  ASSUME NEW b, NEW a, Grown(b, a), NEW z, z.disp \in Nat, Passed(b, z) # {}
  PROVE  /\ Passed(b, z) \subseteq 1 .. Len(b) /\ Least(Passed(b, z)) \in 1 .. Len(b)
         /\ Passed(a, z) # {} /\ Least(Passed(a, z)) = Least(Passed(b, z))
<1>1. Len(b) \in Nat /\ Len(a) = Len(b) + 1 /\ z.disp \in Nat
  BY GrownIs
<1> DEFINE P(k) == Beyond(Against(z.dir), a[k].c, IF z.dir = "buy" THEN z.low ELSE z.high)
           T == Passed(b, z)
           R == Passed(a, z)
<1>2. T \subseteq 1 .. Len(b)
  BY <1>1 DEF Passed
<1>3. T = {k \in z.disp + 1 .. Len(b) : P(k)}
  <2>1. \A k \in z.disp + 1 .. Len(b) : a[k] = b[k]
    BY <1>1, GrownIs
  <2>2. QED
    BY <2>1 DEF Passed
<1>4. R = {k \in z.disp + 1 .. Len(a) : P(k)}
  BY DEF Passed
<1> HIDE DEF P, T, R
<1>5. T \in SUBSET Nat /\ R \in SUBSET Nat /\ T \subseteq R /\ R \subseteq T \cup {Len(a)} /\ \A y \in T : y < Len(a)
  BY <1>1, <1>3, <1>4
<1>6. T # {}
  BY DEF T
<1>7. Least(T) \in T /\ Least(R) = Least(T) /\ R # {}
  <2>1. Len(a) \in Nat /\ R # {}
    <3>1. Len(a) \in Nat
      BY <1>1
    <3>2. R # {}
      BY <1>5, <1>6
    <3>3. QED
      BY <3>1, <3>2
  <2>2. Least(T) \in T
    BY <1>5, <1>6, LeastIn
  <2>3. Least(R) = Least(T)
    BY <1>5, <1>6, <2>1, FirstStays
  <2>4. QED
    BY <2>1, <2>2, <2>3
<1>8. QED
  BY <1>2, <1>7 DEF T, R

LEMMA BreakersStay ==
  ASSUME NEW b, NEW a, Grown(b, a)
  PROVE  BreakerBlocks(b) \subseteq BreakerBlocks(a)
<1>1. b \in Seq(OneBar) /\ Len(b) \in Nat /\ Len(a) = Len(b) + 1
  BY GrownIs
<1>2. ASSUME NEW z \in OrderBlocks(b), Passed(b, z) # {}, Legs(b, z) # {}
      PROVE  Passed(a, z) # {} /\ Legs(a, z) # {} /\ Breaker(a, z) = Breaker(b, z)
  <2>1. z.disp \in Nat
    BY <1>1, BlockDated
  <2> DEFINE l == Least(Passed(b, z))
  <2>2. Passed(a, z) # {} /\ Least(Passed(a, z)) = l /\ l \in 1 .. Len(b)
    BY <1>2, <2>1, PassedStays
  <2> HIDE DEF l
  <2> DEFINE T == Legs(b, z)
             R == Legs(a, z)
             P(x, j) == Displaced(x, j) /\ Way(x[j]) = Against(z.dir)
  <2>3. /\ T = {j \in l .. l + 2 : j \in Inner(b) /\ P(b, j)}
        /\ R = {j \in l .. l + 2 : j \in Inner(a) /\ P(a, j)}
    BY <2>2 DEF Legs, l
  <2>4. \A j \in Inner(b) : j \in Inner(a) /\ (P(a, j) <=> P(b, j)) /\ j \in Nat /\ j < Len(b)
    <3>1. \A j \in Inner(b) : j \in Inner(a) /\ a[j] = b[j] /\ (Displaced(a, j) <=> Displaced(b, j))
      BY InnerGrows, DisplacementsStay
    <3>2. QED
      BY <1>1, <3>1 DEF Inner
  <2>5. \A j \in Inner(a) : j \in Nat /\ (j \in Inner(b) \/ j = Len(b))
    BY <1>1 DEF Inner
  <2> HIDE DEF T, R, P
  <2>6. T \in SUBSET Nat /\ R \in SUBSET Nat /\ T \subseteq R /\ R \subseteq T \cup {Len(b)} /\ \A y \in T : y < Len(b)
    <3>1. T \in SUBSET Nat /\ T \subseteq R /\ \A y \in T : y < Len(b)
      BY <2>3, <2>4
    <3>2. ASSUME NEW y \in R PROVE y \in Nat /\ (y \in T \/ y = Len(b))
      BY <2>3, <2>4, <2>5
    <3>3. QED
      BY <3>1, <3>2
  <2>7. T # {}
    BY <1>2 DEF T
  <2>8. Least(R) = Least(T) /\ R # {}
    BY <1>1, <2>6, <2>7, FirstStays
  <2>9. QED
    BY <2>2, <2>8 DEF Breaker, T, R
<1>3. QED
  <2>1. ASSUME NEW z \in OrderBlocks(b), Passed(b, z) # {}, Legs(b, z) # {} PROVE Breaker(b, z) \in BreakerBlocks(a)
    <3>1. z \in OrderBlocks(a) /\ Passed(a, z) # {} /\ Legs(a, z) # {} /\ Breaker(a, z) = Breaker(b, z)
      BY <1>2, <2>1, BlocksStay
    <3>2. QED
      BY <3>1, BreakersAre
  <2>2. QED
    BY <2>1, BreakersAre

\* The two swings before and the two after a swing.
Befores(S, i) == {j \in {k \in S : k < i} : Cardinality({k \in {m \in S : m < i} : k >= j}) <= 2}
Afters(S, i) == {j \in {k \in S : k > i} : Cardinality({k \in {m \in S : m > i} : k <= j}) <= 2}

LEMMA AroundIs == \A S, i : Around(S, i) = Befores(S, i) \cup Afters(S, i)
BY DEF Around, Befores, Afters

LEMMA AroundFinite ==
  ASSUME NEW S \in SUBSET Nat, NEW i \in Nat, NEW top \in Nat, \A j \in S : j <= top
  PROVE  /\ IsFiniteSet(S) /\ IsFiniteSet(Befores(S, i)) /\ IsFiniteSet(Afters(S, i))
         /\ Cardinality(Befores(S, i)) <= 2 /\ Cardinality(Befores(S, i)) \in Nat
<1>1. IsFiniteSet(S)
  <2>1. S \subseteq 0 .. top /\ IsFiniteSet(0 .. top)
    BY FS_Interval
  <2>2. QED
    BY <2>1, FS_Subset
<1> DEFINE T == {m \in S : m < i}
           B == Befores(S, i)
<1>2. IsFiniteSet(T) /\ IsFiniteSet(B) /\ IsFiniteSet(Afters(S, i))
  <2>1. T \subseteq S /\ B \subseteq S /\ Afters(S, i) \subseteq S
    BY DEF Befores, Afters
  <2>2. QED
    BY <1>1, <2>1, FS_Subset
<1>3. Cardinality(B) \in Nat
  BY <1>2, FS_CardinalityType
<1>4. Cardinality(B) <= 2
  <2>1. CASE B = {}
    BY <2>1, FS_EmptySet
  <2>2. CASE B # {}
    <3>1. B \in SUBSET Nat /\ B \subseteq T
      BY DEF Befores
    <3>2. PICK m \in B : \A j \in B : m <= j
      BY <2>2, <3>1, LeastIn
    <3>3. Cardinality({k \in T : k >= m}) <= 2
      BY <3>2 DEF Befores
    <3> DEFINE U == {k \in T : k >= m}
    <3>4. B \subseteq U /\ U \subseteq T
      <4>1. \A j \in B : j >= m
        BY <3>1, <3>2
      <4>2. QED
        BY <3>1, <4>1
    <3>5. IsFiniteSet(U) /\ Cardinality(B) <= Cardinality(U) /\ Cardinality(U) \in Nat
      <4>1. IsFiniteSet(U)
        BY <1>2, <3>4, FS_Subset
      <4>2. QED
        BY <3>4, <4>1, FS_Subset, FS_CardinalityType
    <3>6. QED
      BY <1>3, <3>3, <3>5
  <2>3. QED
    BY <2>1, <2>2
<1>5. QED
  BY <1>1, <1>2, <1>3, <1>4

\* A swing with two swings on either side keeps them when a later one is confirmed.
LEMMA AroundStays ==
  ASSUME NEW S \in SUBSET Nat, NEW i \in S, NEW x \in Nat, \A j \in S : j < x, Cardinality(Around(S, i)) = 4
  PROVE  Around(S \cup {x}, i) = Around(S, i)
<1> DEFINE R == S \cup {x}
           L == {m \in S : m > i}
           M == {m \in R : m > i}
<1>1. i \in Nat /\ i < x /\ R \in SUBSET Nat /\ \A j \in S : j \in Nat /\ j <= x
  OBVIOUS
<1>2. /\ IsFiniteSet(S) /\ IsFiniteSet(Befores(S, i)) /\ IsFiniteSet(Afters(S, i))
      /\ Cardinality(Befores(S, i)) <= 2 /\ Cardinality(Befores(S, i)) \in Nat
  BY <1>1, AroundFinite
<1>3. Befores(R, i) = Befores(S, i)
  <2>1. {m \in R : m < i} = {m \in S : m < i}
    BY <1>1
  <2>2. QED
    BY <2>1, Zenon DEF Befores
<1>4. M = L \cup {x} /\ x \notin L
  BY <1>1
<1>5. IsFiniteSet(L) /\ Cardinality(L) \in Nat /\ Cardinality(M) = Cardinality(L) + 1
  <2>1. L \subseteq S
    OBVIOUS
  <2>2. IsFiniteSet(L)
    BY <1>2, <2>1, FS_Subset
  <2>3. QED
    BY <1>4, <2>2, FS_AddElement, FS_CardinalityType
<1>6. Cardinality(L) >= 2
  <2>1. Cardinality(Afters(S, i)) >= 2 /\ Cardinality(Afters(S, i)) \in Nat
    <3> DEFINE B == Befores(S, i)
               A == Afters(S, i)
    <3>1. B \cap A = {}
      <4>1. \A j \in B : j \in Nat /\ j < i
        BY <1>1 DEF Befores
      <4>2. \A j \in A : j \in Nat /\ i < j
        BY <1>1 DEF Afters
      <4> HIDE DEF A, B
      <4>3. QED
        BY <1>1, <4>1, <4>2
    <3>2. Cardinality(B \cup A) = Cardinality(B) + Cardinality(A) - Cardinality(B \cap A)
      BY <1>2, FS_Union
    <3>3. Cardinality(B \cap A) = 0 /\ Cardinality(A) \in Nat
      BY <1>2, <3>1, FS_EmptySet, FS_CardinalityType
    <3>4. Cardinality(B \cup A) = 4
      BY AroundIs
    <3>5. QED
      BY <1>2, <3>2, <3>3, <3>4
  <2>2. Afters(S, i) \subseteq L
    BY DEF Afters
  <2>3. Cardinality(Afters(S, i)) <= Cardinality(L)
    BY <1>5, <2>2, FS_Subset
  <2>4. QED
    BY <1>5, <2>1, <2>3
<1>7. Afters(R, i) = Afters(S, i)
  <2>1. Afters(R, i) = {j \in M : Cardinality({k \in M : k <= j}) <= 2}
    BY Zenon DEF Afters
  <2>2. Afters(S, i) = {j \in L : Cardinality({k \in L : k <= j}) <= 2}
    BY Zenon DEF Afters
  <2>3. ASSUME NEW j \in L PROVE {k \in M : k <= j} = {k \in L : k <= j}
    BY <1>1, <1>4
  <2>4. ~(Cardinality({k \in M : k <= x}) <= 2)
    <3>1. {k \in M : k <= x} = M
      <4>1. \A k \in M : k <= x
        BY <1>1
      <4> HIDE DEF M
      <4>2. QED
        BY <4>1
    <3>2. Cardinality(M) >= 3
      BY <1>5, <1>6
    <3>3. QED
      BY <1>5, <3>1, <3>2
  <2> HIDE DEF M, L, R
  <2>5. QED
    BY <1>4, <2>1, <2>2, <2>3, <2>4
<1>8. QED
  BY <1>3, <1>7, AroundIs

LEMMA MajorsStay ==
  ASSUME NEW b, NEW a, Grown(b, a)
  PROVE  MajorHighs(b) \subseteq MajorHighs(a) /\ MajorLows(b) \subseteq MajorLows(a)
<1>1. b \in Seq(OneBar) /\ a \in Seq(OneBar) /\ Len(b) \in Nat
  BY GrownIs
<1>2. ASSUME NEW d, NEW i \in Swings(b, d), Cardinality(Around(Swings(b, d), i)) = 4
      PROVE  /\ i \in Swings(a, d) /\ Around(Swings(a, d), i) = Around(Swings(b, d), i)
             /\ i \in 1 .. Len(b) /\ Around(Swings(b, d), i) \subseteq 1 .. Len(b)
  <2> DEFINE S == Swings(b, d)
             R == Swings(a, d)
  <2>1. S \subseteq 2 .. Len(b) - 1 /\ R \in SUBSET Nat
    BY <1>1, SwingsIn
  <2>2. S \in SUBSET Nat /\ \A j \in S : j < Len(b) /\ j \in 1 .. Len(b)
    BY <1>1, <2>1
  <2>3. \A j \in Nat : j # Len(b) => (j \in R <=> j \in S)
    BY SwingsNext
  <2> HIDE DEF S, R
  <2>4. R = S \/ R = S \cup {Len(b)}
    <3>1. \A j : j \in R \/ j \in S => j \in Nat
      BY <2>1, <2>2
    <3>2. Len(b) \notin S
      BY <1>1, <2>2
    <3>3. CASE Len(b) \in R
      <4>1. \A j : j \in R <=> j \in S \/ j = Len(b)
        BY <2>3, <3>1, <3>3
      <4>2. QED
        BY <4>1
    <3>4. CASE Len(b) \notin R
      <4>1. \A j : j \in R <=> j \in S
        BY <2>3, <3>1, <3>2, <3>4
      <4>2. QED
        BY <4>1
    <3>5. QED
      BY <3>3, <3>4
  <2>5. i \in S /\ Cardinality(Around(S, i)) = 4
    BY <1>2 DEF S
  <2>6. Around(R, i) = Around(S, i)
    BY <1>1, <2>2, <2>4, <2>5, AroundStays
  <2>7. Around(S, i) \subseteq S
    BY DEF Around
  <2>8. i \in R
    BY <1>1, <2>2, <2>3, <2>5
  <2>9. QED
    BY <2>2, <2>5, <2>6, <2>7, <2>8 DEF S, R
<1>3. \A j \in 1 .. Len(b) : a[j] = b[j]
  BY GrownIs
<1>4. MajorHighs(b) \subseteq MajorHighs(a)
  <2>1. Swings(b, "buy") = SwingHighs(b) /\ Swings(a, "buy") = SwingHighs(a)
    BY DEF Swings
  <2>2. QED
    BY <1>2, <1>3, <2>1 DEF MajorHighs
<1>5. MajorLows(b) \subseteq MajorLows(a)
  <2>1. Swings(b, "sell") = SwingLows(b) /\ Swings(a, "sell") = SwingLows(a)
    BY DEF Swings
  <2>2. QED
    BY <1>2, <1>3, <2>1 DEF MajorLows
<1>6. QED
  BY <1>4, <1>5

\* core/primitives.py "every function only looks at the bars it is given": in every behaviour,
\* whatever the bars, nothing that was found is withdrawn or changed when the next bar closes.
THEOREM NoLookahead == Spec => NothingRepaints
<1>1. BarsType /\ [Next]_pathVars =>
        [Bar => /\ SwingHighs(bars) \subseteq SwingHighs(bars') /\ SwingLows(bars) \subseteq SwingLows(bars')
                /\ MajorHighs(bars) \subseteq MajorHighs(bars') /\ MajorLows(bars) \subseteq MajorLows(bars')
                /\ StructureBreaks(bars) \subseteq StructureBreaks(bars')
                /\ Formed(bars) \subseteq Formed(bars')]_pathVars
  <2> SUFFICES ASSUME BarsType, Bar
               PROVE  /\ SwingHighs(bars) \subseteq SwingHighs(bars') /\ SwingLows(bars) \subseteq SwingLows(bars')
                      /\ MajorHighs(bars) \subseteq MajorHighs(bars') /\ MajorLows(bars) \subseteq MajorLows(bars')
                      /\ StructureBreaks(bars) \subseteq StructureBreaks(bars')
                      /\ Formed(bars) \subseteq Formed(bars')
    OBVIOUS
  <2>1. Grown(bars, bars')
    BY BarGrows
  <2>2. Formed(bars) \subseteq Formed(bars')
    BY <2>1, GapsStay, ImbalancesStay, VacuumsStay, RejectionsStay, PropulsionsStay, BlocksStay, BreakersStay DEF Formed
  <2>3. QED
    BY <2>1, <2>2, SwingsStay, MajorsStay, BreaksStay
<1>2. QED
  BY <1>1, BarsTyped, PTL DEF Spec, NothingRepaints
-----------------------------------------------------------------------------
(* What is used up stays used up.                                            *)
LEMMA TouchIs ==
  ASSUME NEW b, NEW a, Grown(b, a), NEW s \in Nat \ {0}, NEW z
  PROVE  /\ FirstTouch(z, b, s) # 0 => FirstTouch(z, b, s) \in s .. Len(b)
         /\ FirstTouch(z, b, s) # 0 => FirstTouch(z, a, s) = FirstTouch(z, b, s)
<1> DEFINE T == {k \in s .. Len(b) : Touches(z, b[k])}
           R == {k \in s .. Len(a) : Touches(z, a[k])}
<1>1. Len(b) \in Nat /\ Len(a) = Len(b) + 1 /\ Len(a) \in Nat
  BY GrownIs
<1>2. \A k \in s .. Len(b) : a[k] = b[k]
  BY GrownIs
<1>3. /\ FirstTouch(z, b, s) = IF T = {} THEN 0 ELSE Least(T)
      /\ FirstTouch(z, a, s) = IF R = {} THEN 0 ELSE Least(R)
  BY Zenon DEF FirstTouch
<1>4. T \in SUBSET Nat /\ R \in SUBSET Nat /\ T \subseteq s .. Len(b)
  OBVIOUS
<1>5. T \subseteq R /\ R \subseteq T \cup {Len(a)}
  <2>1. s .. Len(a) \subseteq s .. Len(b) \cup {Len(a)} /\ s .. Len(b) \subseteq s .. Len(a)
    BY <1>1
  <2>2. QED
    BY <1>2, <2>1
<1>6. \A y \in T : y < Len(a)
  BY <1>1
<1> HIDE DEF T, R
<1>7. CASE T = {}
  BY <1>3, <1>7
<1>8. CASE T # {}
  <2>1. Least(T) \in T /\ Least(R) = Least(T)
    BY <1>1, <1>4, <1>5, <1>6, <1>8, LeastIn, FirstStays
  <2>2. FirstTouch(z, b, s) = Least(T) /\ FirstTouch(z, a, s) = Least(R)
    BY <1>3, <1>5, <1>8
  <2>3. QED
    BY <1>4, <2>1, <2>2
<1>9. QED
  BY <1>7, <1>8

LEMMA GapDated ==
  ASSUME NEW b \in Seq(OneBar), NEW z \in Fvgs(b)
  PROVE  z.idx \in Inner(b) /\ z.disp = z.idx /\ z.idx \in Nat /\ z.idx >= 2
<1>1. \A m \in Inner(b) : m \in Nat /\ m >= 2
  BY DEF Inner
<1>2. QED
  BY <1>1 DEF Fvgs, Zone

\* Every zone is dated by a bar there is, and by one at or before its displacement's.
LEMMA FormedDated ==
  ASSUME NEW b \in Seq(OneBar), NEW z \in Formed(b)
  PROVE  z.idx \in Nat /\ z.disp \in Nat
<1>1. CASE z \in Fvgs(b)
  BY <1>1, GapDated
<1>2. CASE z \in OrderBlocks(b)
  BY <1>2, BlockDated
<1>3. CASE z \in BreakerBlocks(b)
  <2>1. PICK y \in OrderBlocks(b) : Passed(b, y) # {} /\ Legs(b, y) # {} /\ z = Breaker(b, y)
    BY <1>3, BreakersAre
  <2>2. \A j \in Legs(b, y) : j \in Nat
    BY DEF Legs, Inner
  <2>3. Least(Legs(b, y)) \in Nat
    BY <2>1, <2>2, LeastIn
  <2>4. QED
    BY <2>1, <2>3 DEF Breaker, Zone
<1>4. CASE z \in RejectionBlocks(b)
  <2>1. \A k \in 1 .. Len(b) - 1 : k \in Nat /\ k + 1 \in Nat
    OBVIOUS
  <2>2. QED
    BY <1>4, <2>1 DEF RejectionBlocks, Zone
<1>5. CASE z \in PropulsionBlocks(b)
  <2>1. \A k \in Inner(b) : k \in Nat
    BY DEF Inner
  <2>2. QED
    BY <1>5, <2>1 DEF PropulsionBlocks, Zone
<1>6. CASE z \in VolumeImbalances(b) \cup Vacuums(b)
  <2>1. \A k \in 2 .. Len(b) : k \in Nat
    OBVIOUS
  <2>2. QED
    BY <1>6, <2>1 DEF VolumeImbalances, Vacuums, Zone
<1>7. QED
  BY <1>1, <1>2, <1>3, <1>4, <1>5, <1>6 DEF Formed

LEMMA InverseStays ==
  ASSUME NEW b, NEW a, Grown(b, a), NEW z \in Fvgs(b), FirstTouch(z, b, z.idx + 2) # 0, z \in IFvgs(a)
  PROVE  z \in IFvgs(b)
<1> DEFINE k == FirstTouch(z, b, z.idx + 2)
<1>1. b \in Seq(OneBar) /\ Len(b) \in Nat /\ Len(a) = Len(b) + 1 /\ z.idx \in Nat
  BY GrownIs, GapDated
<1>2. k \in z.idx + 2 .. Len(b) /\ FirstTouch(z, a, z.idx + 2) = k
  <2>1. z.idx + 2 \in Nat \ {0}
    BY <1>1
  <2>2. QED
    BY <2>1, TouchIs
<1>3. \A j \in k .. Len(a) : ~ClosedAgainst(z, a[j])
  BY <1>2 DEF IFvgs, SinceTap
<1> HIDE DEF k
<1>4. \A j \in k .. Len(b) : j \in k .. Len(a) /\ a[j] = b[j]
  BY <1>1, <1>2, GrownIs
<1>5. \A j \in k .. Len(b) : ~ClosedAgainst(z, b[j])
  BY <1>3, <1>4
<1>6. QED
  BY <1>5 DEF IFvgs, SinceTap, k

LEMMA VoidStays ==
  ASSUME NEW b, NEW a, Grown(b, a), NEW z \in Voids(a) \cap Fvgs(b)
  PROVE  z \in Voids(b)
<1>1. b \in Seq(OneBar) /\ Len(b) \in Nat /\ Len(a) = Len(b) + 1 /\ z.idx \in Nat /\ z.idx \in Inner(b) /\ z.idx >= 2
  BY GrownIs, GapDated
<1>2. AtrSum(a, z.idx) = AtrSum(b, z.idx)
  <2>1. z.idx \in 1 .. Len(b)
    BY <1>1 DEF Inner
  <2>2. QED
    BY <2>1, AtrStays
<1>3. z \in Wide(b)
  BY <1>2 DEF Voids, Wide
<1>4. \A k \in z.idx + 2 .. Len(b) : k \in z.idx + 2 .. Len(a) /\ a[k] = b[k]
  BY <1>1, GrownIs
<1>5. QED
  BY <1>3, <1>4 DEF Voids

LEMMA OverlapStays ==
  ASSUME NEW b, NEW a, Grown(b, a), NEW v \in Bprs(a) \cap Overlaps(b)
  PROVE  v \in Bprs(b)
<1>1. v.idx \in Nat
  <2>1. PICK p \in Fvgs(b) \X Fvgs(b) :
          v = [low |-> High2(p[1].low, p[2].low), high |-> Low2(p[1].high, p[2].high), idx |-> p[2].idx, dir |-> p[2].dir]
    BY DEF Overlaps
  <2>2. v.idx = p[2].idx /\ p[2] \in Fvgs(b)
    BY <2>1
  <2>3. QED
    BY <2>2, GapDated, GrownIs
<1>2. Len(b) \in Nat /\ Len(a) = Len(b) + 1
  BY GrownIs
<1>3. \A k \in v.idx + 2 .. Len(b) : k \in v.idx + 2 .. Len(a) /\ a[k] = b[k]
  BY <1>1, <1>2, GrownIs
<1>4. Traversed(v, b) => Traversed(v, a)
  BY <1>3 DEF Traversed
<1>5. QED
  BY <1>4 DEF Bprs

LEMMA BrokenStays ==
  ASSUME NEW b, NEW a, Grown(b, a), NEW z, z.idx \in Nat, BrokenZone(z, b)
  PROVE  BrokenZone(z, a)
<1>1. Len(b) \in Nat /\ Len(a) = Len(b) + 1
  BY GrownIs
<1>2. \A k \in z.idx + 1 .. Len(b) : k \in z.idx + 1 .. Len(a) /\ a[k] = b[k]
  BY <1>1, GrownIs
<1>3. QED
  BY <1>2 DEF BrokenZone

\* A level swept by a body keeps its bar; nothing that was swept is untouched again.
LEMMA SweepStays ==
  ASSUME NEW b, NEW a, Grown(b, a), NEW s \in Nat \ {0}, NEW lv, NEW tol
  PROVE  LET was == SweepStatus(lv, "high", tol, b, s)
             is == SweepStatus(lv, "high", tol, a, s)
         IN /\ was.status = "SWEPT_BODY" => is = was
            /\ is.status = "UNTOUCHED" => was.status = "UNTOUCHED"
<1> DEFINE Bodies(x) == {k \in s .. Len(x) : x[k].c > lv}
           Wicks(x) == {k \in s .. Len(x) : x[k].h >= lv - tol}
           Told(B, W) == IF B # {} THEN [status |-> "SWEPT_BODY", at |-> Least(B)]
                         ELSE IF W # {} THEN [status |-> "SWEPT_WICK", at |-> Least(W)]
                         ELSE [status |-> "UNTOUCHED", at |-> 0]
<1>1. Len(b) \in Nat /\ Len(a) = Len(b) + 1 /\ Len(a) \in Nat
  BY GrownIs
<1>2. /\ SweepStatus(lv, "high", tol, b, s) = Told(Bodies(b), Wicks(b))
      /\ SweepStatus(lv, "high", tol, a, s) = Told(Bodies(a), Wicks(a))
  BY DEF SweepStatus
<1>3. \A k \in s .. Len(b) : a[k] = b[k]
  BY GrownIs
<1>4. s .. Len(a) \subseteq s .. Len(b) \cup {Len(a)} /\ s .. Len(b) \subseteq s .. Len(a)
  BY <1>1
<1>5. /\ Bodies(b) \subseteq Bodies(a) /\ Bodies(a) \subseteq Bodies(b) \cup {Len(a)}
      /\ Bodies(b) \in SUBSET Nat /\ Bodies(a) \in SUBSET Nat /\ \A y \in Bodies(b) : y < Len(a)
  <2>1. Bodies(b) \subseteq Bodies(a) /\ Bodies(a) \subseteq Bodies(b) \cup {Len(a)}
    BY <1>3, <1>4
  <2>2. Bodies(b) \in SUBSET Nat /\ Bodies(a) \in SUBSET Nat /\ \A y \in Bodies(b) : y < Len(a)
    BY <1>1
  <2>3. QED
    BY <2>1, <2>2
<1>6. Wicks(b) \subseteq Wicks(a)
  BY <1>3, <1>4
<1> HIDE DEF Bodies, Wicks
<1>7. Bodies(b) # {} => Bodies(a) # {} /\ Least(Bodies(a)) = Least(Bodies(b))
  BY <1>1, <1>5, FirstStays
<1>8. Told(Bodies(b), Wicks(b)).status = "SWEPT_BODY" => Bodies(b) # {}
  OBVIOUS
<1>9. Told(Bodies(a), Wicks(a)).status = "UNTOUCHED" => Bodies(a) = {} /\ Wicks(a) = {}
  OBVIOUS
<1>10. QED
  BY <1>2, <1>5, <1>6, <1>7, <1>8, <1>9

\* core/primitives.py ifvgs, voids, bprs and mark_mitigation, core/levels.py sweep_status: a
\* zone that is used up or failed, and a level swept by a body, never come back to life.
THEOREM DeadStayDead == Spec => ZonesStayDead
<1> DEFINE dead(b, a) ==
      /\ \A z \in Fvgs(b) : FirstTouch(z, b, z.idx + 2) # 0 => (z \in IFvgs(a) => z \in IFvgs(b))
      /\ Voids(a) \cap Fvgs(b) \subseteq Voids(b)
      /\ Bprs(a) \cap Overlaps(b) \subseteq Bprs(b)
      /\ \A z \in Formed(b) :
           /\ MitigatedAt(z, b) # 0 => MitigatedAt(z, a) = MitigatedAt(z, b)
           /\ BrokenZone(z, b) => BrokenZone(z, a)
      /\ \A i \in SwingHighs(b) :
           LET was == SweepStatus(b[i].h, "high", 2, b, i + 2)
               is == SweepStatus(b[i].h, "high", 2, a, i + 2)
           IN /\ was.status = "SWEPT_BODY" => is = was
              /\ is.status = "UNTOUCHED" => was.status = "UNTOUCHED"
<1>1. ASSUME NEW b, NEW a, Grown(b, a) PROVE dead(b, a)
  <2>1. \A z \in Formed(b) : z.idx \in Nat /\ z.disp \in Nat /\ z.disp + 2 \in Nat \ {0}
    BY <1>1, GrownIs, FormedDated
  <2>2. \A z \in Formed(b) : MitigatedAt(z, b) # 0 => MitigatedAt(z, a) = MitigatedAt(z, b)
    BY <1>1, <2>1, TouchIs DEF MitigatedAt
  <2>3. \A z \in Formed(b) : BrokenZone(z, b) => BrokenZone(z, a)
    BY <1>1, <2>1, BrokenStays
  <2>4. ASSUME NEW i \in SwingHighs(b)
        PROVE  LET was == SweepStatus(b[i].h, "high", 2, b, i + 2)
                   is == SweepStatus(b[i].h, "high", 2, a, i + 2)
               IN /\ was.status = "SWEPT_BODY" => is = was
                  /\ is.status = "UNTOUCHED" => was.status = "UNTOUCHED"
    <3>1. i + 2 \in Nat \ {0}
      BY DEF SwingHighs, Inner
    <3>2. QED
      BY <1>1, <3>1, SweepStays
  <2>5. QED
    BY <1>1, <2>2, <2>3, <2>4, InverseStays, VoidStays, OverlapStays
<1>2. BarsType /\ [Next]_pathVars => [Bar => dead(bars, bars')]_pathVars
  BY <1>1, BarGrows
<1>3. QED
  BY <1>2, BarsTyped, PTL DEF Spec, ZonesStayDead
-----------------------------------------------------------------------------
(* The plan: its stop, its risk and its targets.                             *)
LEMMA LeastInt ==
  ASSUME NEW T \in SUBSET Int, T # {}, NEW lo \in Int, \A y \in T : lo <= y
  PROVE  Least(T) \in T /\ \A y \in T : Least(T) <= y
<1> DEFINE D == {n \in Nat : lo + n \in T}
<1>1. D \in SUBSET Nat /\ D # {}
  <2>1. PICK y \in T : lo <= y
    OBVIOUS
  <2>2. y - lo \in Nat /\ lo + (y - lo) = y
    BY <2>1
  <2>3. QED
    BY <2>1, <2>2
<1>2. PICK n \in D : \A m \in D : n <= m
  BY <1>1, LeastOf
<1>3. lo + n \in T /\ n \in Nat
  BY <1>2
<1>4. \A y \in T : lo + n <= y
  <2>1. ASSUME NEW y \in T PROVE lo + n <= y
    <3>1. y - lo \in Nat /\ lo + (y - lo) = y
      BY <2>1
    <3>2. y - lo \in D
      BY <2>1, <3>1
    <3>3. n <= y - lo
      BY <1>2, <3>2
    <3>4. QED
      BY <1>3, <3>1, <3>3
  <2>2. QED
    BY <2>1
<1>5. \E x \in T : \A y \in T : x <= y
  BY <1>3, <1>4
<1>6. QED
  BY <1>5 DEF Least

LEMMA GreatestInt ==
  ASSUME NEW T \in SUBSET Int, T # {}, NEW hi \in Int, \A y \in T : y <= hi
  PROVE  Greatest(T) \in T /\ \A y \in T : y <= Greatest(T)
<1> DEFINE D == {n \in Nat : hi - n \in T}
<1>1. D \in SUBSET Nat /\ D # {}
  <2>1. PICK y \in T : y <= hi
    OBVIOUS
  <2>2. hi - y \in Nat /\ hi - (hi - y) = y
    BY <2>1
  <2>3. QED
    BY <2>1, <2>2
<1>2. PICK n \in D : \A m \in D : n <= m
  BY <1>1, LeastOf
<1>3. hi - n \in T /\ n \in Nat
  BY <1>2
<1>4. \A y \in T : hi - n >= y
  <2>1. ASSUME NEW y \in T PROVE hi - n >= y
    <3>1. hi - y \in Nat /\ hi - (hi - y) = y
      BY <2>1
    <3>2. hi - y \in D
      BY <2>1, <3>1
    <3>3. n <= hi - y
      BY <1>2, <3>2
    <3>4. QED
      BY <1>3, <3>1, <3>3
  <2>2. QED
    BY <2>1
<1>5. \E x \in T : \A y \in T : x >= y
  BY <1>3, <1>4
<1>6. Greatest(T) \in T /\ \A y \in T : Greatest(T) >= y
  BY <1>5 DEF Greatest
<1>7. QED
  BY <1>6

LEMMA BarIs ==
  ASSUME NEW b \in Seq(OneBar), NEW k \in 1 .. Len(b)
  PROVE  b[k] \in OneBar /\ b[k].o \in Int /\ b[k].h \in Int /\ b[k].l \in Int /\ b[k].c \in Int
<1>1. b[k] \in OneBar
  OBVIOUS
<1>2. QED
  BY <1>1 DEF OneBar

LEMMA Cover ==
  ASSUME NEW x \in Int, NEW y \in Int, NEW w \in Nat
  PROVE  \E v \in Nat : v >= w /\ -v <= x /\ y <= v
<1> DEFINE p == High2(-x, y)
           v == High2(p, w)
<1>1. p \in Int /\ -x <= p /\ y <= p
  BY DEF High2
<1> HIDE DEF p
<1>2. v \in Int /\ p <= v /\ w <= v
  BY <1>1 DEF High2
<1> HIDE DEF v
<1>3. v \in Nat /\ v >= w /\ -v <= x /\ y <= v
  BY <1>1, <1>2
<1>4. QED
  BY <1>3

\* A series of bars stays within some bounds.
Within(b, n, w) == \A k \in 1 .. n : -w <= b[k].l /\ b[k].h <= w
LEMMA Bounds ==
  ASSUME NEW b \in Seq(OneBar)
  PROVE  \E w \in Nat : Within(b, Len(b), w)
<1> DEFINE bad == {n \in 0 .. Len(b) : ~\E w \in Nat : Within(b, n, w)}
<1>1. Len(b) \in Nat
  OBVIOUS
<1>2. SUFFICES ASSUME bad # {} PROVE FALSE
  BY <1>1
<1> DEFINE n == Min(bad)
<1>3. n \in bad /\ \A k \in bad : n <= k
  <2>1. bad \in SUBSET Nat
    BY <1>1
  <2>2. QED
    BY <1>2, <2>1, LeastOf
<1> HIDE DEF n
<1>4. n \in 0 .. Len(b) /\ ~\E w \in Nat : Within(b, n, w)
  BY <1>3
<1>5. CASE n = 0
  <2>1. Within(b, 0, 0)
    BY DEF Within
  <2>2. QED
    BY <1>4, <1>5, <2>1
<1>6. CASE n # 0
  <2>1. n - 1 \in 0 .. Len(b) /\ ~(n <= n - 1)
    BY <1>1, <1>4, <1>6
  <2>2. PICK w \in Nat : Within(b, n - 1, w)
    BY <1>3, <2>1
  <2>3. b[n].l \in Int /\ b[n].h \in Int /\ n \in Nat
    <3>1. n \in 1 .. Len(b) /\ n \in Nat
      BY <1>1, <1>4, <1>6
    <3>2. QED
      BY <3>1, BarIs
  <2>4. PICK v \in Nat : v >= w /\ -v <= b[n].l /\ b[n].h <= v
    BY <2>3, Cover
  <2>5. \A k \in 1 .. n - 1 : b[k].l \in Int /\ b[k].h \in Int
    <3>1. \A k \in 1 .. n - 1 : k \in 1 .. Len(b)
      BY <1>1, <1>4
    <3>2. QED
      BY <3>1, BarIs
  <2>6. Within(b, n, v)
    <3>1. ASSUME NEW k \in 1 .. n PROVE -v <= b[k].l /\ b[k].h <= v
      <4>1. CASE k = n
        BY <2>4, <4>1
      <4>2. CASE k # n
        <5>1. k \in 1 .. n - 1
          BY <2>3, <4>2
        <5>2. -w <= b[k].l /\ b[k].h <= w /\ b[k].l \in Int /\ b[k].h \in Int
          BY <2>2, <2>5, <5>1 DEF Within
        <5>3. QED
          BY <2>4, <5>2
      <4>3. QED
        BY <4>1, <4>2
    <3>2. QED
      BY <3>1 DEF Within
  <2>7. QED
    BY <1>4, <2>6
<1>7. QED
  BY <1>5, <1>6

LEMMA Extremes ==
  ASSUME NEW b \in Seq(OneBar), NEW S \in SUBSET (1 .. Len(b)), S # {}
  PROVE  /\ Least({b[j].l : j \in S}) \in {b[j].l : j \in S} /\ Least({b[j].l : j \in S}) \in Int
         /\ \A j \in S : Least({b[i].l : i \in S}) <= b[j].l
         /\ Greatest({b[j].h : j \in S}) \in {b[j].h : j \in S} /\ Greatest({b[j].h : j \in S}) \in Int
         /\ \A j \in S : b[j].h <= Greatest({b[i].h : i \in S})
<1> DEFINE L == {b[j].l : j \in S}
           H == {b[j].h : j \in S}
<1>1. PICK w \in Nat : Within(b, Len(b), w)
  BY Bounds
<1>2. \A j \in S : b[j].l \in Int /\ b[j].h \in Int /\ -w <= b[j].l /\ b[j].h <= w
  BY <1>1, BarIs DEF Within
<1>3. L \in SUBSET Int /\ L # {} /\ \A y \in L : -w <= y
  BY <1>2
<1>4. H \in SUBSET Int /\ H # {} /\ \A y \in H : y <= w
  BY <1>2
<1>5. Least(L) \in L /\ \A y \in L : Least(L) <= y
  <2>1. -w \in Int
    OBVIOUS
  <2> HIDE DEF L
  <2>2. QED
    BY <1>3, <2>1, LeastInt
<1>6. Greatest(H) \in H /\ \A y \in H : y <= Greatest(H)
  <2>1. w \in Int
    OBVIOUS
  <2> HIDE DEF H
  <2>2. QED
    BY <1>4, <2>1, GreatestInt
<1>7. QED
  BY <1>3, <1>4, <1>5, <1>6

LEMMA SideIs ==
  ASSUME NEW d, NEW x \in Int, NEW e \in Int
  PROVE  Side(d, x) \in Int /\ Dist(d, e, x) \in Int /\ Dist(d, e, x) = Side(d, x) - Side(d, e)
BY DEF Dist, Side

LEMMA NearestIs ==
  ASSUME NEW d, NEW e \in Int, NEW T \in SUBSET Int, T # {}, \A x \in T : Dist(d, e, x) >= 0
  PROVE  Nearest(d, T) \in T /\ \A y \in T : Dist(d, e, Nearest(d, T)) <= Dist(d, e, y)
<1> DEFINE D == {Side(d, x) : x \in T}
           lo == Side(d, e)
<1>1. lo \in Int /\ \A x \in T : Side(d, x) \in Int
  BY SideIs
<1>2. \A x \in T : Dist(d, e, x) = Side(d, x) - lo
  BY SideIs
<1>3. D \in SUBSET Int /\ D # {} /\ \A y \in D : lo <= y
  <2>1. \A x \in T : lo <= Side(d, x)
    <3> HIDE DEF lo
    <3>1. QED
      BY <1>1, <1>2
  <2>2. QED
    BY <1>1, <2>1
<1>4. Least(D) \in D /\ \A y \in D : Least(D) <= y
  <2> HIDE DEF D, lo
  <2>1. QED
    BY <1>1, <1>3, LeastInt
<1>5. \E x \in T : \A y \in T : Side(d, x) <= Side(d, y)
  BY <1>4
<1>6. Nearest(d, T) \in T /\ \A y \in T : Side(d, Nearest(d, T)) <= Side(d, y)
  BY <1>5 DEF Nearest
<1> DEFINE n == Nearest(d, T)
<1>7. n \in T /\ \A y \in T : Side(d, n) <= Side(d, y)
  BY <1>6
<1> HIDE DEF lo, n, D
<1>8. ASSUME NEW y \in T PROVE Dist(d, e, n) <= Dist(d, e, y)
  <2>1. Dist(d, e, n) = Side(d, n) - lo /\ Dist(d, e, y) = Side(d, y) - lo /\ Side(d, n) <= Side(d, y)
    BY <1>2, <1>7
  <2>2. Side(d, n) \in Int /\ Side(d, y) \in Int
    BY <1>1, <1>7
  <2>3. QED
    BY <1>1, <2>1, <2>2
<1>9. QED
  BY <1>7, <1>8 DEF n

LEMMA ProjectionInts ==
  ASSUME NEW t, t.disp \in Int, t.extreme \in Int, NEW n \in Nat
  PROVE  Projection(t, n) \in SUBSET Int
<1>1. Leg(t) \in Int
  BY DEF Leg, Gap
<1>2. n * Leg(t) \in Int
  BY <1>1
<1>3. (n * Leg(t)) \div 2 \in Int
  BY <1>2
<1>4. QED
  BY <1>3 DEF Projection, Side

\* The conclusions about one plan, whatever it was made of.
Sane(t, tp1) ==
  /\ 0 < t.risk /\ 2 * t.risk <= SessionAtr /\ Side(t.dir, t.entry - t.sl) = t.risk
  /\ Dist(t.dir, t.entry, tp1) >= 3 * t.risk /\ 5 * Dist(t.dir, t.entry, tp1) <= 2 * SessionAtr
  /\ \A lv \in t.objectives : Dist(t.dir, t.entry, lv) >= 3 * t.risk => Dist(t.dir, t.entry, lv) >= Dist(t.dir, t.entry, tp1)
  /\ \A lv \in Management(t) : Dist(t.dir, t.entry, lv) < Dist(t.dir, t.entry, tp1)
  /\ Dist(t.dir, t.entry, ServerTp(t, tp1)) >= Dist(t.dir, t.entry, tp1)

LEMMA LadderIsSane ==
  ASSUME NEW t, t.entry \in Int, t.sl \in Int, t.disp \in Int, t.extreme \in Int, t.objectives \in SUBSET Int,
         t.risk = Risk(t.dir, t.entry, t.sl), NEW traps, ~StopRefused(t.dir, t.entry, t.sl, traps), NEW tp1 \in Tp1(t)
  PROVE  Sane(t, tp1)
<1> DEFINE d == t.dir
           e == t.entry
           r == t.risk
           far == {lv \in Ahead(d, e, t.objectives) : ThreeR(d, e, r, lv)}
           found == {lv \in Deciding(t) : Reachable(d, e, lv)}
<1>1. Spread \in Nat /\ SessionAtr \in Nat /\ 0 < Spread
  BY LadderAssumption DEF LadderAssumption
<1>2. r \in Int /\ 0 < r /\ 4 * Spread <= r /\ 2 * r <= SessionAtr /\ Side(d, e - t.sl) = r
  <2>1. Risk(d, e, t.sl) \in Int /\ Side(d, e - t.sl) = Risk(d, e, t.sl)
    BY DEF Risk, Side
  <2>2. ~(r <= 0) /\ ~(r < 4 * Spread) /\ ~(2 * r > SessionAtr)
    BY DEF StopRefused
  <2>3. QED
    BY <1>1, <2>1, <2>2
<1>3. ASSUME NEW lv \in Int PROVE Dist(d, e, lv) \in Int
  BY DEF Dist, Side
<1>4. far \in SUBSET Int /\ \A lv \in far : Dist(d, e, lv) >= 3 * r /\ Dist(d, e, lv) >= 0
  BY <1>3 DEF Ahead, ThreeR
<1>5. \A lv \in t.objectives : Dist(d, e, lv) >= 3 * r => lv \in far
  BY <1>2, <1>3 DEF Ahead, ThreeR
<1>6. Deciding(t) = First(d, far)
  BY DEF Deciding
<1>7. far # {} => /\ Deciding(t) = {Nearest(d, far)} /\ Nearest(d, far) \in far
                  /\ \A y \in far : Dist(d, e, Nearest(d, far)) <= Dist(d, e, y)
  <2> HIDE DEF far
  <2>1. QED
    BY <1>4, <1>6, NearestIs DEF First
<1>8. far = {} => Deciding(t) = {}
  BY <1>6 DEF First
<1>9. Projection(t, 4) \in SUBSET Int /\ Projection(t, 5) \in SUBSET Int
  BY ProjectionInts
<1>10. /\ found # {} => tp1 \in found
       /\ found = {} => tp1 \in Projection(t, 4) /\ ThreeR(d, e, r, tp1) /\ Reachable(d, e, tp1)
  BY DEF Tp1
<1> HIDE DEF far
<1>11. tp1 \in Int /\ Dist(d, e, tp1) >= 3 * r /\ 5 * Dist(d, e, tp1) <= 2 * SessionAtr
  <2>1. CASE found # {}
    BY <1>4, <1>7, <1>8, <1>10, <2>1 DEF Reachable
  <2>2. CASE found = {}
    BY <1>9, <1>10, <2>2 DEF Reachable, ThreeR
  <2>3. QED
    BY <2>1, <2>2
<1>12. ASSUME NEW lv \in t.objectives, Dist(d, e, lv) >= 3 * r PROVE Dist(d, e, lv) >= Dist(d, e, tp1)
  <2>1. lv \in far /\ far # {}
    BY <1>5, <1>12
  <2> DEFINE n == Nearest(d, far)
  <2>2. n \in far /\ Dist(d, e, n) <= Dist(d, e, lv) /\ Deciding(t) = {n}
    BY <1>7, <2>1
  <2> HIDE DEF n
  <2>3. n \in Int /\ Dist(d, e, n) \in Int /\ Dist(d, e, n) >= 3 * r /\ Dist(d, e, lv) \in Int /\ Dist(d, e, tp1) \in Int
    BY <1>3, <1>4, <1>11, <2>2
  <2>4. CASE found # {}
    BY <1>10, <2>2, <2>4
  <2>5. CASE found = {}
    <3>1. ~Reachable(d, e, n)
      BY <2>2, <2>5
    <3>2. Dist(d, e, n) >= 10 * Spread
      BY <1>1, <1>2, <2>3
    <3>3. 5 * Dist(d, e, n) > 2 * SessionAtr
      BY <1>1, <2>3, <3>1, <3>2 DEF Reachable
    <3>4. QED
      BY <1>1, <1>11, <2>2, <2>3, <3>3
  <2>6. QED
    BY <2>4, <2>5
<1>13. ASSUME NEW lv \in Management(t) PROVE Dist(d, e, lv) < Dist(d, e, tp1)
  <2> DEFINE A == Ahead(d, e, t.objectives)
  <2>1. lv \in First(d, A) /\ ~ThreeR(d, e, r, lv)
    BY DEF Management
  <2>2. A \in SUBSET Int /\ \A x \in A : Dist(d, e, x) >= 0
    BY <1>3 DEF Ahead
  <2> HIDE DEF A
  <2>3. lv \in A
    <3>1. A # {} /\ lv = Nearest(d, A)
      BY <2>1 DEF First
    <3>2. QED
      BY <2>2, <3>1, NearestIs
  <2>4. Dist(d, e, lv) \in Int /\ Dist(d, e, tp1) \in Int /\ ~(Dist(d, e, lv) >= 3 * r)
    BY <1>3, <1>11, <2>1, <2>2, <2>3 DEF ThreeR
  <2>5. QED
    BY <1>2, <1>11, <2>4
<1>14. \A lv \in Tp2(t, tp1) : lv \in Int /\ Dist(d, e, lv) > Dist(d, e, tp1)
  <2> DEFINE past(lv) == Dist(d, e, lv) > Dist(d, e, tp1) /\ 2 * Dist(d, e, lv) >= 7 * r
             next == {lv \in t.objectives : past(lv) /\ Dist(d, e, lv) >= 10 * Spread}
  <2>1. Tp2(t, tp1) = IF next # {} THEN First(d, next) ELSE {lv \in Projection(t, 5) : past(lv)}
    BY Zenon DEF Tp2
  <2>2. next \in SUBSET Int /\ \A lv \in next : Dist(d, e, lv) >= 0 /\ Dist(d, e, lv) > Dist(d, e, tp1)
    BY <1>2, <1>3, <1>11
  <2>3. CASE next # {}
    <3> HIDE DEF next
    <3>1. Tp2(t, tp1) = {Nearest(d, next)} /\ Nearest(d, next) \in next
      BY <2>1, <2>2, <2>3, NearestIs DEF First
    <3>2. QED
      BY <2>2, <3>1
  <2>4. CASE next = {}
    <3>1. \A lv \in Tp2(t, tp1) : lv \in Projection(t, 5) /\ past(lv)
      BY <2>1, <2>4
    <3>2. QED
      BY <1>9, <3>1
  <2>5. QED
    BY <2>3, <2>4
<1>15. Dist(d, e, ServerTp(t, tp1)) >= Dist(d, e, tp1)
  <2>1. CASE Tp2(t, tp1) = {}
    BY <1>3, <1>11, <2>1 DEF ServerTp
  <2>2. CASE Tp2(t, tp1) # {}
    <3>1. ServerTp(t, tp1) \in Tp2(t, tp1)
      BY <2>2 DEF ServerTp
    <3>2. QED
      BY <1>3, <1>11, <1>14, <3>1
  <2>3. QED
    BY <2>1, <2>2
<1>16. QED
  BY <1>2, <1>11, <1>12, <1>13, <1>15 DEF Sane

\* What the plan reads of the chart is made of prices.
LEMMA SinceInts ==
  ASSUME NEW b \in Seq(OneBar), NEW i \in 1 .. Len(b), NEW d
  PROVE  ExtremeSince(b, i, d) \in Int
<1> DEFINE S == i .. Len(b)
<1>1. S \in SUBSET (1 .. Len(b)) /\ S # {}
  OBVIOUS
<1> HIDE DEF S
<1>2. Least({b[k].l : k \in S}) \in Int /\ Greatest({b[k].h : k \in S}) \in Int
  BY <1>1, Extremes
<1>3. QED
  BY <1>2 DEF ExtremeSince, S

LEMMA AnchorInts ==
  ASSUME NEW d, NEW x \in OneBar, NEW extreme \in Int, NEW atr
  PROVE  Anchor(d, x, extreme, atr) \in Int /\ StopAt(d, Anchor(d, x, extreme, atr)) \in Int
<1>1. x.o \in Int /\ x.h \in Int /\ x.l \in Int /\ x.c \in Int
  BY DEF OneBar
<1>2. Bot(x) \in Int /\ Top(x) \in Int
  BY <1>1 DEF Bot, Top, Low2, High2
<1>3. RaidWick(d, x) \in Int
  BY <1>1, <1>2 DEF RaidWick
<1>4. RaidWick(d, x) \div 2 \in Int
  BY <1>3
<1>5. extreme + Side(d, RaidWick(d, x) \div 2) \in Int
  BY <1>4, SideIs
<1>6. Anchor(d, x, extreme, atr) \in Int
  BY <1>5 DEF Anchor
<1>7. Spread + Safety \in Int
  BY LadderAssumption DEF LadderAssumption
<1>8. Side(d, Spread + Safety) \in Int
  BY <1>7, SideIs
<1>9. QED
  BY <1>6, <1>8 DEF StopAt

LEMMA LevelInts ==
  ASSUME NEW b \in Seq(OneBar)
  PROVE  LiveLevels(b) \in SUBSET Int
<1>1. SwingHighs(b) \subseteq 1 .. Len(b) /\ SwingLows(b) \subseteq 1 .. Len(b)
  BY DEF SwingHighs, SwingLows, Inner
<1>2. \A k \in 1 .. Len(b) : b[k].h \in Int /\ b[k].l \in Int
  BY BarIs
<1>3. QED
  BY <1>1, <1>2 DEF LiveLevels

LEMMA EdgeInts ==
  ASSUME NEW b \in Seq(OneBar), NEW d
  PROVE  OpposingEdges(b, d) \in SUBSET Int
<1>1. \A z \in Fvgs(b) : z.low \in Int /\ z.high \in Int
  <2>1. \A m \in Inner(b) : m - 1 \in 1 .. Len(b) /\ m + 1 \in 1 .. Len(b)
    BY DEF Inner
  <2>2. \A m \in Inner(b) : b[m - 1].h \in Int /\ b[m - 1].l \in Int /\ b[m + 1].h \in Int /\ b[m + 1].l \in Int
    BY <2>1, BarIs
  <2>3. QED
    BY <2>2 DEF Fvgs, Zone
<1>2. ASSUME NEW z \in OrderBlocks(b) PROVE z.low \in Int /\ z.high \in Int
  <2>1. PICK i \in Inner(b) : OrderBlockAt(b, i) /\ z = OrderBlock(b, i)
    BY DEF OrderBlocks
  <2> DEFINE s == CisdStart(b, i, Way(b[i]))
             S == s .. i - 1
  <2>2. i \in Nat /\ s \in 1 .. i - 1 /\ i <= Len(b)
    <3>1. i \in Nat /\ i <= Len(b)
      BY DEF Inner
    <3>2. s # 0
      BY <2>1 DEF OrderBlockAt
    <3>3. QED
      BY <3>1, <3>2, CisdIs
  <2>3. z.low = Least({b[j].l : j \in S}) /\ z.high = Greatest({b[j].h : j \in S})
    BY <2>1 DEF OrderBlock, Zone
  <2> HIDE DEF s
  <2>4. S \in SUBSET (1 .. Len(b)) /\ S # {}
    <3>1. Len(b) \in Nat
      OBVIOUS
    <3>2. s \in S
      BY <2>2
    <3>3. \A j \in S : j \in 1 .. Len(b)
      BY <2>2, <3>1
    <3>4. QED
      BY <3>2, <3>3
  <2> HIDE DEF S
  <2>5. QED
    BY <2>3, <2>4, Extremes
<1>3. QED
  BY <1>1, <1>2 DEF OpposingEdges

LEMMA SetupInts ==
  ASSUME NEW b \in Seq(OneBar), NEW i \in 1 .. Len(b) - 1, NEW d, NEW t, t = Setup(b, i, d)
  PROVE  /\ t.entry \in Int /\ t.sl \in Int /\ t.disp \in Int /\ t.extreme \in Int /\ t.objectives \in SUBSET Int
         /\ t.risk = Risk(t.dir, t.entry, t.sl)
<1> DEFINE x == ExtremeSince(b, i, d)
           atr == [sum |-> AtrSum(b, Len(b)), len |-> AtrLen(Len(b))]
           stop == StopAt(d, Anchor(d, b[i], x, atr))
<1>1. i \in 1 .. Len(b) /\ Len(b) \in 1 .. Len(b)
  OBVIOUS
<1>2. x \in Int /\ ExtremeSince(b, i, Against(d)) \in Int
  BY <1>1, SinceInts
<1>3. b[i] \in OneBar /\ b[Len(b)].c \in Int
  BY <1>1, BarIs
<1>4. stop \in Int
  <2> HIDE DEF x, atr
  <2>1. QED
    BY <1>2, <1>3, AnchorInts
<1>5. EntryPrice(b, d) \in Int
  BY <1>3, LadderAssumption DEF EntryPrice, LadderAssumption
<1>6. LiveLevels(b) \cup OpposingEdges(b, d) \in SUBSET Int
  BY LevelInts, EdgeInts
<1>7. /\ t.dir = d /\ t.entry = EntryPrice(b, d) /\ t.sl = stop /\ t.risk = Risk(d, EntryPrice(b, d), stop)
      /\ t.extreme = x /\ t.disp = ExtremeSince(b, i, Against(d)) /\ t.objectives = LiveLevels(b) \cup OpposingEdges(b, d)
  BY DEF Setup
<1>8. QED
  BY <1>2, <1>4, <1>5, <1>6, <1>7

\* executor/stoploss.py and targets.py: every plan made of any chart has a stop behind its
\* entry and a first target of three risks within reach, no level of three risks nearer than
\* it, the level the management watches short of it and the target at the broker not.
THEOREM PlanHolds == Spec => []PlanIsSane
<1>1. BarsType => PlanIsSane
  <2> SUFFICES ASSUME BarsType, NEW t \in Setups(bars), NEW tp1 \in Tp1(t) PROVE Sane(t, tp1)
    BY DEF PlanIsSane, Sane
  <2>1. bars \in Seq(OneBar)
    BY DEF BarsType
  <2>2. PICK i \in 1 .. Len(bars) - 1, d \in {"buy", "sell"} : t = Setup(bars, i, d)
    BY DEF Setups
  <2>3. ~StopRefused(t.dir, t.entry, t.sl, LiveLevels(bars))
    BY DEF Setups
  <2>4. QED
    BY <2>1, <2>2, <2>3, SetupInts, LadderIsSane
<1>2. QED
  BY <1>1, BarsTyped, PTL
=============================================================================
