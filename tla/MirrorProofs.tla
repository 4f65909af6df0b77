---------------------------- MODULE MirrorProofs -----------------------------
(***************************************************************************)
(* Buying and selling are mirror images: each detector, given the chart    *)
(* upside down, finds what it finds in the chart turned over.  It is       *)
(* enough to show it one way, for any two charts that mirror each other.   *)
(***************************************************************************)
EXTENDS DataProofs
-----------------------------------------------------------------------------
(* Sums over finite sets: the fold is unrolled once, and its value bounded by *)
(* a smallest set for which the bound would fail.                             *)
SumAt(f, g, s) == IF s = {} THEN 0 ELSE f[CHOOSE x \in s : TRUE] + g[s \ {CHOOSE x \in s : TRUE}]
SumTo(D, f, g) == g = [s \in D |-> SumAt(f, g, s)]
UpTo(S, n) == {s \in SUBSET S : Cardinality(s) <= n}

LEMMA SumChosen ==
  ASSUME NEW f
  PROVE  SumFunction(f) = (CHOOSE g : SumTo(SUBSET DOMAIN f, f, g))[DOMAIN f]
BY DEF SumFunction, SumFunctionOnSet, FoldFunctionOnSet, MapThenFoldSet, SumTo, SumAt

LEMMA Smaller ==
  ASSUME NEW S, IsFiniteSet(S), NEW s \in SUBSET S, s # {}
  PROVE  LET x == CHOOSE y \in s : TRUE
         IN /\ x \in s /\ s \ {x} \in SUBSET S /\ Cardinality(s) \in Nat /\ Cardinality(s) # 0
            /\ Cardinality(s \ {x}) = Cardinality(s) - 1
<1> DEFINE x == CHOOSE y \in s : TRUE
<1>1. x \in s
  OBVIOUS
<1> HIDE DEF x
<1>2. IsFiniteSet(s)
  BY FS_Subset
<1>3. Cardinality(s) \in Nat /\ Cardinality(s) # 0
  BY <1>2, FS_CardinalityType, FS_EmptySet
<1>4. Cardinality(s \ {x}) = Cardinality(s) - 1
  BY <1>1, <1>2, FS_RemoveElement
<1>5. QED
  BY <1>1, <1>3, <1>4 DEF x

LEMMA SumExists ==
  ASSUME NEW S, IsFiniteSet(S), NEW f
  PROVE  \E g : SumTo(SUBSET S, f, g)
<1> DEFINE N == Cardinality(S)
           P(n) == \E g : SumTo(UpTo(S, n), f, g)
           bad == {n \in 0 .. N : ~P(n)}
<1>1. N \in Nat /\ UpTo(S, N) = SUBSET S
  <2>1. N \in Nat /\ \A s \in SUBSET S : Cardinality(s) <= N
    BY FS_CardinalityType, FS_Subset
  <2>2. QED
    BY <2>1 DEF UpTo
<1>2. SUFFICES ASSUME bad # {} PROVE FALSE
  <2>1. bad = {} => P(N)
    BY <1>1
  <2>2. QED
    BY <1>1, <1>2, <2>1
<1>3. bad \in SUBSET Nat
  BY <1>1
<1> DEFINE n == Min(bad)
<1>4. n \in bad /\ \A k \in bad : n <= k
  BY <1>2, <1>3, LeastOf
<1> HIDE DEF n
<1>5. n \in 0 .. N /\ ~P(n) /\ n \in Nat
  BY <1>1, <1>4
<1>6. n # 0
  <2> SUFFICES ASSUME n = 0 PROVE FALSE
    OBVIOUS
  <2> DEFINE g == [s \in UpTo(S, 0) |-> 0]
  <2>1. \A s \in UpTo(S, 0) : s = {}
    <3>1. ASSUME NEW s \in UpTo(S, 0), s # {} PROVE FALSE
      <4>1. s \in SUBSET S /\ Cardinality(s) <= 0
        BY DEF UpTo
      <4>2. Cardinality(s) \in Nat /\ Cardinality(s) # 0
        BY <3>1, <4>1, Smaller
      <4>3. QED
        BY <4>1, <4>2
    <3>2. QED
      BY <3>1
  <2>2. \A s \in UpTo(S, 0) : SumAt(f, g, s) = 0
    BY <2>1 DEF SumAt
  <2>3. SumTo(UpTo(S, 0), f, g)
    BY <2>2, Zenon DEF SumTo
  <2>4. QED
    BY <1>5, <2>3
<1>7. P(n - 1)
  <2>1. n - 1 \in 0 .. N /\ ~(n <= n - 1)
    BY <1>1, <1>5, <1>6
  <2>2. QED
    BY <1>4, <2>1
<1>8. PICK h : SumTo(UpTo(S, n - 1), f, h)
  BY <1>7
<1> DEFINE D == UpTo(S, n)
           E == UpTo(S, n - 1)
           g == [s \in D |-> SumAt(f, h, s)]
<1>9. E \subseteq D
  <2>1. \A s \in SUBSET S : Cardinality(s) \in Nat
    BY FS_Subset, FS_CardinalityType
  <2>2. QED
    BY <1>5, <2>1 DEF UpTo
<1>10. \A s \in E : g[s] = h[s]
  <2>1. \A s \in E : h[s] = SumAt(f, h, s)
    BY <1>8 DEF SumTo
  <2>2. QED
    BY <1>9, <2>1
<1>11. \A s \in D : SumAt(f, h, s) = SumAt(f, g, s)
  <2>1. ASSUME NEW s \in D, s # {} PROVE SumAt(f, h, s) = SumAt(f, g, s)
    <3> DEFINE x == CHOOSE y \in s : TRUE
    <3>1. s \in SUBSET S /\ Cardinality(s) <= n
      BY DEF UpTo
    <3>2. s \ {x} \in SUBSET S /\ Cardinality(s) \in Nat /\ Cardinality(s \ {x}) = Cardinality(s) - 1
      BY <2>1, <3>1, Smaller
    <3>3. s \ {x} \in E
      BY <1>5, <3>1, <3>2 DEF UpTo
    <3>4. g[s \ {x}] = h[s \ {x}]
      BY <1>10, <3>3
    <3> HIDE DEF g
    <3>5. QED
      BY <3>4 DEF SumAt
  <2>2. ASSUME NEW s \in D, s = {} PROVE SumAt(f, h, s) = SumAt(f, g, s)
    BY <2>2 DEF SumAt
  <2>3. QED
    BY <2>1, <2>2
<1>12. SumTo(D, f, g)
  <2>1. g = [s \in D |-> SumAt(f, g, s)]
    BY <1>11, Zenon
  <2>2. QED
    BY <2>1 DEF SumTo
<1>13. QED
  BY <1>5, <1>12

\* A sum of naturals is at least each of them.
LEMMA SumCovers ==
  ASSUME NEW f, IsFiniteSet(DOMAIN f), \A x \in DOMAIN f : f[x] \in Nat
  PROVE  SumFunction(f) \in Nat /\ \A x \in DOMAIN f : f[x] <= SumFunction(f)
<1> DEFINE S == DOMAIN f
           g == CHOOSE g : SumTo(SUBSET S, f, g)
           Good(s) == g[s] \in Nat /\ \A x \in s : f[x] <= g[s]
           bad == {n \in 0 .. Cardinality(S) : \E s \in SUBSET S : Cardinality(s) = n /\ ~Good(s)}
<1>1. SumTo(SUBSET S, f, g)
  BY SumExists
<1>2. SumFunction(f) = g[S]
  BY SumChosen
<1> HIDE DEF g
<1>3. \A s \in SUBSET S : Cardinality(s) \in 0 .. Cardinality(S)
  BY FS_Subset, FS_CardinalityType
<1>4. SUFFICES ASSUME bad # {} PROVE FALSE
  <2>1. bad = {} => Good(S)
    BY <1>3
  <2>2. QED
    BY <1>2, <1>4, <2>1
<1>5. bad \in SUBSET Nat
  BY FS_CardinalityType
<1> DEFINE n == Min(bad)
<1>6. n \in bad /\ \A k \in bad : n <= k
  BY <1>4, <1>5, LeastOf
<1>7. PICK s \in SUBSET S : Cardinality(s) = n /\ ~Good(s)
  BY <1>6
<1> HIDE DEF n
<1>8. g[s] = SumAt(f, g, s)
  BY <1>1 DEF SumTo
<1>9. s # {}
  BY <1>7, <1>8 DEF SumAt
<1> DEFINE x == CHOOSE y \in s : TRUE
           r == s \ {x}
<1>10. x \in s /\ r \in SUBSET S /\ Cardinality(s) \in Nat /\ Cardinality(r) = Cardinality(s) - 1
  BY <1>9, Smaller
<1>11. g[s] = f[x] + g[r]
  BY <1>8, <1>9 DEF SumAt
<1> HIDE DEF x
<1>12. Good(r)
  <2>1. Cardinality(r) \in 0 .. Cardinality(S) /\ ~(n <= Cardinality(r))
    BY <1>3, <1>7, <1>10
  <2> HIDE DEF r, Good
  <2>2. Cardinality(r) \notin bad
    BY <1>6, <2>1
  <2>3. QED
    BY <1>10, <2>1, <2>2
<1>13. f[x] \in Nat
  BY <1>10
<1>14. ASSUME NEW y \in s PROVE f[y] <= g[s] /\ g[s] \in Nat
  <2>1. CASE y = x
    BY <1>11, <1>12, <1>13, <2>1
  <2>2. CASE y # x
    <3>1. y \in r /\ f[y] \in Nat
      BY <2>2
    <3>2. QED
      BY <1>11, <1>12, <1>13, <3>1
  <2>3. QED
    BY <2>1, <2>2
<1>15. QED
  BY <1>7, <1>10, <1>14
-----------------------------------------------------------------------------
(* The chart upside down.                                                    *)
ProperBars(b) == \A i \in 1 .. Len(b) : Proper(b[i])

\* Two charts of which each is the other upside down.
Flip(b, m) ==
  /\ b \in Seq(OneBar) /\ m \in Seq(OneBar) /\ Len(m) = Len(b) /\ ProperBars(b) /\ ProperBars(m)
  /\ \A i \in 1 .. Len(b) : m[i].o = -b[i].o /\ m[i].h = -b[i].l /\ m[i].l = -b[i].h /\ m[i].c = -b[i].c

LEMMA FlippedBar ==
  ASSUME NEW b, NEW m, Flip(b, m), NEW i \in 1 .. Len(b)
  PROVE  /\ b[i].o \in Int /\ b[i].h \in Int /\ b[i].l \in Int /\ b[i].c \in Int
         /\ m[i].o \in Int /\ m[i].h \in Int /\ m[i].l \in Int /\ m[i].c \in Int
         /\ m[i].o = -b[i].o /\ m[i].h = -b[i].l /\ m[i].l = -b[i].h /\ m[i].c = -b[i].c
         /\ b[i].l <= b[i].h
<1>1. i \in 1 .. Len(m) /\ b \in Seq(OneBar) /\ m \in Seq(OneBar)
  BY DEF Flip
<1>2. /\ b[i].o \in Int /\ b[i].h \in Int /\ b[i].l \in Int /\ b[i].c \in Int
      /\ m[i].o \in Int /\ m[i].h \in Int /\ m[i].l \in Int /\ m[i].c \in Int
  BY <1>1, BarIs
<1>3. b[i].l <= b[i].h
  <2>1. Proper(b[i])
    BY DEF Flip, ProperBars
  <2>2. QED
    BY <1>2, <2>1 DEF Proper, Bot, Top, Low2, High2
<1>4. QED
  BY <1>2, <1>3 DEF Flip

LEMMA FlipBack ==
  ASSUME NEW b, NEW m, Flip(b, m)
  PROVE  Flip(m, b)
<1>1. ASSUME NEW i \in 1 .. Len(m)
      PROVE  b[i].o = -m[i].o /\ b[i].h = -m[i].l /\ b[i].l = -m[i].h /\ b[i].c = -m[i].c
  <2>1. i \in 1 .. Len(b)
    BY DEF Flip
  <2>2. /\ b[i].o \in Int /\ b[i].h \in Int /\ b[i].l \in Int /\ b[i].c \in Int
        /\ m[i].o = -b[i].o /\ m[i].h = -b[i].l /\ m[i].l = -b[i].h /\ m[i].c = -b[i].c
    BY <2>1, FlippedBar
  <2>3. QED
    BY <2>2
<1>2. QED
  BY <1>1 DEF Flip

LEMMA MirrorFlips ==
  ASSUME NEW b \in Seq(OneBar), ProperBars(b)
  PROVE  Flip(b, Mirrored(b))
<1> DEFINE m == Mirrored(b)
           turn(x) == [o |-> -x.o, h |-> -x.l, l |-> -x.h, c |-> -x.c]
<1>1. Len(b) \in Nat /\ m = [i \in 1 .. Len(b) |-> turn(b[i])]
  BY DEF Mirrored
<1>2. \A i \in 1 .. Len(b) : turn(b[i]) \in OneBar
  <2>1. ASSUME NEW i \in 1 .. Len(b) PROVE turn(b[i]) \in OneBar
    <3>1. b[i].o \in Int /\ b[i].h \in Int /\ b[i].l \in Int /\ b[i].c \in Int
      BY BarIs
    <3>2. -b[i].o \in Int /\ -b[i].l \in Int /\ -b[i].h \in Int /\ -b[i].c \in Int
      BY <3>1
    <3>3. QED
      BY <3>2 DEF OneBar
  <2>2. QED
    BY <2>1
<1>3. m \in Seq(OneBar) /\ Len(m) = Len(b)
  <2> HIDE DEF turn, m
  <2>1. QED
    BY <1>1, <1>2
<1>4. \A i \in 1 .. Len(b) : m[i] = turn(b[i])
  BY <1>1
<1>5. \A i \in 1 .. Len(b) : m[i].o = -b[i].o /\ m[i].h = -b[i].l /\ m[i].l = -b[i].h /\ m[i].c = -b[i].c
  <2>1. \A x : turn(x).o = -x.o /\ turn(x).h = -x.l /\ turn(x).l = -x.h /\ turn(x).c = -x.c
    OBVIOUS
  <2> HIDE DEF m, turn
  <2>2. QED
    BY <1>4, <2>1
<1>6. ProperBars(m)
  <2>1. ASSUME NEW i \in 1 .. Len(b) PROVE Proper(m[i])
    <3>1. b[i].o \in Int /\ b[i].h \in Int /\ b[i].l \in Int /\ b[i].c \in Int
      BY BarIs
    <3>2. Proper(b[i])
      BY DEF ProperBars
    <3>3. m[i].o = -b[i].o /\ m[i].h = -b[i].l /\ m[i].l = -b[i].h /\ m[i].c = -b[i].c
      BY <1>5
    <3> HIDE DEF m, turn
    <3>4. QED
      BY <3>1, <3>2, <3>3 DEF Proper, Top, Bot, Low2, High2
  <2>2. QED
    BY <1>3, <2>1 DEF ProperBars
<1> HIDE DEF m
<1>7. QED
  BY <1>3, <1>5, <1>6 DEF Flip, m

LEMMA FlippedBody ==
  ASSUME NEW b, NEW m, Flip(b, m), NEW i \in 1 .. Len(b)
  PROVE  /\ Bot(b[i]) \in Int /\ Top(b[i]) \in Int /\ Bot(m[i]) = -Top(b[i]) /\ Top(m[i]) = -Bot(b[i])
         /\ Body(m[i]) = Body(b[i]) /\ Body(b[i]) \in Nat
         /\ (Bull(m[i]) <=> Bear(b[i])) /\ (Bear(m[i]) <=> Bull(b[i]))
         /\ Body(b[i]) > 0 => Way(m[i]) = Against(Way(b[i])) /\ Body(b[i]) <= b[i].h - b[i].l
         /\ Way(b[i]) \in Dirs
<1>1. /\ b[i].o \in Int /\ b[i].h \in Int /\ b[i].l \in Int /\ b[i].c \in Int
      /\ m[i].o = -b[i].o /\ m[i].c = -b[i].c
  BY FlippedBar
<1>2. Proper(b[i])
  BY DEF Flip, ProperBars
<1>3. Bot(b[i]) \in Int /\ Top(b[i]) \in Int /\ Bot(m[i]) = -Top(b[i]) /\ Top(m[i]) = -Bot(b[i])
  BY <1>1 DEF Top, Bot, Low2, High2
<1>4. Body(m[i]) = Body(b[i]) /\ Body(b[i]) \in Nat
  BY <1>1 DEF Body, Gap
<1>5. (Bull(m[i]) <=> Bear(b[i])) /\ (Bear(m[i]) <=> Bull(b[i]))
  BY <1>1 DEF Bull, Bear
<1>6. Body(b[i]) > 0 => Way(m[i]) = Against(Way(b[i]))
  BY <1>1 DEF Body, Gap, Way, Against, Bull
<1>7. Body(b[i]) <= b[i].h - b[i].l
  BY <1>1, <1>2 DEF Proper, Body, Gap, Top, Bot, Low2, High2
<1>8. Way(b[i]) \in Dirs
  BY DEF Way, Dirs
<1>9. QED
  BY <1>3, <1>4, <1>5, <1>6, <1>7, <1>8

LEMMA FlippedInner ==
  ASSUME NEW b, NEW m, Flip(b, m)
  PROVE  /\ Inner(m) = Inner(b) /\ Len(b) \in Nat /\ Len(m) = Len(b)
         /\ \A i \in Inner(b) : /\ i \in Nat /\ i >= 2 /\ i - 1 \in 1 .. Len(b) /\ i \in 1 .. Len(b)
                                /\ i + 1 \in 1 .. Len(b)
<1>1. Len(b) \in Nat /\ Len(m) = Len(b)
  BY DEF Flip
<1>2. QED
  BY <1>1 DEF Inner

LEMMA FlippedSwings ==
  ASSUME NEW b, NEW m, Flip(b, m)
  PROVE  SwingHighs(m) = SwingLows(b) /\ SwingLows(m) = SwingHighs(b)
<1>1. ASSUME NEW i \in Inner(b)
      PROVE  /\ m[i].h > m[i - 1].h /\ m[i].h > m[i + 1].h <=> b[i].l < b[i - 1].l /\ b[i].l < b[i + 1].l
             /\ m[i].l < m[i - 1].l /\ m[i].l < m[i + 1].l <=> b[i].h > b[i - 1].h /\ b[i].h > b[i + 1].h
  <2>1. i - 1 \in 1 .. Len(b) /\ i \in 1 .. Len(b) /\ i + 1 \in 1 .. Len(b)
    BY FlippedInner
  <2>2. \A k \in {i - 1, i, i + 1} : b[k].h \in Int /\ b[k].l \in Int /\ m[k].h = -b[k].l /\ m[k].l = -b[k].h
    BY <2>1, FlippedBar
  <2>3. QED
    BY <2>2
<1>2. QED
  BY <1>1, FlippedInner DEF SwingHighs, SwingLows

LEMMA FlippedGap ==
  ASSUME NEW b, NEW m, Flip(b, m), NEW d \in Dirs, NEW k
  PROVE  FvgAt(m, k, Against(d)) <=> FvgAt(b, k, d)
<1>1. ASSUME NEW i \in Inner(b) PROVE FvgAt(m, i, Against(d)) <=> FvgAt(b, i, d)
  <2>1. i - 1 \in 1 .. Len(b) /\ i + 1 \in 1 .. Len(b)
    BY FlippedInner
  <2>2. \A j \in {i - 1, i + 1} : b[j].h \in Int /\ b[j].l \in Int /\ m[j].h = -b[j].l /\ m[j].l = -b[j].h
    BY <2>1, FlippedBar
  <2>3. CASE d = "buy"
    BY <2>2, <2>3, FlippedInner DEF FvgAt, Against
  <2>4. CASE d = "sell"
    BY <2>2, <2>4, FlippedInner DEF FvgAt, Against
  <2>5. QED
    BY <2>3, <2>4 DEF Dirs
<1>2. k \notin Inner(b) => ~FvgAt(m, k, Against(d)) /\ ~FvgAt(b, k, d)
  BY FlippedInner DEF FvgAt
<1>3. QED
  BY <1>1, <1>2
-----------------------------------------------------------------------------
(* The mean range and the displacements, and what turning a zone over does.  *)
LEMMA GreatestOfThree ==
  ASSUME NEW x \in Int, NEW y \in Int, NEW z \in Int
  PROVE  LET g == Greatest({x, y, z}) IN g \in Int /\ x <= g /\ y <= g /\ z <= g
<1> DEFINE T == {x, y, z}
           hi == High2(High2(x, y), z)
<1>1. T \in SUBSET Int /\ T # {} /\ hi \in Int /\ \A k \in T : k <= hi
  BY DEF High2
<1>2. x \in T /\ y \in T /\ z \in T
  OBVIOUS
<1> HIDE DEF T, hi
<1>3. Greatest(T) \in T /\ \A k \in T : k <= Greatest(T)
  BY <1>1, GreatestInt
<1>4. QED
  BY <1>1, <1>2, <1>3 DEF T

LEMMA FlippedRange ==
  ASSUME NEW b, NEW m, Flip(b, m), NEW j \in 1 .. Len(b)
  PROVE  /\ TrueRange(m, j) = TrueRange(b, j) /\ TrueRange(b, j) \in Nat
         /\ b[j].h - b[j].l <= TrueRange(b, j)
<1>1. /\ b[j].h \in Int /\ b[j].l \in Int /\ m[j].h = -b[j].l /\ m[j].l = -b[j].h /\ b[j].l <= b[j].h
  BY FlippedBar
<1>2. CASE j = 1
  BY <1>1, <1>2 DEF TrueRange
<1>3. CASE j # 1
  <2> DEFINE p == b[j - 1].c
  <2>1. j - 1 \in 1 .. Len(b)
    BY <1>3
  <2>2. p \in Int /\ m[j - 1].c = -p
    BY <2>1, FlippedBar
  <2> DEFINE x == b[j].h - b[j].l
             y == Gap(b[j].h, p)
             z == Gap(b[j].l, p)
  <2>3. TrueRange(b, j) = Greatest({x, y, z})
    BY <1>3 DEF TrueRange
  <2>4. TrueRange(m, j) = Greatest({m[j].h - m[j].l, Gap(m[j].h, m[j - 1].c), Gap(m[j].l, m[j - 1].c)})
    BY <1>3 DEF TrueRange
  <2> HIDE DEF p
  <2>5. x \in Nat /\ x \in Int /\ y \in Int /\ z \in Int
    <3>1. x \in Nat
      BY <1>1
    <3>2. y \in Int /\ z \in Int
      BY <1>1, <2>2 DEF Gap
    <3>3. QED
      BY <3>1, <3>2
  <2>6. m[j].h - m[j].l = x /\ Gap(m[j].h, m[j - 1].c) = z /\ Gap(m[j].l, m[j - 1].c) = y
    BY <1>1, <2>2 DEF Gap
  <2> HIDE DEF x, y, z
  <2>7. {x, z, y} = {x, y, z}
    OBVIOUS
  <2>8. TrueRange(m, j) = TrueRange(b, j)
    BY <2>3, <2>4, <2>6, <2>7
  <2>9. TrueRange(b, j) \in Nat /\ x <= TrueRange(b, j)
    <3> DEFINE g == Greatest({x, y, z})
    <3>0. g \in Int /\ x <= g
      BY <2>5, GreatestOfThree
    <3>1. TrueRange(b, j) \in Int /\ x <= TrueRange(b, j)
      <4> HIDE DEF g
      <4>1. TrueRange(b, j) = g
        BY <2>3 DEF g
      <4>2. QED
        BY <3>0, <4>1
    <3>2. QED
      BY <2>5, <3>1
  <2>10. QED
    BY <2>8, <2>9 DEF x
<1>4. QED
  BY <1>2, <1>3

LEMMA WindowIs ==
  ASSUME NEW i \in Nat \ {0}
  PROVE  /\ AtrWindow(i) \subseteq 1 .. i /\ IsFiniteSet(AtrWindow(i)) /\ AtrLen(i) \in Nat
         /\ i >= 3 => i - 1 \in AtrWindow(i)
         /\ i >= 2 => i \in AtrWindow(i)
<1>1. AtrWindow(i) \subseteq 1 .. i
  BY AtrAssumption DEF AtrAssumption, AtrWindow, High2
<1>2. IsFiniteSet(AtrWindow(i))
  BY <1>1, FS_Interval, FS_Subset
<1>3. (i >= 3 => i - 1 \in AtrWindow(i)) /\ (i >= 2 => i \in AtrWindow(i))
  BY AtrAssumption DEF AtrAssumption, AtrWindow, High2
<1>4. QED
  BY <1>1, <1>2, <1>3, FS_CardinalityType DEF AtrLen

LEMMA FlippedAtr ==
  ASSUME NEW b, NEW m, Flip(b, m), NEW i \in 1 .. Len(b)
  PROVE  /\ AtrSum(m, i) = AtrSum(b, i) /\ AtrSum(b, i) \in Nat
         /\ \A j \in AtrWindow(i) : TrueRange(b, j) <= AtrSum(b, i)
<1> DEFINE W == AtrWindow(i)
           f == [j \in W |-> TrueRange(b, j)]
<1>1. W \subseteq 1 .. i /\ IsFiniteSet(W) /\ i \in Nat /\ Len(b) \in Nat
  BY WindowIs, FlippedInner
<1>2. \A j \in W : j \in 1 .. Len(b)
  BY <1>1
<1>3. \A j \in W : TrueRange(m, j) = TrueRange(b, j) /\ TrueRange(b, j) \in Nat
  BY <1>2, FlippedRange
<1> HIDE DEF W
<1>4. [j \in W |-> TrueRange(m, j)] = f
  BY <1>3
<1>5. AtrSum(m, i) = SumFunction(f) /\ AtrSum(b, i) = SumFunction(f)
  BY <1>4 DEF AtrSum, W
<1>6. DOMAIN f = W /\ \A j \in W : f[j] \in Nat /\ f[j] = TrueRange(b, j)
  BY <1>3
<1> HIDE DEF f
<1>7. SumFunction(f) \in Nat /\ \A j \in W : f[j] <= SumFunction(f)
  BY <1>1, <1>6, SumCovers
<1>8. QED
  BY <1>5, <1>6, <1>7 DEF W

\* A displacement has a body, so that it has a way, and it keeps the mean of the bar after it
\* from being nothing.
LEMMA FlippedDisplaced ==
  ASSUME NEW b, NEW m, Flip(b, m), NEW k
  PROVE  /\ Displaced(m, k) <=> Displaced(b, k)
         /\ Displaced(b, k) => k \in Inner(b) /\ Body(b[k]) > 0 /\ Way(m[k]) = Against(Way(b[k]))
<1>1. ASSUME NEW x, NEW y, Flip(x, y), Displaced(x, k)
      PROVE  k \in Inner(x) /\ Body(x[k]) > 0 /\ Way(y[k]) = Against(Way(x[k])) /\ Displaced(y, k)
  <2>1. k \in Inner(x) /\ k \in 1 .. Len(x) /\ k \in Nat \ {0}
    <3>1. k \in Inner(x)
      BY <1>1 DEF Displaced, FvgAt
    <3>2. QED
      BY <1>1, <3>1, FlippedInner
  <2>2. AtrSum(y, k) = AtrSum(x, k) /\ AtrSum(x, k) \in Nat /\ AtrLen(k) \in Nat
    BY <1>1, <2>1, FlippedAtr, WindowIs
  <2>3. Body(x[k]) \in Nat /\ Body(y[k]) = Body(x[k])
    BY <1>1, <2>1, FlippedBody
  <2>4. AtrSum(x, k) > 0 /\ Body(x[k]) * AtrLen(k) >= AtrSum(x, k)
    BY <1>1 DEF Displaced
  <2>5. Body(x[k]) # 0
    <3>1. 0 * AtrLen(k) = 0
      BY <2>2
    <3>2. QED
      BY <2>2, <2>4, <3>1
  <2>6. Body(x[k]) > 0
    BY <2>3, <2>5
  <2>7. Way(y[k]) = Against(Way(x[k])) /\ Way(x[k]) \in Dirs
    BY <1>1, <2>1, <2>6, FlippedBody
  <2>8. FvgAt(y, k, Way(y[k]))
    <3>1. FvgAt(x, k, Way(x[k]))
      BY <1>1 DEF Displaced
    <3>2. QED
      BY <1>1, <2>7, <3>1, FlippedGap
  <2>9. 5 * Body(y[k]) >= 3 * (y[k].h - y[k].l)
    <3>1. 5 * Body(x[k]) >= 3 * (x[k].h - x[k].l)
      BY <1>1 DEF Displaced
    <3>2. /\ x[k].h \in Int /\ x[k].l \in Int /\ y[k].h = -x[k].l /\ y[k].l = -x[k].h
      BY <1>1, <2>1, FlippedBar
    <3>3. y[k].h - y[k].l = x[k].h - x[k].l
      BY <3>2
    <3>4. QED
      BY <2>3, <3>1, <3>3
  <2>10. Displaced(y, k)
    BY <2>2, <2>3, <2>4, <2>8, <2>9 DEF Displaced
  <2>11. QED
    BY <2>1, <2>6, <2>7, <2>10
<1>2. QED
  BY <1>1, FlipBack

\* Zones are records with a direction and two edges.
Shaped(z) ==
  \E kind, i, p : \E d \in Dirs : \E lo, hi \in Int : z = Zone(kind, d, lo, hi, i, p)

LEMMA TurnedIs ==
  ASSUME NEW kind, NEW i, NEW p, NEW d, NEW lo, NEW hi
  PROVE  Turned(Zone(kind, d, lo, hi, i, p)) = Zone(kind, Against(d), -hi, -lo, i, p)
<1> DEFINE z == Zone(kind, d, lo, hi, i, p)
<1>1. z = [kind |-> kind, dir |-> d, low |-> lo, high |-> hi, idx |-> i, disp |-> p]
  BY DEF Zone
<1>2. z.dir = d /\ z.low = lo /\ z.high = hi
  BY <1>1
<1>3. Turned(z) = [z EXCEPT !.dir = Against(d), !.low = -hi, !.high = -lo]
  BY <1>2 DEF Turned
<1> DEFINE y == [z EXCEPT !.dir = Against(d)]
           x == [y EXCEPT !.low = -hi]
<1>4. y = [kind |-> kind, dir |-> Against(d), low |-> lo, high |-> hi, idx |-> i, disp |-> p]
  BY <1>1
<1>5. x = [kind |-> kind, dir |-> Against(d), low |-> -hi, high |-> hi, idx |-> i, disp |-> p]
  <2> HIDE DEF y
  <2>1. QED
    BY <1>4
<1>6. [x EXCEPT !.high = -lo] = [kind |-> kind, dir |-> Against(d), low |-> -hi, high |-> -lo, idx |-> i, disp |-> p]
  <2> HIDE DEF x
  <2>1. QED
    BY <1>5
<1>7. [z EXCEPT !.dir = Against(d), !.low = -hi, !.high = -lo] = [x EXCEPT !.high = -lo]
  OBVIOUS
<1>8. QED
  BY <1>3, <1>6, <1>7 DEF Zone

LEMMA TurnedTwice ==
  ASSUME NEW z, Shaped(z)
  PROVE  /\ Turned(Turned(z)) = z
         /\ z.dir \in Dirs /\ z.low \in Int /\ z.high \in Int
         /\ Turned(z).dir = Against(z.dir) /\ Turned(z).low = -z.high /\ Turned(z).high = -z.low
         /\ Turned(z).idx = z.idx /\ Turned(z).disp = z.disp /\ Turned(z).kind = z.kind
         /\ z.dir = "sell" <=> z.dir # "buy"
         /\ Against(z.dir) \in Dirs /\ Against(Against(z.dir)) = z.dir
<1>1. PICK kind, i, p : \E d \in Dirs : \E lo, hi \in Int : z = Zone(kind, d, lo, hi, i, p)
  BY DEF Shaped
<1>2. PICK d \in Dirs : \E lo, hi \in Int : z = Zone(kind, d, lo, hi, i, p)
  BY <1>1
<1>3. PICK lo \in Int, hi \in Int : z = Zone(kind, d, lo, hi, i, p)
  BY <1>2
<1>4. Turned(z) = Zone(kind, Against(d), -hi, -lo, i, p)
  BY <1>3, TurnedIs
<1>5. Turned(Turned(z)) = Zone(kind, Against(Against(d)), -(-lo), -(-hi), i, p)
  BY <1>4, TurnedIs
<1>6. Against(Against(d)) = d /\ Against(d) \in Dirs /\ -(-lo) = lo /\ -(-hi) = hi /\ (d = "sell" <=> d # "buy")
  BY DEF Against, Dirs
<1>7. z.dir = d /\ z.low = lo /\ z.high = hi /\ z.kind = kind /\ z.idx = i /\ z.disp = p
  BY <1>3 DEF Zone
<1>8. /\ Turned(z).dir = Against(d) /\ Turned(z).low = -hi /\ Turned(z).high = -lo
      /\ Turned(z).kind = kind /\ Turned(z).idx = i /\ Turned(z).disp = p
  BY <1>4 DEF Zone
<1>9. QED
  BY <1>3, <1>5, <1>6, <1>7, <1>8
-----------------------------------------------------------------------------
(* Gaps and breaks.                                                          *)
LEMMA ShapedIs ==
  ASSUME NEW kind, NEW i, NEW p, NEW d \in Dirs, NEW lo \in Int, NEW hi \in Int
  PROVE  Shaped(Zone(kind, d, lo, hi, i, p))
BY DEF Shaped

LEMMA Ways == Against("buy") = "sell" /\ Against("sell") = "buy" /\ Dirs = {"buy", "sell"}
BY DEF Against, Dirs

LEMMA FlippedGaps ==
  ASSUME NEW b, NEW m, Flip(b, m), NEW z \in Fvgs(b)
  PROVE  Shaped(z) /\ Turned(z) \in Fvgs(m)
<1>1. ASSUME NEW k \in Inner(b)
      PROVE  /\ b[k - 1].h \in Int /\ b[k - 1].l \in Int /\ m[k - 1].l = -b[k - 1].h /\ m[k - 1].h = -b[k - 1].l
             /\ b[k + 1].h \in Int /\ b[k + 1].l \in Int /\ m[k + 1].l = -b[k + 1].h /\ m[k + 1].h = -b[k + 1].l
             /\ k \in Inner(m)
  <2>1. k - 1 \in 1 .. Len(b) /\ k + 1 \in 1 .. Len(b) /\ k \in Inner(m)
    BY FlippedInner
  <2>2. QED
    BY <2>1, FlippedBar
<1>2. ASSUME NEW k \in Inner(b), FvgAt(b, k, "buy"), z = Zone("FVG", "buy", b[k - 1].h, b[k + 1].l, k, k)
      PROVE  Shaped(z) /\ Turned(z) \in Fvgs(m)
  <2>1. FvgAt(m, k, "sell")
    BY <1>2, FlippedGap, Ways
  <2>2. Turned(z) = Zone("FVG", "sell", m[k + 1].h, m[k - 1].l, k, k)
    BY <1>1, <1>2, TurnedIs, Ways
  <2>3. Shaped(z)
    BY <1>1, <1>2, ShapedIs, Ways
  <2>4. QED
    BY <1>1, <2>1, <2>2, <2>3 DEF Fvgs
<1>3. ASSUME NEW k \in Inner(b), FvgAt(b, k, "sell"), z = Zone("FVG", "sell", b[k + 1].h, b[k - 1].l, k, k)
      PROVE  Shaped(z) /\ Turned(z) \in Fvgs(m)
  <2>1. FvgAt(m, k, "buy")
    BY <1>3, FlippedGap, Ways
  <2>2. Turned(z) = Zone("FVG", "buy", m[k - 1].h, m[k + 1].l, k, k)
    BY <1>1, <1>3, TurnedIs, Ways
  <2>3. Shaped(z)
    BY <1>1, <1>3, ShapedIs, Ways
  <2>4. QED
    BY <1>1, <2>1, <2>2, <2>3 DEF Fvgs
<1>4. QED
  BY <1>2, <1>3 DEF Fvgs

LEMMA FlippedBreak ==
  ASSUME NEW b, NEW m, Flip(b, m), NEW d \in Dirs, NEW i \in 1 .. Len(b), NEW x \in BreakOf(b, i, d)
  PROVE  x.dir = d /\ x.idx = i /\ x = [idx |-> i, dir |-> d, swing |-> x.swing]
         /\ [idx |-> i, dir |-> Against(d), swing |-> x.swing] \in BreakOf(m, i, Against(d))
<1> DEFINE K(c, e) == {j \in Swings(c, e) : j + 2 <= i}
           g == Greatest(K(b, d))
<1>1. Swings(m, Against(d)) = Swings(b, d)
  BY FlippedSwings, Ways DEF Swings
<1>2. K(m, Against(d)) = K(b, d)
  BY <1>1
<1>3. \A c, e : BreakOf(c, i, e) =
        IF K(c, e) # {} /\ Through(c, e, i, Greatest(K(c, e)))
           /\ \A k \in Greatest(K(c, e)) + 2 .. i - 1 : ~Through(c, e, k, Greatest(K(c, e)))
        THEN {[idx |-> i, dir |-> e, swing |-> Greatest(K(c, e))]} ELSE {}
  BY Zenon DEF BreakOf, Through, Swings
<1>4. /\ K(b, d) # {} /\ Through(b, d, i, g) /\ \A k \in g + 2 .. i - 1 : ~Through(b, d, k, g)
      /\ x = [idx |-> i, dir |-> d, swing |-> g]
  <2> HIDE DEF K
  <2>1. QED
    BY <1>3
<1>5. g \in 2 .. Len(b) - 1 /\ i \in Nat /\ Len(b) \in Nat
  <2>1. b \in Seq(OneBar) /\ i \in Nat /\ Len(b) \in Nat
    BY FlippedInner DEF Flip
  <2>2. K(b, d) \subseteq 2 .. Len(b) - 1
    BY <2>1, SwingsIn
  <2> HIDE DEF K
  <2>3. K(b, d) \in SUBSET Nat /\ \A y \in K(b, d) : y <= Len(b)
    BY <2>1, <2>2
  <2>4. g \in K(b, d)
    BY <1>4, <2>1, <2>3, GreatestIn
  <2>5. QED
    BY <2>1, <2>2, <2>4
<1> HIDE DEF g
<1>6. ASSUME NEW k \in 1 .. Len(b) PROVE Through(m, Against(d), k, g) <=> Through(b, d, k, g)
  <2>1. /\ b[k].c \in Int /\ m[k].c = -b[k].c
        /\ b[g].h \in Int /\ b[g].l \in Int /\ m[g].h = -b[g].l /\ m[g].l = -b[g].h
    <3>1. g \in 1 .. Len(b)
      BY <1>5
    <3>2. QED
      BY <3>1, FlippedBar
  <2>2. CASE d = "buy"
    BY <2>1, <2>2, Ways DEF Through
  <2>3. CASE d = "sell"
    BY <2>1, <2>3, Ways DEF Through
  <2>4. QED
    BY <2>2, <2>3, Ways
<1>7. Through(m, Against(d), i, g) /\ \A k \in g + 2 .. i - 1 : ~Through(m, Against(d), k, g)
  <2>1. \A k \in g + 2 .. i - 1 : k \in 1 .. Len(b)
    BY <1>5
  <2>2. QED
    BY <1>4, <1>6, <2>1
<1>8. BreakOf(m, i, Against(d)) = {[idx |-> i, dir |-> Against(d), swing |-> g]}
  <2>1. K(m, Against(d)) # {} /\ Greatest(K(m, Against(d))) = g
    BY <1>2, <1>4 DEF g
  <2> HIDE DEF K
  <2>2. QED
    BY <1>3, <1>7, <2>1
<1>9. QED
  BY <1>4, <1>8

LEMMA FlippedBreaks ==
  ASSUME NEW b, NEW m, Flip(b, m), NEW x \in StructureBreaks(b)
  PROVE  LET y == [x EXCEPT !.dir = Against(x.dir)]
         IN /\ y \in StructureBreaks(m) /\ y.idx = x.idx /\ y.dir = Against(x.dir) /\ x.dir \in Dirs
            /\ [y EXCEPT !.dir = Against(y.dir)] = x
<1>1. b \in Seq(OneBar) /\ m \in Seq(OneBar) /\ Len(m) = Len(b)
  BY DEF Flip
<1>2. PICK i \in 1 .. Len(b) : \E d \in Dirs : x \in BreakOf(b, i, d)
  BY <1>1, BreaksAre, FoundIs
<1>3. PICK d \in Dirs : x \in BreakOf(b, i, d)
  BY <1>2
<1> DEFINE y == [idx |-> i, dir |-> Against(d), swing |-> x.swing]
<1>4. x.dir = d /\ x.idx = i /\ x = [idx |-> i, dir |-> d, swing |-> x.swing] /\ y \in BreakOf(m, i, Against(d))
  BY <1>3, FlippedBreak
<1>5. Against(d) \in Dirs /\ Against(Against(d)) = d
  BY Ways
<1>6. y \in StructureBreaks(m)
  BY <1>1, <1>4, <1>5, BreaksAre, FoundIs
<1>7. [x EXCEPT !.dir = Against(x.dir)] = y
  BY <1>4
<1>8. [y EXCEPT !.dir = Against(y.dir)] = [idx |-> i, dir |-> d, swing |-> x.swing]
  BY <1>5
<1>9. QED
  BY <1>4, <1>6, <1>7, <1>8
-----------------------------------------------------------------------------
(* Order blocks, and those that failed.                                       *)
\* The low and the high of some bars.
Lowest(b, S) == Least({b[j].l : j \in S})
Highest(b, S) == Greatest({b[j].h : j \in S})
LEMMA FlippedExtremes ==
  ASSUME NEW b, NEW m, Flip(b, m), NEW S \in SUBSET (1 .. Len(b)), S # {}
  PROVE  /\ Lowest(b, S) \in Int /\ Highest(b, S) \in Int
         /\ Highest(m, S) = -Lowest(b, S)
         /\ Lowest(m, S) = -Highest(b, S)
<1> DEFINE lo == Lowest(b, S)
           hi == Highest(b, S)
           mlo == Lowest(m, S)
           mhi == Highest(m, S)
<1>1. b \in Seq(OneBar) /\ m \in Seq(OneBar) /\ S \in SUBSET (1 .. Len(m))
  BY DEF Flip
<1>2. /\ lo \in Int /\ hi \in Int /\ (\E j \in S : lo = b[j].l) /\ (\E j \in S : hi = b[j].h)
      /\ \A j \in S : lo <= b[j].l /\ b[j].h <= hi
  BY <1>1, Extremes DEF Lowest, Highest
<1>3. /\ mlo \in Int /\ mhi \in Int /\ (\E j \in S : mlo = m[j].l) /\ (\E j \in S : mhi = m[j].h)
      /\ \A j \in S : mlo <= m[j].l /\ m[j].h <= mhi
  BY <1>1, Extremes DEF Lowest, Highest
<1>4. \A j \in S : b[j].l \in Int /\ b[j].h \in Int /\ m[j].h = -b[j].l /\ m[j].l = -b[j].h
  BY FlippedBar
<1> HIDE DEF lo, hi, mlo, mhi
<1>5. mhi = -lo
  <2>1. PICK j \in S : mhi = m[j].h
    BY <1>3
  <2>2. PICK k \in S : lo = b[k].l
    BY <1>2
  <2>3. mhi = -b[j].l /\ lo <= b[j].l /\ -lo <= mhi /\ b[j].l \in Int
    BY <1>2, <1>3, <1>4, <2>1, <2>2
  <2>4. QED
    BY <1>2, <1>3, <2>3
<1>6. mlo = -hi
  <2>1. PICK j \in S : mlo = m[j].l
    BY <1>3
  <2>2. PICK k \in S : hi = b[k].h
    BY <1>2
  <2>3. mlo = -b[j].h /\ b[j].h <= hi /\ mlo <= -hi /\ b[j].h \in Int
    BY <1>2, <1>3, <1>4, <2>1, <2>2
  <2>4. QED
    BY <1>2, <1>3, <2>3
<1>7. QED
  BY <1>2, <1>5, <1>6 DEF lo, hi, mlo, mhi

LEMMA FlippedRun ==
  ASSUME NEW b, NEW m, Flip(b, m), NEW d \in Dirs, NEW i \in 1 .. Len(b)
  PROVE  CisdStart(m, i, Against(d)) = CisdStart(b, i, d)
<1>1. i \in Nat /\ Len(b) \in Nat
  BY FlippedInner
<1>2. \A k \in 1 .. Len(b) : Opposite(m[k], Against(d)) <=> Opposite(b[k], d)
  BY FlippedBody, Ways DEF Opposite
<1>3. \A j \in 1 .. i - 1 : \A k \in j .. i - 1 : Opposite(m[k], Against(d)) <=> Opposite(b[k], d)
  <2>1. \A j \in 1 .. i - 1 : \A k \in j .. i - 1 : k \in 1 .. Len(b)
    BY <1>1
  <2>2. QED
    BY <1>2, <2>1
<1>4. Runs(m, i, Against(d)) = Runs(b, i, d)
  BY <1>3 DEF Runs
<1>5. QED
  BY <1>1, <1>4, CisdIs

LEMMA FlippedBlocks ==
  ASSUME NEW b, NEW m, Flip(b, m), NEW z \in OrderBlocks(b)
  PROVE  Shaped(z) /\ Turned(z) \in OrderBlocks(m)
<1>1. PICK i \in Inner(b) : OrderBlockAt(b, i) /\ z = OrderBlock(b, i)
  BY DEF OrderBlocks
<1> DEFINE d == Way(b[i])
           s == CisdStart(b, i, d)
           S == s .. i - 1
<1>2. i \in 1 .. Len(b) /\ i \in Inner(m) /\ i \in Nat /\ Len(b) \in Nat
  BY FlippedInner
<1>3. d \in Dirs /\ Way(m[i]) = Against(d) /\ Displaced(b, i) /\ Displaced(m, i)
  BY <1>1, <1>2, FlippedBody, FlippedDisplaced DEF OrderBlockAt
<1> HIDE DEF d
<1>4. s \in 1 .. i - 1 /\ CisdStart(m, i, Against(d)) = s /\ s # 0
  <2>1. s # 0
    BY <1>1 DEF OrderBlockAt, d
  <2>2. QED
    BY <1>2, <1>3, <2>1, CisdIs, FlippedRun
<1>5. z = Zone("OB", d, Lowest(b, S), Highest(b, S), Least(S), i)
  BY <1>1 DEF OrderBlock, Lowest, Highest, d
<1>6. OrderBlock(m, i) = Zone("OB", Against(d), Lowest(m, S), Highest(m, S), Least(S), i)
  BY <1>3, <1>4 DEF OrderBlock, Lowest, Highest
<1> HIDE DEF s
<1>7. S \in SUBSET (1 .. Len(b)) /\ S # {}
  <2>1. s \in S /\ \A j \in S : j \in 1 .. Len(b)
    BY <1>2, <1>4
  <2>2. QED
    BY <2>1
<1> HIDE DEF S
<1>8. Shaped(z) /\ Turned(z) = OrderBlock(m, i)
  <2> DEFINE lo == Lowest(b, S)
             hi == Highest(b, S)
  <2>1. /\ lo \in Int /\ hi \in Int /\ Highest(m, S) = -lo /\ Lowest(m, S) = -hi
    BY <1>7, FlippedExtremes
  <2>2. z = Zone("OB", d, lo, hi, Least(S), i) /\ OrderBlock(m, i) = Zone("OB", Against(d), -hi, -lo, Least(S), i)
    BY <1>5, <1>6, <2>1
  <2> HIDE DEF lo, hi
  <2>3. QED
    BY <1>3, <2>1, <2>2, ShapedIs, TurnedIs
<1>9. OrderBlockAt(m, i)
  <2>1. CisdStart(m, i, Way(m[i])) # 0
    BY <1>3, <1>4
  <2>2. \E k \in StructureBreaks(m) : k.dir = Way(m[i]) /\ k.idx \in i .. i + 2
    <3>1. PICK k \in StructureBreaks(b) : k.dir = d /\ k.idx \in i .. i + 2
      BY <1>1 DEF OrderBlockAt, d
    <3>2. QED
      BY <1>3, <3>1, FlippedBreaks
  <2>3. \E k \in i .. i + 2 : FvgAt(m, k, Way(m[i]))
    <3>1. PICK k \in i .. i + 2 : FvgAt(b, k, d)
      BY <1>1 DEF OrderBlockAt, d
    <3>2. QED
      BY <1>3, <3>1, FlippedGap
  <2>4. QED
    BY <1>2, <1>3, <2>1, <2>2, <2>3 DEF OrderBlockAt
<1>10. QED
  BY <1>2, <1>8, <1>9 DEF OrderBlocks

LEMMA FlippedBreakers ==
  ASSUME NEW b, NEW m, Flip(b, m), NEW z \in BreakerBlocks(b)
  PROVE  Shaped(z) /\ Turned(z) \in BreakerBlocks(m)
<1>1. PICK y \in OrderBlocks(b) : Passed(b, y) # {} /\ Legs(b, y) # {} /\ z = Breaker(b, y)
  BY BreakersAre
<1> DEFINE x == Turned(y)
<1>2. Shaped(y) /\ x \in OrderBlocks(m)
  BY FlippedBlocks
<1>3. /\ x.dir = Against(y.dir) /\ x.low = -y.high /\ x.high = -y.low /\ x.disp = y.disp
      /\ y.dir \in Dirs /\ y.low \in Int /\ y.high \in Int
      /\ y.disp \in Nat /\ Against(y.dir) \in Dirs
  <2>1. y.disp \in Nat
    BY BlockDated DEF Flip
  <2>2. QED
    BY <1>2, <2>1, TurnedTwice
<1> HIDE DEF x
<1>4. Passed(m, x) = Passed(b, y)
  <2>1. ASSUME NEW k \in y.disp + 1 .. Len(b)
        PROVE  Beyond(Against(x.dir), m[k].c, IF x.dir = "buy" THEN x.low ELSE x.high)
                 <=> Beyond(Against(y.dir), b[k].c, IF y.dir = "buy" THEN y.low ELSE y.high)
    <3>1. k \in 1 .. Len(b)
      BY <1>3, FlippedInner
    <3>2. b[k].c \in Int /\ m[k].c = -b[k].c
      BY <3>1, FlippedBar
    <3>3. CASE y.dir = "buy"
      BY <1>3, <3>2, <3>3, Ways DEF Beyond
    <3>4. CASE y.dir = "sell"
      BY <1>3, <3>2, <3>4, Ways DEF Beyond
    <3>5. QED
      BY <1>3, <3>3, <3>4, Ways
  <2>2. Len(m) = Len(b) /\ x.disp = y.disp
    BY <1>3, FlippedInner
  <2>3. QED
    BY <2>1, <2>2 DEF Passed
<1>5. Legs(m, x) = Legs(b, y)
  <2>1. ASSUME NEW j \in Inner(b), Displaced(b, j)
        PROVE  Way(m[j]) = Against(x.dir) <=> Way(b[j]) = Against(y.dir)
    <3>1. Way(m[j]) = Against(Way(b[j])) /\ Way(b[j]) \in Dirs
      BY <2>1, FlippedDisplaced, FlippedInner, FlippedBody
    <3>2. QED
      BY <1>3, <3>1, Ways
  <2>2. \A j : j \in Inner(m) /\ Displaced(m, j) <=> j \in Inner(b) /\ Displaced(b, j)
    BY FlippedDisplaced, FlippedInner
  <2>3. QED
    BY <1>4, <2>1, <2>2 DEF Legs
<1>6. z = Zone("BB", Against(y.dir), y.low, y.high, Least(Legs(b, y)), Least(Legs(b, y)))
  BY <1>1 DEF Breaker
<1>7. Breaker(m, x) = Zone("BB", Against(Against(y.dir)), -y.high, -y.low, Least(Legs(b, y)), Least(Legs(b, y)))
  BY <1>3, <1>5 DEF Breaker
<1>8. Shaped(z) /\ Turned(z) = Breaker(m, x)
  BY <1>3, <1>6, <1>7, ShapedIs, TurnedIs
<1>9. Breaker(m, x) \in BreakerBlocks(m)
  BY <1>1, <1>2, <1>4, <1>5, BreakersAre
<1>10. QED
  BY <1>8, <1>9
-----------------------------------------------------------------------------
(* Blocks of one or two bars.                                                *)
LEMMA FlippedRejections ==
  ASSUME NEW b, NEW m, Flip(b, m), NEW z \in RejectionBlocks(b)
  PROVE  Shaped(z) /\ Turned(z) \in RejectionBlocks(m)
<1>1. ASSUME NEW k \in 1 .. Len(b) - 1
      PROVE  /\ b[k].h \in Int /\ b[k].l \in Int /\ b[k + 1].c \in Int /\ Bot(b[k]) \in Int /\ Top(b[k]) \in Int
             /\ m[k].h = -b[k].l /\ m[k].l = -b[k].h /\ m[k + 1].c = -b[k + 1].c
             /\ Bot(m[k]) = -Top(b[k]) /\ Top(m[k]) = -Bot(b[k])
             /\ (Bull(m[k]) <=> Bear(b[k])) /\ (Bear(m[k]) <=> Bull(b[k]))
             /\ Displaced(m, k + 1) <=> Displaced(b, k + 1)
             /\ k \in 1 .. Len(m) - 1
  <2>1. k \in 1 .. Len(b) /\ k + 1 \in 1 .. Len(b) /\ Len(m) = Len(b)
    BY FlippedInner
  <2>2. QED
    BY <2>1, FlippedBar, FlippedBody, FlippedDisplaced
<1>2. ASSUME NEW k \in 1 .. Len(b) - 1, Bear(b[k]) /\ b[k + 1].c > b[k].h /\ Displaced(b, k + 1),
             z = Zone("RB", "buy", b[k].l, Bot(b[k]), k, k + 1)
      PROVE  Shaped(z) /\ Turned(z) \in RejectionBlocks(m)
  <2>0. /\ b[k].h \in Int /\ b[k].l \in Int /\ b[k + 1].c \in Int /\ Bot(b[k]) \in Int /\ Top(b[k]) \in Int
        /\ m[k].h = -b[k].l /\ m[k].l = -b[k].h /\ m[k + 1].c = -b[k + 1].c
        /\ Bot(m[k]) = -Top(b[k]) /\ Top(m[k]) = -Bot(b[k])
        /\ (Bull(m[k]) <=> Bear(b[k])) /\ (Bear(m[k]) <=> Bull(b[k]))
        /\ Displaced(m, k + 1) <=> Displaced(b, k + 1)
        /\ k \in 1 .. Len(m) - 1
    BY <1>1
  <2>1. Shaped(z) /\ Turned(z) = Zone("RB", "sell", Top(m[k]), m[k].h, k, k + 1)
    BY <1>2, <2>0, ShapedIs, TurnedIs, Ways
  <2>2. k \in 1 .. Len(m) - 1 /\ Bull(m[k]) /\ m[k + 1].c < m[k].l /\ Displaced(m, k + 1)
    BY <1>2, <2>0
  <2>3. QED
    BY <2>1, <2>2 DEF RejectionBlocks
<1>3. ASSUME NEW k \in 1 .. Len(b) - 1, Bull(b[k]) /\ b[k + 1].c < b[k].l /\ Displaced(b, k + 1),
             z = Zone("RB", "sell", Top(b[k]), b[k].h, k, k + 1)
      PROVE  Shaped(z) /\ Turned(z) \in RejectionBlocks(m)
  <2>0. /\ b[k].h \in Int /\ b[k].l \in Int /\ b[k + 1].c \in Int /\ Bot(b[k]) \in Int /\ Top(b[k]) \in Int
        /\ m[k].h = -b[k].l /\ m[k].l = -b[k].h /\ m[k + 1].c = -b[k + 1].c
        /\ Bot(m[k]) = -Top(b[k]) /\ Top(m[k]) = -Bot(b[k])
        /\ (Bull(m[k]) <=> Bear(b[k])) /\ (Bear(m[k]) <=> Bull(b[k]))
        /\ Displaced(m, k + 1) <=> Displaced(b, k + 1)
        /\ k \in 1 .. Len(m) - 1
    BY <1>1
  <2>1. Shaped(z) /\ Turned(z) = Zone("RB", "buy", m[k].l, Bot(m[k]), k, k + 1)
    BY <1>3, <2>0, ShapedIs, TurnedIs, Ways
  <2>2. k \in 1 .. Len(m) - 1 /\ Bear(m[k]) /\ m[k + 1].c > m[k].h /\ Displaced(m, k + 1)
    BY <1>3, <2>0
  <2>3. QED
    BY <2>1, <2>2 DEF RejectionBlocks
<1>4. QED
  BY <1>2, <1>3 DEF RejectionBlocks

\* The bar of a propulsion block has a body: the mean is not nothing after a displacement.
LEMMA FlippedPropulsions ==
  ASSUME NEW b, NEW m, Flip(b, m), NEW z \in PropulsionBlocks(b)
  PROVE  Shaped(z) /\ Turned(z) \in PropulsionBlocks(m)
<1>1. PICK k \in Inner(b) : /\ 2 * Body(b[k]) * AtrLen(k) >= 3 * AtrSum(b, k)
                            /\ \E j \in {k - 1, k} : Displaced(b, j)
                            /\ z = Zone("PB", Way(b[k]), Bot(b[k]), Top(b[k]), k, k)
  BY DEF PropulsionBlocks
<1>2. /\ k \in Nat /\ k >= 2 /\ k - 1 \in 1 .. Len(b) /\ k \in 1 .. Len(b) /\ k \in Inner(m) /\ k \in Nat \ {0}
  BY FlippedInner
<1>3. AtrSum(m, k) = AtrSum(b, k) /\ AtrSum(b, k) \in Nat /\ AtrLen(k) \in Nat
  BY <1>2, FlippedAtr, WindowIs
<1>4. Body(m[k]) = Body(b[k]) /\ Body(b[k]) \in Nat
  BY <1>2, FlippedBody
<1>5. AtrSum(b, k) > 0
  <2>1. PICK j \in {k - 1, k} : Displaced(b, j)
    BY <1>1
  <2>2. j \in Inner(b) /\ Body(b[j]) > 0 /\ j \in 1 .. Len(b) /\ j >= 2
    BY <2>1, FlippedDisplaced, FlippedInner
  <2>3. j \in AtrWindow(k)
    BY <1>2, <2>2, WindowIs
  <2>4. Body(b[j]) \in Nat /\ Body(b[j]) <= b[j].h - b[j].l
    BY <2>2, FlippedBody
  <2>5. b[j].h - b[j].l <= TrueRange(b, j) /\ TrueRange(b, j) \in Nat /\ b[j].h \in Int /\ b[j].l \in Int
    BY <2>2, FlippedRange, FlippedBar
  <2>6. TrueRange(b, j) <= AtrSum(b, k)
    BY <1>2, <2>3, FlippedAtr
  <2>7. QED
    BY <1>3, <2>2, <2>4, <2>5, <2>6
<1>6. Body(b[k]) > 0
  <2>1. ASSUME Body(b[k]) = 0 PROVE FALSE
    <3>1. 2 * 0 * AtrLen(k) = 0
      BY <1>3
    <3>2. QED
      BY <1>1, <1>3, <1>5, <2>1, <3>1
  <2>2. QED
    BY <1>4, <2>1
<1>7. /\ Way(m[k]) = Against(Way(b[k])) /\ Way(b[k]) \in Dirs
      /\ Bot(b[k]) \in Int /\ Top(b[k]) \in Int /\ Bot(m[k]) = -Top(b[k]) /\ Top(m[k]) = -Bot(b[k])
  BY <1>2, <1>6, FlippedBody
<1>8. Shaped(z) /\ Turned(z) = Zone("PB", Way(m[k]), Bot(m[k]), Top(m[k]), k, k)
  BY <1>1, <1>7, ShapedIs, TurnedIs
<1>9. 2 * Body(m[k]) * AtrLen(k) >= 3 * AtrSum(m, k) /\ \E j \in {k - 1, k} : Displaced(m, j)
  BY <1>1, <1>3, <1>4, FlippedDisplaced
<1>10. QED
  BY <1>2, <1>8, <1>9 DEF PropulsionBlocks

\* A bar and the one before it.
LEMMA FlippedPair ==
  ASSUME NEW b, NEW m, Flip(b, m), NEW k \in 2 .. Len(b)
  PROVE  /\ k \in 2 .. Len(m)
         /\ b[k].h \in Int /\ b[k].l \in Int /\ b[k - 1].h \in Int /\ b[k - 1].l \in Int
         /\ Bot(b[k]) \in Int /\ Top(b[k]) \in Int /\ Bot(b[k - 1]) \in Int /\ Top(b[k - 1]) \in Int
         /\ m[k].h = -b[k].l /\ m[k].l = -b[k].h /\ m[k - 1].h = -b[k - 1].l /\ m[k - 1].l = -b[k - 1].h
         /\ Bot(m[k]) = -Top(b[k]) /\ Top(m[k]) = -Bot(b[k])
         /\ Bot(m[k - 1]) = -Top(b[k - 1]) /\ Top(m[k - 1]) = -Bot(b[k - 1])
<1>1. k \in 1 .. Len(b) /\ k - 1 \in 1 .. Len(b) /\ Len(m) = Len(b)
  BY FlippedInner
<1>2. QED
  BY <1>1, FlippedBar, FlippedBody

LEMMA PairsCompare ==
  ASSUME NEW b, NEW m, Flip(b, m), NEW k \in 2 .. Len(b)
  PROVE  /\ m[k].h < m[k - 1].l <=> b[k].l > b[k - 1].h
         /\ m[k].l > m[k - 1].h <=> b[k].h < b[k - 1].l
         /\ m[k].h >= m[k - 1].l <=> b[k].l <= b[k - 1].h
         /\ m[k].l <= m[k - 1].h <=> b[k].h >= b[k - 1].l
         /\ Top(m[k]) < Bot(m[k - 1]) <=> Bot(b[k]) > Top(b[k - 1])
         /\ Bot(m[k]) > Top(m[k - 1]) <=> Top(b[k]) < Bot(b[k - 1])
<1> DEFINE h == b[k].h
           l == b[k].l
           q == b[k - 1].h
           p == b[k - 1].l
           t == Top(b[k])
           u == Bot(b[k])
           w == Top(b[k - 1])
           v == Bot(b[k - 1])
<1>1. /\ h \in Int /\ l \in Int /\ q \in Int /\ p \in Int /\ t \in Int /\ u \in Int /\ w \in Int /\ v \in Int
      /\ m[k].h = -l /\ m[k].l = -h /\ m[k - 1].h = -p /\ m[k - 1].l = -q
      /\ Bot(m[k]) = -t /\ Top(m[k]) = -u /\ Bot(m[k - 1]) = -w /\ Top(m[k - 1]) = -v
  BY FlippedPair
<1> HIDE DEF h, l, q, p, t, u, w, v
<1>2. (-l < -q <=> l > q) /\ (-h > -p <=> h < p) /\ (-l >= -q <=> l <= q) /\ (-h <= -p <=> h >= p)
  BY <1>1
<1>3. (-u < -w <=> u > w) /\ (-t > -v <=> t < v)
  BY <1>1
<1>4. QED
  BY <1>1, <1>2, <1>3, Zenon DEF h, l, q, p, t, u, w, v

LEMMA FlippedImbalances ==
  ASSUME NEW b, NEW m, Flip(b, m), NEW z \in VolumeImbalances(b)
  PROVE  Shaped(z) /\ Turned(z) \in VolumeImbalances(m)
<1>1. ASSUME NEW k \in 2 .. Len(b), Bot(b[k]) > Top(b[k - 1]) /\ b[k].l <= b[k - 1].h, z = Zone("VI", "buy", Top(b[k - 1]), Bot(b[k]), k, k)
      PROVE  Shaped(z) /\ Turned(z) \in VolumeImbalances(m)
  <2>1. /\ Top(b[k - 1]) \in Int /\ Bot(b[k]) \in Int /\ k \in 2 .. Len(m)
        /\ Top(m[k]) = -Bot(b[k]) /\ Bot(m[k - 1]) = -Top(b[k - 1])
    BY FlippedPair
  <2>2. Shaped(z)
    BY <1>1, <2>1, ShapedIs, Ways
  <2>3. Turned(z) = Zone("VI", "sell", Top(m[k]), Bot(m[k - 1]), k, k)
    BY <1>1, <2>1, TurnedIs, Ways
  <2>4. Top(m[k]) < Bot(m[k - 1]) /\ m[k].h >= m[k - 1].l
    BY <1>1, PairsCompare
  <2>5. QED
    BY <2>1, <2>2, <2>3, <2>4 DEF VolumeImbalances
<1>2. ASSUME NEW k \in 2 .. Len(b), Top(b[k]) < Bot(b[k - 1]) /\ b[k].h >= b[k - 1].l, z = Zone("VI", "sell", Top(b[k]), Bot(b[k - 1]), k, k)
      PROVE  Shaped(z) /\ Turned(z) \in VolumeImbalances(m)
  <2>1. /\ Top(b[k]) \in Int /\ Bot(b[k - 1]) \in Int /\ k \in 2 .. Len(m)
        /\ Top(m[k - 1]) = -Bot(b[k - 1]) /\ Bot(m[k]) = -Top(b[k])
    BY FlippedPair
  <2>2. Shaped(z)
    BY <1>2, <2>1, ShapedIs, Ways
  <2>3. Turned(z) = Zone("VI", "buy", Top(m[k - 1]), Bot(m[k]), k, k)
    BY <1>2, <2>1, TurnedIs, Ways
  <2>4. Bot(m[k]) > Top(m[k - 1]) /\ m[k].l <= m[k - 1].h
    BY <1>2, PairsCompare
  <2>5. QED
    BY <2>1, <2>2, <2>3, <2>4 DEF VolumeImbalances
<1>3. QED
  BY <1>1, <1>2 DEF VolumeImbalances

LEMMA FlippedVacuums ==
  ASSUME NEW b, NEW m, Flip(b, m), NEW z \in Vacuums(b)
  PROVE  Shaped(z) /\ Turned(z) \in Vacuums(m)
<1>1. ASSUME NEW k \in 2 .. Len(b), b[k].l > b[k - 1].h, z = Zone("VACUUM", "buy", b[k - 1].h, b[k].l, k, k)
      PROVE  Shaped(z) /\ Turned(z) \in Vacuums(m)
  <2>1. /\ b[k - 1].h \in Int /\ b[k].l \in Int /\ k \in 2 .. Len(m)
        /\ m[k].h = -b[k].l /\ m[k - 1].l = -b[k - 1].h
    BY FlippedPair
  <2>2. Shaped(z)
    BY <1>1, <2>1, ShapedIs, Ways
  <2>3. Turned(z) = Zone("VACUUM", "sell", m[k].h, m[k - 1].l, k, k)
    BY <1>1, <2>1, TurnedIs, Ways
  <2>4. m[k].h < m[k - 1].l
    BY <1>1, PairsCompare
  <2>5. QED
    BY <2>1, <2>2, <2>3, <2>4 DEF Vacuums
<1>2. ASSUME NEW k \in 2 .. Len(b), b[k].h < b[k - 1].l, z = Zone("VACUUM", "sell", b[k].h, b[k - 1].l, k, k)
      PROVE  Shaped(z) /\ Turned(z) \in Vacuums(m)
  <2>1. /\ b[k].h \in Int /\ b[k - 1].l \in Int /\ k \in 2 .. Len(m)
        /\ m[k - 1].h = -b[k - 1].l /\ m[k].l = -b[k].h
    BY FlippedPair
  <2>2. Shaped(z)
    BY <1>2, <2>1, ShapedIs, Ways
  <2>3. Turned(z) = Zone("VACUUM", "buy", m[k - 1].h, m[k].l, k, k)
    BY <1>2, <2>1, TurnedIs, Ways
  <2>4. m[k].l > m[k - 1].h
    BY <1>2, PairsCompare
  <2>5. QED
    BY <2>1, <2>2, <2>3, <2>4 DEF Vacuums
<1>3. QED
  BY <1>1, <1>2 DEF Vacuums

LEMMA FlippedFormed ==
  ASSUME NEW b, NEW m, Flip(b, m), NEW z \in Formed(b)
  PROVE  Shaped(z) /\ Turned(z) \in Formed(m)
BY FlippedGaps, FlippedBlocks, FlippedBreakers, FlippedRejections, FlippedPropulsions, FlippedImbalances,
   FlippedVacuums DEF Formed
-----------------------------------------------------------------------------
(* What becomes of a zone.                                                   *)
LEMMA FlippedTouch ==
  ASSUME NEW b, NEW m, Flip(b, m), NEW z, Shaped(z), NEW k \in 1 .. Len(b)
  PROVE  /\ Touches(Turned(z), m[k]) <=> Touches(z, b[k])
         /\ ClosedAgainst(Turned(z), m[k]) <=> ClosedAgainst(z, b[k])
         /\ Filled(Turned(z), m[k]) <=> Filled(z, b[k])
<1> DEFINE h == b[k].h
           l == b[k].l
           c == b[k].c
           lo == z.low
           hi == z.high
<1>1. /\ h \in Int /\ l \in Int /\ c \in Int /\ m[k].h = -l /\ m[k].l = -h /\ m[k].c = -c
  BY FlippedBar
<1>2. /\ lo \in Int /\ hi \in Int /\ z.dir \in Dirs /\ Turned(z).dir = Against(z.dir)
      /\ Turned(z).low = -hi /\ Turned(z).high = -lo
  BY TurnedTwice
<1> HIDE DEF h, l, c, lo, hi
<1>3. /\ -l >= -hi <=> l <= hi
      /\ -h <= -lo <=> h >= lo
      /\ -l >= -lo <=> l <= lo
      /\ -h <= -hi <=> h >= hi
      /\ 2 * (-c) > -hi + (-lo) <=> 2 * c < lo + hi
      /\ 2 * (-c) < -hi + (-lo) <=> 2 * c > lo + hi
  <2>1. l \in Int /\ h \in Int /\ c \in Int /\ lo \in Int /\ hi \in Int
    BY <1>1, <1>2
  <2>2. (-l >= -hi <=> l <= hi) /\ (-h <= -lo <=> h >= lo) /\ (-l >= -lo <=> l <= lo) /\ (-h <= -hi <=> h >= hi)
    BY <2>1
  <2>3. 2 * (-c) > -hi + (-lo) <=> 2 * c < lo + hi
    BY <2>1
  <2>4. 2 * (-c) < -hi + (-lo) <=> 2 * c > lo + hi
    BY <2>1
  <2>5. QED
    BY <2>2, <2>3, <2>4
<1>4. CASE z.dir = "buy"
  <2>1. Turned(z).dir # "buy"
    BY <1>2, <1>4, Ways
  <2>2. Touches(Turned(z), m[k]) <=> Touches(z, b[k])
    BY <1>1, <1>2, <1>3, <1>4, <2>1, Zenon DEF Touches, h, l, lo, hi
  <2>3. ClosedAgainst(Turned(z), m[k]) <=> ClosedAgainst(z, b[k])
    BY <1>1, <1>2, <1>3, <1>4, <2>1, Zenon DEF ClosedAgainst, c, lo, hi
  <2>4. Filled(Turned(z), m[k]) <=> Filled(z, b[k])
    BY <1>1, <1>2, <1>3, <1>4, <2>1, Zenon DEF Filled, h, l, lo, hi
  <2>5. QED
    BY <2>2, <2>3, <2>4
<1>5. CASE z.dir = "sell"
  <2>1. Turned(z).dir = "buy" /\ z.dir # "buy"
    BY <1>2, <1>5, Ways
  <2>2. Touches(Turned(z), m[k]) <=> Touches(z, b[k])
    BY <1>1, <1>2, <1>3, <2>1, Zenon DEF Touches, h, l, lo, hi
  <2>3. ClosedAgainst(Turned(z), m[k]) <=> ClosedAgainst(z, b[k])
    BY <1>1, <1>2, <1>3, <2>1, Zenon DEF ClosedAgainst, c, lo, hi
  <2>4. Filled(Turned(z), m[k]) <=> Filled(z, b[k])
    BY <1>1, <1>2, <1>3, <2>1, Zenon DEF Filled, h, l, lo, hi
  <2>5. QED
    BY <2>2, <2>3, <2>4
<1>6. QED
  BY <1>2, <1>4, <1>5, Ways

LEMMA FlippedFirst ==
  ASSUME NEW b, NEW m, Flip(b, m), NEW z, Shaped(z), NEW s \in Nat \ {0}
  PROVE  /\ FirstTouch(Turned(z), m, s) = FirstTouch(z, b, s)
         /\ FirstTouch(z, b, s) # 0 => FirstTouch(z, b, s) \in s .. Len(b)
<1> DEFINE T == {k \in s .. Len(b) : Touches(z, b[k])}
           U == {k \in s .. Len(m) : Touches(Turned(z), m[k])}
<1>1. U = T
  <2>1. Len(m) = Len(b) /\ \A k \in s .. Len(b) : k \in 1 .. Len(b)
    BY FlippedInner
  <2>2. QED
    BY <2>1, FlippedTouch
<1>2. FirstTouch(z, b, s) = IF T = {} THEN 0 ELSE Least(T)
  BY Zenon DEF FirstTouch
<1>3. FirstTouch(Turned(z), m, s) = IF U = {} THEN 0 ELSE Least(U)
  BY Zenon DEF FirstTouch
<1>4. T \in SUBSET Nat /\ T \subseteq s .. Len(b)
  OBVIOUS
<1> HIDE DEF T, U
<1>5. T # {} => Least(T) \in T
  BY <1>4, LeastIn
<1>6. QED
  BY <1>1, <1>2, <1>3, <1>4, <1>5

LEMMA FlippedInverses ==
  ASSUME NEW b, NEW m, Flip(b, m), NEW z \in IFvgs(b)
  PROVE  Shaped(z) /\ Turned(z) \in IFvgs(m)
<1> DEFINE k == FirstTouch(z, b, z.idx + 2)
<1>1. z \in Fvgs(b) /\ k # 0 /\ \A j \in k .. Len(b) : ~ClosedAgainst(z, b[j])
  BY DEF IFvgs, SinceTap
<1>2. Shaped(z) /\ Turned(z) \in Fvgs(m) /\ Turned(z).idx = z.idx
  BY <1>1, FlippedGaps, TurnedTwice
<1>3. z.idx \in Nat /\ z.idx + 2 \in Nat \ {0}
  <2>1. z.idx \in Nat
    BY <1>1, GapDated DEF Flip
  <2>2. QED
    BY <2>1
<1>4. FirstTouch(Turned(z), m, z.idx + 2) = k /\ k \in z.idx + 2 .. Len(b)
  BY <1>1, <1>2, <1>3, FlippedFirst
<1> HIDE DEF k
<1>5. \A j \in k .. Len(m) : ~ClosedAgainst(Turned(z), m[j])
  <2>1. Len(m) = Len(b) /\ \A j \in k .. Len(b) : j \in 1 .. Len(b)
    BY <1>3, <1>4, FlippedInner
  <2>2. QED
    BY <1>1, <1>2, <2>1, FlippedTouch
<1>6. QED
  BY <1>1, <1>2, <1>4, <1>5 DEF IFvgs, SinceTap

LEMMA FlippedVoids ==
  ASSUME NEW b, NEW m, Flip(b, m), NEW z \in Voids(b)
  PROVE  Shaped(z) /\ Turned(z) \in Voids(m)
<1>1. /\ z \in Fvgs(b) /\ (z.high - z.low) * AtrLen(z.idx) >= AtrSum(b, z.idx)
      /\ \A k \in z.idx + 2 .. Len(b) : ~Filled(z, b[k])
  BY DEF Voids, Wide
<1> DEFINE x == Turned(z)
<1>2. Shaped(z) /\ x \in Fvgs(m)
  BY <1>1, FlippedGaps
<1>3. x.idx = z.idx /\ x.low = -z.high /\ x.high = -z.low /\ z.low \in Int /\ z.high \in Int
  BY <1>2, TurnedTwice
<1>4. z.idx \in Nat /\ z.idx \in 1 .. Len(b)
  <2>1. z.idx \in Nat /\ z.idx \in Inner(b)
    BY <1>1, GapDated DEF Flip
  <2>2. QED
    BY <2>1, FlippedInner
<1>5. AtrSum(m, z.idx) = AtrSum(b, z.idx)
  BY <1>4, FlippedAtr
<1>6. \A k \in z.idx + 2 .. Len(m) : ~Filled(x, m[k])
  <2>1. Len(m) = Len(b) /\ \A k \in z.idx + 2 .. Len(b) : k \in 1 .. Len(b)
    BY <1>4, FlippedInner
  <2>2. QED
    BY <1>1, <1>2, <2>1, FlippedTouch
<1> HIDE DEF x
<1>7. x.high - x.low = z.high - z.low
  BY <1>3
<1>8. (x.high - x.low) * AtrLen(x.idx) >= AtrSum(m, x.idx)
  BY <1>1, <1>3, <1>5, <1>7
<1>9. x \in Voids(m)
  BY <1>2, <1>3, <1>6, <1>8 DEF Voids, Wide
<1>10. QED
  BY <1>2, <1>9 DEF x

\* The overlap of two gaps.
Overlap(x, y) == [low |-> High2(x.low, y.low), high |-> Low2(x.high, y.high), idx |-> y.idx, dir |-> y.dir]
Overlapping(x, y) == x.idx < y.idx /\ x.dir # y.dir /\ High2(x.low, y.low) < Low2(x.high, y.high)
LEMMA OverlapsAre ==
  ASSUME NEW b, NEW v
  PROVE  v \in Overlaps(b) <=> \E x, y \in Fvgs(b) : Overlapping(x, y) /\ v = Overlap(x, y)
<1>1. ASSUME v \in Overlaps(b) PROVE \E x, y \in Fvgs(b) : Overlapping(x, y) /\ v = Overlap(x, y)
  <2>1. PICK p \in Fvgs(b) \X Fvgs(b) : Overlapping(p[1], p[2]) /\ v = Overlap(p[1], p[2])
    BY <1>1, Zenon DEF Overlaps, Overlapping, Overlap
  <2>2. p[1] \in Fvgs(b) /\ p[2] \in Fvgs(b)
    OBVIOUS
  <2>3. QED
    BY <2>1, <2>2
<1>2. ASSUME NEW x \in Fvgs(b), NEW y \in Fvgs(b), Overlapping(x, y), v = Overlap(x, y) PROVE v \in Overlaps(b)
  <2> DEFINE p == <<x, y>>
  <2>1. p \in Fvgs(b) \X Fvgs(b) /\ p[1] = x /\ p[2] = y
    OBVIOUS
  <2> HIDE DEF p
  <2>2. /\ p[1].idx < p[2].idx /\ p[1].dir # p[2].dir
        /\ High2(p[1].low, p[2].low) < Low2(p[1].high, p[2].high)
    BY <1>2, <2>1 DEF Overlapping
  <2>3. v = [low |-> High2(p[1].low, p[2].low), high |-> Low2(p[1].high, p[2].high), idx |-> p[2].idx, dir |-> p[2].dir]
    BY <1>2, <2>1 DEF Overlap
  <2>4. QED
    BY <2>1, <2>2, <2>3, Zenon DEF Overlaps
<1>3. QED
  BY <1>1, <1>2

LEMMA TurnedOverlap ==
  ASSUME NEW lo, NEW hi, NEW i, NEW d
  PROVE  Turned([low |-> lo, high |-> hi, idx |-> i, dir |-> d]) = [low |-> -hi, high |-> -lo, idx |-> i, dir |-> Against(d)]
<1> DEFINE z == [low |-> lo, high |-> hi, idx |-> i, dir |-> d]
           y == [z EXCEPT !.dir = Against(d)]
           x == [y EXCEPT !.low = -hi]
<1>1. Turned(z) = [z EXCEPT !.dir = Against(d), !.low = -hi, !.high = -lo]
  BY DEF Turned
<1>2. y = [low |-> lo, high |-> hi, idx |-> i, dir |-> Against(d)]
  OBVIOUS
<1>3. x = [low |-> -hi, high |-> hi, idx |-> i, dir |-> Against(d)]
  <2> HIDE DEF y
  <2>1. QED
    BY <1>2
<1>4. [x EXCEPT !.high = -lo] = [low |-> -hi, high |-> -lo, idx |-> i, dir |-> Against(d)]
  <2> HIDE DEF x
  <2>1. QED
    BY <1>3
<1>5. [z EXCEPT !.dir = Against(d), !.low = -hi, !.high = -lo] = [x EXCEPT !.high = -lo]
  OBVIOUS
<1>6. QED
  BY <1>1, <1>4, <1>5

LEMMA FlippedOverlaps ==
  ASSUME NEW b, NEW m, Flip(b, m), NEW v \in Bprs(b)
  PROVE  Turned(v) \in Bprs(m) /\ Turned(Turned(v)) = v
<1>1. PICK x \in Fvgs(b), y \in Fvgs(b) : Overlapping(x, y) /\ v = Overlap(x, y)
  <2>1. v \in Overlaps(b)
    BY DEF Bprs
  <2>2. QED
    BY <2>1, OverlapsAre
<1> DEFINE X == Turned(x)
           Y == Turned(y)
           lo == High2(x.low, y.low)
           hi == Low2(x.high, y.high)
<1>2. Shaped(x) /\ Shaped(y) /\ X \in Fvgs(m) /\ Y \in Fvgs(m)
  BY FlippedGaps
<1>3. /\ x.dir \in Dirs /\ x.low \in Int /\ x.high \in Int /\ y.dir \in Dirs /\ y.low \in Int /\ y.high \in Int
      /\ X.low = -x.high /\ X.high = -x.low /\ X.dir = Against(x.dir) /\ X.idx = x.idx
      /\ Y.low = -y.high /\ Y.high = -y.low /\ Y.dir = Against(y.dir) /\ Y.idx = y.idx
  BY <1>2, TurnedTwice
<1>4. y.idx \in Nat
  BY GapDated DEF Flip
<1> HIDE DEF X, Y
<1>5. lo \in Int /\ hi \in Int /\ High2(X.low, Y.low) = -hi /\ Low2(X.high, Y.high) = -lo
  BY <1>3 DEF High2, Low2
<1>6. lo < hi /\ x.idx < y.idx /\ x.dir # y.dir
  BY <1>1 DEF Overlapping
<1>7. v = [low |-> lo, high |-> hi, idx |-> y.idx, dir |-> y.dir]
  BY <1>1 DEF Overlap
<1> HIDE DEF lo, hi
<1>8. Turned(v) = [low |-> -hi, high |-> -lo, idx |-> y.idx, dir |-> Against(y.dir)]
  BY <1>7, TurnedOverlap
<1>9. Overlap(X, Y) = Turned(v)
  BY <1>3, <1>5, <1>8 DEF Overlap
<1>10. Overlapping(X, Y)
  <2>1. -hi < -lo
    BY <1>5, <1>6
  <2>2. X.dir # Y.dir
    BY <1>3, <1>6, Ways
  <2>3. QED
    BY <1>3, <1>5, <1>6, <2>1, <2>2 DEF Overlapping
<1>11. Turned(v) \in Overlaps(m)
  BY <1>2, <1>9, <1>10, OverlapsAre
<1>12. ASSUME Traversed(Turned(v), m) PROVE Traversed(v, b)
  <2> DEFINE u == Turned(v)
  <2>1. u.low = -hi /\ u.high = -lo /\ u.idx = y.idx /\ v.low = lo /\ v.high = hi /\ v.idx = y.idx
    BY <1>7, <1>8
  <2>2. Len(m) = Len(b) /\ \A k \in y.idx + 2 .. Len(b) : k \in 1 .. Len(b)
    BY <1>4, FlippedInner
  <2>3. \A k \in y.idx + 2 .. Len(b) : b[k].c \in Int /\ m[k].c = -b[k].c
    BY <2>2, FlippedBar
  <2>4. /\ \E k \in y.idx + 2 .. Len(b) : m[k].c < -hi
        /\ \E k \in y.idx + 2 .. Len(b) : m[k].c > -lo
    BY <1>12, <2>1, <2>2 DEF Traversed
  <2>5. /\ \E k \in y.idx + 2 .. Len(b) : b[k].c > hi
        /\ \E k \in y.idx + 2 .. Len(b) : b[k].c < lo
    BY <1>5, <2>3, <2>4
  <2>6. QED
    BY <2>1, <2>5 DEF Traversed
<1>13. Turned(Turned(v)) = v
  <2>1. Turned(Turned(v)) = [low |-> -(-lo), high |-> -(-hi), idx |-> y.idx, dir |-> Against(Against(y.dir))]
    BY <1>8, TurnedOverlap
  <2>2. -(-lo) = lo /\ -(-hi) = hi /\ Against(Against(y.dir)) = y.dir
    BY <1>3, <1>5, Ways
  <2>3. QED
    BY <1>7, <2>1, <2>2
<1>14. QED
  BY <1>11, <1>12, <1>13 DEF Bprs
-----------------------------------------------------------------------------
(* The invariant and the theorem.                                            *)
LEMMA ProperHolds == Spec => [](BarsType /\ ProperBars(bars))
<1>1. Init => ProperBars(bars)
  <2> SUFFICES ASSUME Init PROVE ProperBars(bars)
    OBVIOUS
  <2>1. CASE part = "chart"
    BY <2>1, ProperAssumption DEF ProperAssumption, Init, ChartInit, ProperBars
  <2>2. CASE part = "feed"
    <3>1. bars = <<>>
      BY <2>2 DEF Init
    <3>2. QED
      BY <3>1 DEF ProperBars
  <2>3. QED
    BY <2>1, <2>2 DEF Init
<1>2. BarsType /\ ProperBars(bars) /\ [Next]_pathVars => ProperBars(bars)'
  <2> SUFFICES ASSUME BarsType, ProperBars(bars), [Next]_pathVars PROVE ProperBars(bars)'
    OBVIOUS
  <2>1. CASE Bar
    <3>1. PICK s \in Shapes : bars' = Append(bars, Follow(s, bars[Len(bars)].c))
      BY <2>1 DEF Bar, NextBar
    <3> DEFINE c == bars[Len(bars)].c
               x == Follow(s, c)
    <3>2. bars \in Seq(OneBar) /\ Len(bars) \in Nat /\ Len(bars) > 0
      BY <2>1 DEF Bar, BarsType
    <3>3. c \in Int /\ s \in OneBar /\ Proper(s)
      <4>1. Len(bars) \in 1 .. Len(bars)
        BY <3>2
      <4>2. QED
        BY <3>2, <4>1, BarIs, ChartAssumption, ProperAssumption DEF ChartAssumption, ProperAssumption
    <3> HIDE DEF c
    <3>4. s.o \in Int /\ s.h \in Int /\ s.l \in Int /\ s.c \in Int
      BY <3>3 DEF OneBar
    <3>5. x.o = c + s.o /\ x.h = c + s.h /\ x.l = c + s.l /\ x.c = c + s.c
      BY DEF Follow
    <3>6. Proper(x)
      <4> HIDE DEF x
      <4>1. QED
        BY <3>3, <3>4, <3>5 DEF Proper, Top, Bot, Low2, High2
    <3>7. bars' = Append(bars, x)
      BY <3>1 DEF c
    <3> HIDE DEF x
    <3>8. ASSUME NEW i \in 1 .. Len(bars') PROVE Proper(bars'[i])
      <4>1. Len(bars') = Len(bars) + 1
        BY <3>2, <3>7
      <4>2. CASE i = Len(bars) + 1
        <5>1. bars'[i] = x
          BY <3>2, <3>7, <4>2
        <5>2. QED
          BY <3>6, <5>1
      <4>3. CASE i # Len(bars) + 1
        <5>1. i \in 1 .. Len(bars)
          BY <3>2, <4>1, <4>3
        <5>2. bars'[i] = bars[i]
          BY <3>2, <3>7, <5>1
        <5>3. QED
          BY <5>1, <5>2 DEF ProperBars
      <4>4. QED
        BY <4>2, <4>3
    <3>9. QED
      BY <3>8 DEF ProperBars
  <2>2. CASE Feed \/ UNCHANGED pathVars
    <3>1. bars' = bars
      BY <2>2 DEF Feed, pathVars
    <3>2. QED
      BY <3>1 DEF ProperBars
  <2>3. QED
    BY <2>1, <2>2 DEF Next
<1>3. QED
  BY <1>1, <1>2, BarsTyped, PTL DEF Spec

\* What turns over both ways is turned over.
LEMMA TurnsOver ==
  ASSUME NEW A, NEW B, \A z \in A : Turned(z) \in B, \A z \in B : Turned(z) \in A /\ Turned(Turned(z)) = z
  PROVE  B = {Turned(z) : z \in A}
OBVIOUS

\* Upside down, every chart shows every zone and break upside down: the branches for buying
\* and for selling of every detector agree.
THEOREM MirrorHolds == Spec => []BuyMirrorsSell
<1>1. BarsType /\ ProperBars(bars) => BuyMirrorsSell
  <2> SUFFICES ASSUME BarsType, ProperBars(bars) PROVE BuyMirrorsSell
    OBVIOUS
  <2> DEFINE m == Mirrored(bars)
  <2>1. Flip(bars, m)
    BY MirrorFlips DEF BarsType
  <2> HIDE DEF m
  <2>2. Flip(m, bars)
    BY <2>1, FlipBack
  <2>3. Formed(m) = {Turned(z) : z \in Formed(bars)}
    <3>1. \A z \in Formed(bars) : Turned(z) \in Formed(m)
      BY <2>1, FlippedFormed
    <3>2. \A z \in Formed(m) : Turned(z) \in Formed(bars) /\ Turned(Turned(z)) = z
      BY <2>2, FlippedFormed, TurnedTwice
    <3>3. QED
      BY <3>1, <3>2, TurnsOver
  <2>4. IFvgs(m) = {Turned(z) : z \in IFvgs(bars)}
    <3>1. \A z \in IFvgs(bars) : Turned(z) \in IFvgs(m)
      BY <2>1, FlippedInverses
    <3>2. \A z \in IFvgs(m) : Turned(z) \in IFvgs(bars) /\ Turned(Turned(z)) = z
      BY <2>2, FlippedInverses, TurnedTwice
    <3>3. QED
      BY <3>1, <3>2, TurnsOver
  <2>5. Bprs(m) = {Turned(z) : z \in Bprs(bars)}
    <3>1. \A z \in Bprs(bars) : Turned(z) \in Bprs(m)
      BY <2>1, FlippedOverlaps
    <3>2. \A z \in Bprs(m) : Turned(z) \in Bprs(bars) /\ Turned(Turned(z)) = z
      BY <2>2, FlippedOverlaps
    <3>3. QED
      BY <3>1, <3>2, TurnsOver
  <2>6. Voids(m) = {Turned(z) : z \in Voids(bars)}
    <3>1. \A z \in Voids(bars) : Turned(z) \in Voids(m)
      BY <2>1, FlippedVoids
    <3>2. \A z \in Voids(m) : Turned(z) \in Voids(bars) /\ Turned(Turned(z)) = z
      BY <2>2, FlippedVoids, TurnedTwice
    <3>3. QED
      BY <3>1, <3>2, TurnsOver
  <2>7. StructureBreaks(m) = {[k EXCEPT !.dir = Against(k.dir)] : k \in StructureBreaks(bars)}
    <3> DEFINE over(k) == [k EXCEPT !.dir = Against(k.dir)]
    <3>1. \A k \in StructureBreaks(bars) : over(k) \in StructureBreaks(m)
      BY <2>1, FlippedBreaks
    <3>2. \A k \in StructureBreaks(m) : over(k) \in StructureBreaks(bars) /\ over(over(k)) = k
      BY <2>2, FlippedBreaks
    <3> HIDE DEF over
    <3>3. StructureBreaks(m) = {over(k) : k \in StructureBreaks(bars)}
      BY <3>1, <3>2
    <3>4. QED
      BY <3>3 DEF over
  <2>8. QED
    BY <2>3, <2>4, <2>5, <2>6, <2>7, Zenon DEF BuyMirrorsSell, m
<1>2. QED
  BY <1>1, ProperHolds, PTL
=============================================================================
