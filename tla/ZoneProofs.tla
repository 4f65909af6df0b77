------------------------------ MODULE ZoneProofs ------------------------------
(* The zones and their plans: proofs about the zone executor, for every value  *)
(* of the constants.                                                           *)
EXTENDS ZoneProperties, FiniteSetTheorems, TLAPS

\* Type invariant of the zone executor.
TypeOK ==
  /\ now \in Times
  /\ taken \in [Levels -> Times] /\ broken \in [Roots -> Times]
  /\ map \in Maps \cup {Gone}
  /\ zones \in [Keys -> Zone \cup {Gone}]
  /\ run \in [pc : {"off", "zones", "plan"}, todo : SUBSET Keys, cur : Keys \cup {Gone},
              z : [Keys -> Zone \cup {Gone}], confirmed : SUBSET Plan]
  /\ plans \subseteq Plan
  /\ listed \in [Keys -> [first : Times \cup {Gone}, times : Nat]]
-----------------------------------------------------------------------------
(* One zone.                                                                *)
Multiple(x, s) == \E n \in 0 .. x : x = n * s

\* The bars a zone has seen: whole bars, closed by now, in the order of their closes, an
\* M1 bar after the longer bars that close with it.
NextDue(z, tf) == z.seen[tf] + Span[tf]
Orderly(z) ==
  /\ z.born <= now
  /\ \A tf \in Frames : z.seen[tf] <= now /\ Multiple(z.seen[tf], Span[tf]) /\ z.from <= NextDue(z, tf)
  /\ \A tf, o \in Frames : z.seen[tf] <= NextDue(z, o)
  /\ \A o \in Frames : z.seen["M1"] < NextDue(z, o)

\* A zone with a raid.
Raided == Sequence \cup {"CONFIRMED"}
RaidInv(z) ==
  /\ z.st \in Raided =>
       /\ z.seq.tf # "M1" /\ Multiple(z.seq.raid, Span[z.seq.tf])
       /\ Span[z.seq.tf] <= z.seq.raid /\ z.seq.raid <= z.seen[z.seq.tf]
  /\ z.st \in {"SHIFT", "GAP", "RETURN", "CONFIRMED"} => z.seq.raid + 2 * Span[z.seq.tf] <= z.seen[z.seq.tf]
  /\ z.st \in {"RAID", "SHIFT", "GAP"} => z.from <= z.seq.raid

\* SequenceIntact and WindowsHold, of one zone; candle 2 has been seen to close back inside.
Intact(z) ==
  /\ z.st \in {"WATCH", "MONITOR", "DEAD"} => z.seq = NoSeq
  /\ z.st \in {"SHIFT", "GAP", "RETURN", "CONFIRMED"} => z.seq.type7
  /\ z.st \in {"GAP", "RETURN", "CONFIRMED"} => z.seq.raid < z.seq.mss /\ z.seq.mss <= now
  /\ z.st \in {"RETURN", "CONFIRMED"} =>
       z.seq.fvg \in z.seq.mss .. (z.seq.mss + Footprint - 1) /\ z.seq.fvg < now
  /\ z.seq.pending => z.st \in {"RETURN", "CONFIRMED"} /\ z.from > z.seq.fvg + 1
Windows(z) ==
  LET s == z.seq
  IN /\ z.st = "RAID" =>
          /\ z.seen[s.tf] - s.raid <= DispWindow * Span[s.tf]
          /\ s.raid < z.seen[s.tf] => s.type7
     /\ z.st = "SHIFT" => z.seen["M1"] < s.raid + MssWindow * Span[s.tf]
     /\ z.st = "GAP" => z.seen["M1"] < s.mss + Footprint
     /\ z.st = "RETURN" => z.from <= s.mss + RetestBars

\* Each sweep counted took a level of its own.
Taken == {l \in Levels : taken[l] > 0}
Counted(z) == z.swept \subseteq Taken /\ z.sweeps <= Cardinality(z.swept)

Sound(z) == z \in Zone /\ Orderly(z) /\ RaidInv(z) /\ Intact(z) /\ Windows(z) /\ Counted(z)
-----------------------------------------------------------------------------
(* The rows, the copies of a tick, and the plans.                           *)
Stored(k) == zones[k] # Gone /\ ~zones[k].archived
Listed(k) == map # Gone /\ k \in map.keys
Finished(k) == Stored(k) /\ zones[k].st = "CONFIRMED"

RowInv(k) ==
  /\ zones[k] # Gone => Sound(zones[k]) /\ listed[k].first = zones[k].born
  /\ zones[k] = Gone => listed[k].first = Gone
  /\ Stored(k) => Listed(k)

\* Every raid the zone has, or will have, opens after the plan's.
Past(p, z) ==
  /\ \A tf \in Frames \ {"M1"} : p.raid < z.seen[tf]
  /\ z.st \in Raided => p.raid < RaidOpen(z)

\* A copy is the row's, or a new zone that has no bar to look at in this tick.
CopyOf(k, z) ==
  /\ Sound(z) /\ ~z.archived /\ Listed(k)
  /\ z.born = IF Stored(k) THEN zones[k].born ELSE now
  /\ Finished(k) => z = zones[k]
  /\ ~Stored(k) => z.st \notin Raided /\ \A tf \in Frames : NextDue(z, tf) > now
  /\ ~Finished(k) => \A p \in plans : p.key = k => Past(p, z)
CopyInv(k) ==
  /\ run.z[k] # Gone => CopyOf(k, run.z[k])
  /\ run.pc = "zones" /\ run.z[k] = Gone => ~Stored(k)
  /\ run.pc # "zones" => run.z[k] = Gone

CurInv ==
  /\ run.pc = "zones" => map # Gone /\ run.todo \subseteq map.keys
  /\ run.cur # Gone =>
       /\ run.pc = "zones" /\ run.cur \in run.todo
       /\ run.z[run.cur] # Gone /\ run.z[run.cur].st \in Sequence \cup {"WATCH"}
       /\ ~Finished(run.cur)
       /\ broken[map.root] <= run.z[run.cur].born

\* A plan on its way: before the save, and after it.
ConfirmedInv ==
  \A p \in run.confirmed :
    /\ run.pc # "off" /\ Stored(p.key) /\ broken[map.root] <= zones[p.key].born
    /\ run.pc = "zones" =>
         /\ p.key \notin run.todo /\ ~Finished(p.key)
         /\ run.z[p.key] # Gone /\ run.z[p.key].st = "CONFIRMED" /\ p.raid = RaidOpen(run.z[p.key])
    /\ run.pc = "plan" =>
         /\ run.confirmed = {p} /\ Finished(p.key) /\ p.raid = RaidOpen(zones[p.key])
         /\ Cardinality({q \in plans : q.key = p.key}) < listed[p.key].times
         /\ \A q \in plans : q.key = p.key => q.raid < p.raid

\* The plans handed over, and how many a zone may still give.
PlanInv ==
  /\ IsFiniteSet(plans)
  /\ OnePlanPerRaid
  /\ \A p \in plans :
       /\ p.raid + Span["M15"] <= now
       /\ zones[p.key] # Gone /\ (zones[p.key].st = "CONFIRMED" \/ Past(p, zones[p.key]))
  /\ \A k \in Keys :
       LET given == Cardinality({p \in plans : p.key = k})
       IN given <= listed[k].times /\ (Listed(k) /\ ~Finished(k) => given < listed[k].times)

ZoneInv ==
  /\ \A k \in Keys : RowInv(k) /\ CopyInv(k)
  /\ CurInv /\ ConfirmedInv /\ PlanInv
-----------------------------------------------------------------------------
(* Whole bars.                                                              *)
LEMMA DivIs == ASSUME NEW n \in Nat, NEW s \in Nat \ {0} PROVE (n * s) \div s = n
BY SMTT(30)

LEMMA DivBounds ==
  ASSUME NEW n \in Nat, NEW s \in Nat \ {0}
  PROVE  /\ n \div s \in Nat /\ (n \div s) * s \in Nat
         /\ (n \div s) * s <= n /\ n < (n \div s) * s + s
BY SMTT(30)

LEMMA Products ==
  ASSUME NEW a \in Nat, NEW b \in Nat, NEW s \in Nat
  PROVE  /\ a * s \in Nat /\ (a + 1) * s = a * s + s
         /\ a <= b => a * s <= b * s /\ (b - a) * s = b * s - a * s
BY SMTT(30)

LEMMA TwoBars ==
  ASSUME NEW n \in Nat, NEW s \in Nat, 2 <= n
  PROVE  2 * s \in Nat /\ 2 * s <= n * s
BY SMTT(30)

LEMMA IsMultiple == ASSUME NEW n \in Nat, NEW s \in Nat \ {0} PROVE Multiple(n * s, s)
<1>1. n * s \in Nat /\ n <= n * s
  BY SMTT(30)
<1>2. n \in 0 .. n * s
  BY <1>1
<1>3. QED
  BY <1>2 DEF Multiple

LEMMA NextMultiple == ASSUME NEW x \in Nat, NEW s \in Nat \ {0}, Multiple(x, s) PROVE Multiple(x + s, s)
<1>1. PICK n \in Nat : x = n * s
  BY DEF Multiple
<1>2. x + s = (n + 1) * s
  BY <1>1, Products
<1>3. n + 1 \in Nat
  OBVIOUS
<1>4. Multiple((n + 1) * s, s)
  BY <1>3, IsMultiple
<1>5. QED
  BY <1>2, <1>4

\* A whole number of bars later is at least one bar later.
LEMMA BarsApart ==
  ASSUME NEW x \in Nat, NEW y \in Nat, NEW s \in Nat \ {0}, Multiple(x, s), Multiple(y, s)
  PROVE  /\ x < y => x + s <= y
         /\ x <= y => (y - x) \div s \in Nat /\ y - x = ((y - x) \div s) * s
<1>1. PICK a \in Nat, b \in Nat : x = a * s /\ y = b * s
  BY DEF Multiple
<1>2. ASSUME x < y PROVE x + s <= y
  <2>1. ~(b <= a)
    BY <1>1, <1>2, Products
  <2>2. (a + 1) * s <= b * s
    BY <2>1, Products
  <2>3. QED
    BY <1>1, <2>2, Products
<1>3. ASSUME x <= y PROVE (y - x) \div s \in Nat /\ y - x = ((y - x) \div s) * s
  <2>1. a <= b
    BY <1>1, <1>2, <1>3, Products
  <2>2. y - x = (b - a) * s /\ b - a \in Nat
    BY <1>1, <2>1, Products
  <2>3. QED
    BY <2>2, DivIs
<1>4. QED
  BY <1>2, <1>3

\* The last bar of a frame that has closed.
LEMMA LastCloses ==
  ASSUME now \in Times, NEW tf \in Frames
  PROVE  /\ LastClose(tf) \in Times /\ LastClose(tf) <= now /\ now < LastClose(tf) + Span[tf]
         /\ Multiple(LastClose(tf), Span[tf])
<1>1. now \in Nat /\ Span[tf] \in Nat \ {0} /\ now <= Horizon /\ Horizon \in Nat
  BY FramesAssumption, WindowsAssumption DEF Times
<1>2. now \div Span[tf] \in Nat /\ LastClose(tf) \in Nat /\ LastClose(tf) <= now /\ now < LastClose(tf) + Span[tf]
  BY <1>1, DivBounds DEF LastClose
<1>3. Multiple(LastClose(tf), Span[tf])
  BY <1>1, <1>2, IsMultiple DEF LastClose
<1>4. QED
  BY <1>1, <1>2, <1>3 DEF Times
-----------------------------------------------------------------------------
(* The moves of one zone, field by field.                                   *)
Alike(z, w) == w.seen = z.seen /\ w.born = z.born /\ w.archived = z.archived
Keeps(z, w) == w \in Zone /\ Alike(z, w) /\ w.swept = z.swept
SameRaid(z, w) == w.seq.raid = z.seq.raid /\ w.seq.tf = z.seq.tf

LEMMA SeqFields ==
  /\ NoSeq \in Seq /\ NoSeq.pending = FALSE
  /\ \A z \in Zone :
       /\ z.seq \in Seq /\ z.sweeps \in Nat /\ z.swept \subseteq Levels /\ z.from \in Nat /\ z.born \in Nat
       /\ z.seen \in [Frames -> Nat] /\ z.st \in ZoneStates
       /\ z.seq.raid \in Nat /\ z.seq.mss \in Nat /\ z.seq.fvg \in Nat /\ z.seq.tf \in Frames
       /\ z.seq.type7 \in BOOLEAN /\ z.seq.pending \in BOOLEAN
BY WindowsAssumption DEF NoSeq, Seq, Times, Frames, Zone

LEMMA ClearFields ==
  ASSUME NEW z \in Zone
  PROVE  LET w == ClearSequence(z)
         IN Keeps(z, w) /\ w.st = "WATCH" /\ w.seq = NoSeq /\ w.from = z.from /\ w.sweeps = z.sweeps
BY SeqFields DEF ClearSequence, Keeps, Alike, Zone, ZoneStates

LEMMA MonitorFields ==
  ASSUME NEW z \in Zone, map \in Maps
  PROVE  LET w == Monitored(z)
         IN Keeps(z, w) /\ w.st = "MONITOR" /\ w.seq = NoSeq /\ w.from = z.from /\ w.sweeps = z.sweeps
<1>1. Hash(map) \in StructHash \cup {Gone}
  BY DEF Hash, StructHash, Maps
<1>2. QED
  BY <1>1, SeqFields DEF Monitored, ClearSequence, Keeps, Alike, Zone, ZoneStates

LEMMA ConfirmedFields ==
  ASSUME NEW z \in Zone
  PROVE  LET w == Confirmed(z)
         IN Keeps(z, w) /\ w.st = "CONFIRMED" /\ w.seq = z.seq /\ w.from = z.from /\ w.sweeps = 0
BY DEF Confirmed, Keeps, Alike, Zone, ZoneStates

LEMMA FromFields ==
  ASSUME NEW z \in Zone, NEW k \in Times
  PROVE  LET w == [z EXCEPT !.from = k]
         IN Keeps(z, w) /\ w.st = z.st /\ w.seq = z.seq /\ w.from = k /\ w.sweeps = z.sweeps
BY DEF Keeps, Alike, Zone

LEMMA PendingFields ==
  ASSUME NEW z \in Zone
  PROVE  LET p == [z EXCEPT !.seq.pending = TRUE]
         IN /\ Keeps(z, p) /\ p.st = z.st /\ p.from = z.from /\ p.sweeps = z.sweeps /\ SameRaid(z, p)
            /\ p.seq.type7 = z.seq.type7 /\ p.seq.mss = z.seq.mss /\ p.seq.fvg = z.seq.fvg
BY DEF Keeps, Alike, SameRaid, Zone, Seq

LEMMA ReturnFields ==
  ASSUME NEW z \in Zone, NEW b \in Times
  PROVE  LET r == [z EXCEPT !.st = "RETURN", !.seq.fvg = b]
         IN /\ Keeps(z, r) /\ r.st = "RETURN" /\ r.from = z.from /\ r.sweeps = z.sweeps /\ SameRaid(z, r)
            /\ r.seq.type7 = z.seq.type7 /\ r.seq.mss = z.seq.mss /\ r.seq.fvg = b /\ r.seq.pending = z.seq.pending
BY DEF Keeps, Alike, SameRaid, Zone, Seq, ZoneStates, Sequence

LEMMA GapFields ==
  ASSUME NEW z \in Zone, NEW b \in Times
  PROVE  LET g == [z EXCEPT !.st = "GAP", !.seq.mss = b]
         IN /\ Keeps(z, g) /\ g.st = "GAP" /\ g.from = z.from /\ g.sweeps = z.sweeps /\ SameRaid(z, g)
            /\ g.seq.type7 = z.seq.type7 /\ g.seq.mss = b /\ g.seq.pending = z.seq.pending
BY DEF Keeps, Alike, SameRaid, Zone, Seq, ZoneStates, Sequence

LEMMA Type7Fields ==
  ASSUME NEW z \in Zone, NEW j
  PROVE  LET w == Type7(z, j)
             s == [w EXCEPT !.st = "SHIFT"]
         IN /\ Keeps(z, w) /\ w.st = z.st /\ w.from = z.from /\ w.sweeps = z.sweeps /\ SameRaid(z, w)
            /\ w.seq.type7 = (z.seq.type7 \/ j = 1) /\ w.seq.pending = z.seq.pending
            /\ Keeps(z, s) /\ s.st = "SHIFT" /\ s.from = z.from /\ s.sweeps = z.sweeps /\ SameRaid(z, s)
            /\ s.seq.type7 = (z.seq.type7 \/ j = 1) /\ s.seq.pending = z.seq.pending
<1> DEFINE w == Type7(z, j)
           s == [w EXCEPT !.st = "SHIFT"]
<1>1. (z.seq.type7 \/ j = 1) \in BOOLEAN
  OBVIOUS
<1>2. /\ Keeps(z, w) /\ w.st = z.st /\ w.from = z.from /\ w.sweeps = z.sweeps /\ SameRaid(z, w)
      /\ w.seq.type7 = (z.seq.type7 \/ j = 1) /\ w.seq.pending = z.seq.pending
  BY <1>1 DEF Type7, Keeps, Alike, SameRaid, Zone, Seq
<1> HIDE DEF w
<1>3. w \in Zone
  BY <1>2 DEF Keeps
<1>4. Keeps(w, s) /\ s.st = "SHIFT" /\ s.from = w.from /\ s.sweeps = w.sweeps /\ s.seq = w.seq
  BY <1>3 DEF Keeps, Alike, Zone, ZoneStates, Sequence
<1>5. QED
  BY <1>2, <1>4 DEF Keeps, Alike, SameRaid, w

\* An M15 bar may touch the zone's anchor or close beyond it.
Anchored(z, touched, beyond) == [z EXCEPT !.reached = @ \/ touched, !.violated = @ \/ beyond]
AnchoredAs(z, w) == Keeps(z, w) /\ w.st = z.st /\ w.seq = z.seq /\ w.from = z.from /\ w.sweeps = z.sweeps
LEMMA AnchorFields ==
  ASSUME NEW z \in Zone, NEW touched \in BOOLEAN, NEW beyond \in BOOLEAN
  PROVE  AnchoredAs(z, Anchored(z, touched, beyond))
<1>1. z.reached \in BOOLEAN /\ z.violated \in BOOLEAN
  BY DEF Zone
<1>2. (z.reached \/ touched) \in BOOLEAN /\ (z.violated \/ beyond) \in BOOLEAN
  OBVIOUS
<1>3. QED
  BY <1>2 DEF Anchored, AnchoredAs, Keeps, Alike, Zone

LEMMA SeenFields ==
  ASSUME NEW z \in Zone, NEW tf \in Frames, NEW t \in Times
  PROVE  LET w == [z EXCEPT !.seen[tf] = t]
         IN /\ w \in Zone /\ w.born = z.born /\ w.archived = z.archived /\ w.swept = z.swept
            /\ w.st = z.st /\ w.seq = z.seq /\ w.from = z.from /\ w.sweeps = z.sweeps
            /\ w.seen = [z.seen EXCEPT ![tf] = t]
BY DEF Zone

LEMMA FreshFields ==
  ASSUME NEW z \in Zone
  PROVE  LET w == Fresh(z)
         IN w \in Zone /\ Alike(z, w) /\ w.swept = {} /\ w.st = "WATCH" /\ w.seq = NoSeq /\ w.from = 0 /\ w.sweeps = 0
<1>1. NoSeq \in Seq /\ 0 \in Times /\ {} \in SUBSET Levels
  BY SeqFields, WindowsAssumption DEF Times
<1>2. QED
  BY <1>1 DEF Fresh, Alike, Zone, ZoneStates
-----------------------------------------------------------------------------
(* What the current zone may become on a bar that closes at t.              *)
Ready(z, t) ==
  /\ z \in Zone /\ Orderly(z) /\ Counted(z)
  /\ now \in Times /\ t \in Times /\ t <= now /\ z.from <= t /\ z.seen["M1"] <= t
  /\ \A o \in Frames : t <= NextDue(z, o)

\* A plan for copy w is noted, and the event loop ends.
Notes(w) ==
  \E bar \in Times :
    run' = [run EXCEPT !.z[Cur] = w, !.cur = Gone, !.todo = @ \ {Cur},
              !.confirmed = @ \cup {[key |-> Cur, raid |-> RaidOpen(w), bar |-> bar, at |-> now]}]
Becomes(w) ==
  \/ Keep(w) /\ w.st \in Sequence \cup {"WATCH"}
  \/ Leave(w) /\ w.st \notin Raided
  \/ Notes(w) /\ w.st = "CONFIRMED"
Outcome(z) ==
  \E w \in Zone : Sound(w) /\ Alike(z, w) /\ (w.st \in Raided => SameRaid(z, w)) /\ Becomes(w)

LEMMA ReadyKept ==
  ASSUME NEW z, NEW w, NEW t, Ready(z, t), Keeps(z, w), w.from \in Nat, w.from <= t, w.sweeps \in Nat, w.sweeps <= z.sweeps
  PROVE  Ready(w, t) /\ Orderly(w) /\ Counted(w)
<1>1. t \in Nat
  BY WindowsAssumption DEF Ready, Times
<1>2. Orderly(w)
  <2>1. \A tf \in Frames : w.from <= NextDue(w, tf)
    <3>1. ASSUME NEW tf \in Frames PROVE NextDue(z, tf) \in Nat
      BY FramesAssumption, SeqFields DEF NextDue, Ready
    <3>2. QED
      BY <1>1, <3>1 DEF Ready, Keeps, Alike, NextDue
  <2>2. QED
    BY <2>1 DEF Ready, Orderly, Keeps, Alike, NextDue
<1>3. Counted(w)
  <2>1. IsFiniteSet(z.swept)
    BY SeqFields, LevelsAssumption, FS_Subset DEF Ready
  <2>2. Cardinality(z.swept) \in Nat /\ z.sweeps \in Nat
    BY <2>1, SeqFields, FS_CardinalityType DEF Ready
  <2>3. QED
    BY <2>2 DEF Ready, Counted, Keeps
<1>4. QED
  BY <1>2, <1>3 DEF Ready, Keeps, Alike, NextDue

\* Back to WATCH, or on to MONITOR: nothing of the sequence is left.
LEMMA UnraidedSound ==
  ASSUME NEW z, NEW t, Ready(z, t), z.st \in {"WATCH", "MONITOR", "DEAD"}, z.seq = NoSeq
  PROVE  Sound(z)
<1>1. z.seq.pending = FALSE
  BY SeqFields
<1>2. QED
  BY <1>1 DEF Sound, Ready, RaidInv, Intact, Windows, Raided, Sequence

LEMMA ClearReady ==
  ASSUME NEW z, NEW t, Ready(z, t), map \in Maps
  PROVE  /\ Sound(ClearSequence(z)) /\ Sound(Monitored(z))
         /\ Alike(z, ClearSequence(z)) /\ Alike(z, Monitored(z))
         /\ ClearSequence(z).st = "WATCH" /\ Monitored(z).st = "MONITOR"
<1>1. z \in Zone /\ z.from \in Nat /\ z.from <= t /\ z.sweeps \in Nat
  BY SeqFields DEF Ready
<1>2. Ready(ClearSequence(z), t)
  BY <1>1, ReadyKept, ClearFields
<1>3. Ready(Monitored(z), t)
  BY <1>1, ReadyKept, MonitorFields
<1>4. QED
  BY <1>1, <1>2, <1>3, UnraidedSound, ClearFields, MonitorFields DEF Keeps

LEMMA NoiseOutcome ==
  ASSUME NEW z, NEW t, Ready(z, t), map \in Maps, Noise(z) \/ Monitor(z) \/ Keep(ClearSequence(z))
  PROVE  Outcome(z)
<1>1. CASE Keep(ClearSequence(z))
  BY <1>1, ClearReady DEF Outcome, Becomes, Sound, Raided, Sequence
<1>2. CASE Monitor(z)
  BY <1>2, ClearReady DEF Outcome, Becomes, Sound, Raided, Sequence, Monitor
<1>3. QED
  BY <1>1, <1>2 DEF Noise

LEMMA ConfirmOutcome ==
  ASSUME NEW z, NEW t, Ready(z, t), map \in Maps, NEW bar \in Times,
         z.st = "RETURN", RaidInv(z), Intact(z), Confirm(z, bar, t)
  PROVE  Outcome(z)
<1>1. CASE Keep(ClearSequence(z))
  BY <1>1, NoiseOutcome
<1> DEFINE w == Confirmed(z)
<1>2. Keeps(z, w) /\ w.st = "CONFIRMED" /\ w.seq = z.seq /\ w.from = z.from /\ w.sweeps = 0
  BY ConfirmedFields DEF Ready
<1>3. z.sweeps \in Nat /\ z.from \in Nat /\ z.from <= t
  BY SeqFields DEF Ready
<1>4. RaidOpen(w) = RaidOpen(z)
  BY <1>2 DEF RaidOpen
<1>5. CASE run' = [run EXCEPT !.z[Cur] = Confirmed(z), !.cur = Gone, !.todo = @ \ {Cur},
                  !.confirmed = @ \cup {[key |-> Cur, raid |-> RaidOpen(z), bar |-> bar, at |-> now]}]
  <2>1. Notes(w)
    BY <1>4, <1>5 DEF Notes
  <2> HIDE DEF w
  <2>2. Orderly(w) /\ Counted(w)
    BY <1>2, <1>3, ReadyKept
  <2>3. RaidInv(w) /\ Intact(w) /\ Windows(w)
    BY <1>2 DEF RaidInv, Intact, Windows, Raided, Sequence, Keeps, Alike
  <2>4. QED
    BY <1>2, <2>1, <2>2, <2>3 DEF Outcome, Becomes, Sound, Keeps, SameRaid
<1>6. QED
  BY <1>1, <1>5 DEF Confirm

LEMMA OutcomeOf ==
  ASSUME NEW z, NEW w, Alike(z, w), SameRaid(z, w), Outcome(w)
  PROVE  Outcome(z)
BY DEF Outcome, Alike, SameRaid

\* A zone that stays in its sequence: what Ready leaves to show.
LEMMA StaysOutcome ==
  ASSUME NEW z, NEW t, Ready(z, t), z.st \in Sequence, RaidInv(z), Intact(z), Windows(z), Keep(z)
  PROVE  Outcome(z)
BY DEF Outcome, Becomes, Sound, Ready, Alike, SameRaid

Retesting(z, t) ==
  Ready(z, t) /\ z.st = "RETURN" /\ RaidInv(z) /\ Intact(z) /\ z.from <= z.seq.mss + RetestBars

LEMMA RetestAt ==
  ASSUME NEW z, NEW t, Retesting(z, t), NEW k \in Times, k <= t, k > z.seq.fvg + 1
  PROVE  LET w == [z EXCEPT !.from = k]
         IN /\ Ready(w, t) /\ w.st = "RETURN" /\ RaidInv(w) /\ Intact(w) /\ Alike(z, w) /\ SameRaid(z, w)
            /\ w.from = k /\ w.seq = z.seq
<1> DEFINE w == [z EXCEPT !.from = k]
<1>1. z \in Zone /\ k \in Nat /\ z.sweeps \in Nat
  BY WindowsAssumption, SeqFields DEF Retesting, Ready, Times
<1>2. Keeps(z, w) /\ w.st = z.st /\ w.seq = z.seq /\ w.from = k /\ w.sweeps = z.sweeps
  BY <1>1, FromFields
<1> HIDE DEF w
<1>3. Ready(w, t)
  BY <1>1, <1>2, ReadyKept DEF Retesting
<1>4. RaidInv(w) /\ Intact(w) /\ SameRaid(z, w)
  BY <1>2 DEF Retesting, RaidInv, Intact, Raided, Sequence, Keeps, Alike, SameRaid
<1>5. QED
  BY <1>2, <1>3, <1>4 DEF Keeps, Retesting, w

LEMMA RetestWaits ==
  ASSUME NEW z, NEW t, Ready(z, t), z.st = "RETURN", RaidInv(z), Intact(z), z.from > z.seq.fvg + 1
  PROVE  LET w == [z EXCEPT !.seq.pending = TRUE]
         IN /\ Ready(w, t) /\ w.st = "RETURN" /\ RaidInv(w) /\ Intact(w) /\ Alike(z, w) /\ SameRaid(z, w)
            /\ w.from = z.from /\ w.seq.mss = z.seq.mss
<1> DEFINE w == [z EXCEPT !.seq.pending = TRUE]
<1>1. z \in Zone /\ z.sweeps \in Nat /\ z.from \in Nat /\ z.from <= t
  BY SeqFields DEF Ready
<1>2. /\ Keeps(z, w) /\ w.st = z.st /\ w.from = z.from /\ w.sweeps = z.sweeps /\ SameRaid(z, w)
      /\ w.seq.type7 = z.seq.type7 /\ w.seq.mss = z.seq.mss /\ w.seq.fvg = z.seq.fvg
  BY <1>1, PendingFields
<1> HIDE DEF w
<1>3. Ready(w, t)
  BY <1>1, <1>2, ReadyKept
<1>4. RaidInv(w) /\ Intact(w)
  BY <1>2 DEF RaidInv, Intact, Raided, Sequence, Keeps, Alike, SameRaid
<1>5. QED
  BY <1>2, <1>3, <1>4 DEF Keeps, w

LEMMA RetestOutcome ==
  ASSUME NEW z, NEW t, Retesting(z, t), map \in Maps, RetestScan(z, t)
  PROVE  Outcome(z)
<1> DEFINE first == Max2(z.seq.fvg + 1, z.from) + 1
           at(k) == [z EXCEPT !.from = k]
           waiting(k) == [at(k) EXCEPT !.seq.pending = TRUE]
           untouched(k) == \A b \in first .. (k - 1) : b - z.seq.mss < RetestBars
<1>1. /\ z \in Zone /\ z.seq.fvg \in Nat /\ z.from \in Nat /\ z.seq.mss \in Nat
      /\ t \in Nat /\ t <= Horizon /\ RetestBars \in Nat /\ Horizon \in Nat
  BY WindowsAssumption, SeqFields DEF Retesting, Ready, Times
<1>2. first \in Nat /\ first > z.seq.fvg + 1
  BY <1>1 DEF Max2
<1> HIDE DEF first
<1>3. ASSUME NEW k, k \in first .. t
      PROVE  /\ Ready(at(k), t) /\ at(k).st = "RETURN" /\ RaidInv(at(k)) /\ Intact(at(k)) /\ Alike(z, at(k)) /\ SameRaid(z, at(k))
             /\ at(k).from = k /\ at(k).seq = z.seq
             /\ Ready(waiting(k), t) /\ waiting(k).st = "RETURN" /\ RaidInv(waiting(k)) /\ Intact(waiting(k))
             /\ Alike(z, waiting(k)) /\ SameRaid(z, waiting(k))
             /\ waiting(k).from = k /\ waiting(k).seq.mss = z.seq.mss /\ k \in Times
  <2>1. k \in Times /\ k <= t /\ k > z.seq.fvg + 1
    BY <1>1, <1>2, <1>3 DEF Times
  <2>2. /\ Ready(at(k), t) /\ at(k).st = "RETURN" /\ RaidInv(at(k)) /\ Intact(at(k)) /\ Alike(z, at(k)) /\ SameRaid(z, at(k))
        /\ at(k).from = k /\ at(k).seq = z.seq
    BY <2>1, RetestAt
  <2> HIDE DEF at
  <2>3. at(k).from > at(k).seq.fvg + 1
    BY <2>1, <2>2
  <2>4. /\ Ready(waiting(k), t) /\ waiting(k).st = "RETURN" /\ RaidInv(waiting(k)) /\ Intact(waiting(k))
        /\ Alike(z, waiting(k)) /\ SameRaid(z, waiting(k))
        /\ waiting(k).from = k /\ waiting(k).seq.mss = z.seq.mss
    BY <2>1, <2>2, <2>3, RetestWaits DEF Alike, SameRaid
  <2>5. QED
    BY <2>1, <2>2, <2>4
<1> HIDE DEF at, waiting
<1>4. ASSUME NEW k, k \in first .. t, NEW n, Noise(at(k)) \/ Noise(waiting(k)) \/ Confirm(at(k), n, t) \/ Confirm(waiting(k), n, t),
             n \in Times
      PROVE  Outcome(z)
  BY <1>3, <1>4, NoiseOutcome, ConfirmOutcome, OutcomeOf
<1>5. CASE first > t /\ Keep(z)
  <2>1. Windows(z)
    BY DEF Retesting, Windows
  <2>2. QED
    BY <1>5, <2>1, StaysOutcome DEF Retesting, Sequence
<1>6. CASE first <= t /\ (Noise(at(first)) \/ Confirm(at(first), first, t))
  <2>1. first \in first .. t
    BY <1>1, <1>2, <1>6
  <2>2. QED
    BY <1>3, <1>4, <1>6, <2>1
<1>7. CASE first <= t /\ untouched(t + 1) /\ Keep(at(t))
  <2>1. t \in first .. t /\ t \in first .. ((t + 1) - 1)
    BY <1>1, <1>2, <1>7
  <2>2. t - z.seq.mss < RetestBars
    BY <1>7, <2>1
  <2>3. Windows(at(t))
    BY <1>1, <1>3, <2>1, <2>2 DEF Windows
  <2>4. Outcome(at(t))
    BY <1>3, <1>7, <2>1, <2>3, StaysOutcome DEF Sequence
  <2>5. QED
    BY <1>3, <2>1, <2>4, OutcomeOf
<1>8. ASSUME NEW k \in first .. t,
             \/ Noise(at(k))
             \/ k - z.seq.mss <= RetestBars /\ Confirm(at(k), k, t)
             \/ /\ k - z.seq.mss <= RetestBars
                /\ \/ k = t /\ Keep(waiting(k))
                   \/ k < t /\ (Noise(waiting(k + 1)) \/ Confirm(waiting(k + 1), k + 1, t))
      PROVE  Outcome(z)
  <2>1. k \in Times
    BY <1>3
  <2>2. CASE Noise(at(k)) \/ Confirm(at(k), k, t)
    BY <1>4, <2>1, <2>2
  <2>3. CASE k - z.seq.mss <= RetestBars /\ k = t /\ Keep(waiting(k))
    <3>1. waiting(k).from <= waiting(k).seq.mss + RetestBars
      BY <1>1, <1>3, <2>3
    <3>2. Windows(waiting(k))
      BY <1>3, <3>1 DEF Windows
    <3>3. Outcome(waiting(k))
      BY <1>3, <2>3, <3>2, StaysOutcome DEF Sequence
    <3>4. QED
      BY <1>3, <3>3, OutcomeOf
  <2>4. CASE k < t /\ (Noise(waiting(k + 1)) \/ Confirm(waiting(k + 1), k + 1, t))
    <3>1. k + 1 \in first .. t
      BY <1>1, <1>2, <2>4
    <3>2. QED
      BY <1>3, <1>4, <2>4, <3>1
  <2>5. QED
    BY <1>8, <2>2, <2>3, <2>4
<1>9. QED
  BY <1>5, <1>6, <1>7, <1>8 DEF RetestScan, first, at, waiting

LEMMA GapOutcome ==
  ASSUME NEW z, NEW t, Ready(z, t), map \in Maps, z.st = "GAP", RaidInv(z), Intact(z), GapEval(z, t)
  PROVE  Outcome(z)
<1>1. /\ z \in Zone /\ z.seq.mss \in Nat /\ z.from \in Nat /\ z.seq.raid \in Nat /\ z.sweeps \in Nat
      /\ z.from <= t /\ t \in Nat /\ t <= now /\ t <= Horizon /\ now \in Nat /\ Footprint \in Nat \ {0} /\ RetestBars \in Nat /\ Horizon \in Nat
  BY WindowsAssumption, SeqFields, FramesAssumption DEF Ready, Orderly, Times
<1>2. CASE t < z.seq.mss + Footprint /\ Keep(z)
  <2>1. z.seen["M1"] <= t /\ z.seen["M1"] \in Nat
    BY <1>1, SeqFields DEF Ready, Frames
  <2>2. Windows(z)
    BY <1>1, <1>2, <2>1 DEF Windows
  <2>3. QED
    BY <1>2, <2>2, StaysOutcome DEF Sequence
<1>3. CASE Noise(z)
  BY <1>3, NoiseOutcome
<1>4. ASSUME t >= z.seq.mss + Footprint, NEW f \in z.seq.mss .. (z.seq.mss + Footprint - 1),
             RetestScan([z EXCEPT !.st = "RETURN", !.seq.fvg = f], t)
      PROVE  Outcome(z)
  <2> DEFINE w == [z EXCEPT !.st = "RETURN", !.seq.fvg = f]
  <2>1. f \in Times /\ f < now
    BY <1>1, <1>4 DEF Times
  <2>2. /\ Keeps(z, w) /\ w.st = "RETURN" /\ w.from = z.from /\ w.sweeps = z.sweeps /\ SameRaid(z, w)
        /\ w.seq.type7 = z.seq.type7 /\ w.seq.mss = z.seq.mss /\ w.seq.fvg = f /\ w.seq.pending = z.seq.pending
    BY <1>1, <2>1, ReturnFields
  <2> HIDE DEF w
  <2>3. Ready(w, t)
    BY <1>1, <2>2, ReadyKept
  <2>4. RaidInv(w)
    BY <2>2 DEF RaidInv, Raided, Sequence, Keeps, Alike, SameRaid
  <2>5. Intact(w)
    BY <1>4, <2>1, <2>2 DEF Intact, SameRaid
  <2>6. w.from <= w.seq.mss + RetestBars
    BY <1>1, <2>2 DEF RaidInv, Intact
  <2>7. Outcome(w)
    BY <1>4, <2>2, <2>3, <2>4, <2>5, <2>6, RetestOutcome DEF Retesting, w
  <2>8. QED
    BY <2>2, <2>7, OutcomeOf DEF Keeps
<1>5. QED
  BY <1>2, <1>3, <1>4 DEF GapEval

LEMMA ShiftOutcome ==
  ASSUME NEW z, NEW t, Ready(z, t), map \in Maps, z.st = "SHIFT", RaidInv(z), Intact(z),
         NEW bars, bars \subseteq (z.seq.raid + 1) .. t, ShiftScan(z, t, bars)
  PROVE  Outcome(z)
<1>1. /\ z \in Zone /\ z.seq.raid \in Nat /\ z.from \in Nat /\ z.from <= t /\ z.sweeps \in Nat /\ z.seq.tf \in Frames
      /\ t \in Nat /\ t <= now /\ t <= Horizon /\ now \in Nat /\ Horizon \in Nat
  BY WindowsAssumption, SeqFields DEF Ready, Times
<1>2. ASSUME NEW b \in bars, GapEval([z EXCEPT !.st = "GAP", !.seq.mss = b], t) PROVE Outcome(z)
  <2> DEFINE w == [z EXCEPT !.st = "GAP", !.seq.mss = b]
  <2>1. b \in Times /\ z.seq.raid < b /\ b <= now
    BY <1>1 DEF Times
  <2>2. /\ Keeps(z, w) /\ w.st = "GAP" /\ w.from = z.from /\ w.sweeps = z.sweeps /\ SameRaid(z, w)
        /\ w.seq.type7 = z.seq.type7 /\ w.seq.mss = b /\ w.seq.pending = z.seq.pending
    BY <1>1, <2>1, GapFields
  <2> HIDE DEF w
  <2>3. Ready(w, t)
    BY <1>1, <2>2, ReadyKept
  <2>4. RaidInv(w)
    BY <2>2 DEF RaidInv, Raided, Sequence, Keeps, Alike, SameRaid
  <2>5. Intact(w)
    BY <2>1, <2>2 DEF Intact, SameRaid
  <2>6. Outcome(w)
    BY <1>2, <2>2, <2>3, <2>4, <2>5, GapOutcome DEF w
  <2>7. QED
    BY <2>2, <2>6, OutcomeOf DEF Keeps
<1>3. CASE Noise(z)
  BY <1>3, NoiseOutcome
<1>4. CASE ~MssOver(z, t) /\ Keep(z)
  <2> DEFINE late == MssWindow * Span[z.seq.tf]
  <2>1. late \in Nat
    BY <1>1, Products, FramesAssumption, WindowsAssumption
  <2>2. ~(t >= z.seq.raid + late)
    BY <1>4 DEF MssOver
  <2> HIDE DEF late
  <2>3. z.seen["M1"] <= t /\ z.seen["M1"] \in Nat
    BY <1>1, SeqFields DEF Ready, Frames
  <2>4. z.seen["M1"] < z.seq.raid + late
    BY <1>1, <2>1, <2>2, <2>3
  <2>5. Windows(z)
    BY <2>4 DEF Windows, late
  <2>6. QED
    BY <1>4, <2>5, StaysOutcome DEF Sequence
<1>5. QED
  BY <1>2, <1>3, <1>4 DEF ShiftScan

\* The bar after the raid, and those after it, of the raid's own frame.
LEMMA RaidOutcome ==
  ASSUME NEW z, NEW t, Ready(z, t), map \in Maps, z.st = "RAID", RaidInv(z), Intact(z),
         z.seen[z.seq.tf] = t, z.seq.raid < t, z.seq.raid + Span[z.seq.tf] < t => z.seq.type7, Raid(z, t)
  PROVE  Outcome(z)
<1> DEFINE s == Span[z.seq.tf]
           j == (t - z.seq.raid) \div s
           z7 == Type7(z, j)
           shift == [z7 EXCEPT !.st = "SHIFT"]
<1>1. /\ z \in Zone /\ z.seq.raid \in Nat /\ z.from \in Nat /\ z.from <= t /\ z.sweeps \in Nat /\ z.seq.tf \in Frames
      /\ t \in Nat /\ s \in Nat \ {0} /\ z.seq.type7 \in BOOLEAN /\ DispWindow \in Nat
  BY WindowsAssumption, FramesAssumption, SeqFields DEF Ready, Times
<1>2. Multiple(z.seq.raid, s) /\ Multiple(t, s)
  BY <1>1 DEF RaidInv, Raided, Sequence, Ready, Orderly
<1>3. j \in Nat /\ t - z.seq.raid = j * s
  <2> HIDE DEF s
  <2>1. z.seq.raid <= t
    BY <1>1
  <2>2. QED
    BY <1>1, <1>2, <2>1, BarsApart
<1>4. /\ Keeps(z, z7) /\ z7.st = z.st /\ z7.from = z.from /\ z7.sweeps = z.sweeps /\ SameRaid(z, z7)
      /\ z7.seq.type7 = (z.seq.type7 \/ j = 1) /\ z7.seq.pending = z.seq.pending
      /\ Keeps(z, shift) /\ shift.st = "SHIFT" /\ shift.from = z.from /\ shift.sweeps = z.sweeps /\ SameRaid(z, shift)
      /\ shift.seq.type7 = (z.seq.type7 \/ j = 1) /\ shift.seq.pending = z.seq.pending
  BY <1>1, Type7Fields
<1>5. \/ Noise(z) \/ Noise(z7)
      \/ j - 1 \in 1 .. DispWindow /\ ShiftScan(shift, t, (z.seq.raid + 1) .. t)
      \/ j < DispWindow + 1 /\ Keep(z7)
  BY DEF Raid
<1> HIDE DEF shift, z7, j
<1>6. Ready(z7, t) /\ Ready(shift, t)
  BY <1>1, <1>4, ReadyKept
<1>7. Outcome(z7) => Outcome(z)
  BY <1>4, OutcomeOf DEF Keeps
<1>8. Outcome(shift) => Outcome(z)
  BY <1>4, OutcomeOf DEF Keeps
<1>9. CASE Noise(z) \/ Noise(z7)
  BY <1>6, <1>7, <1>9, NoiseOutcome
<1>10. CASE j - 1 \in 1 .. DispWindow /\ ShiftScan(shift, t, (z.seq.raid + 1) .. t)
  <2>1. 2 * s <= j * s /\ 2 * s \in Nat
    <3> HIDE DEF s
    <3>1. 2 <= j /\ j \in Nat /\ s \in Nat
      BY <1>1, <1>3, <1>10
    <3>2. QED
      BY <3>1, TwoBars
  <2>2. z.seq.raid + 2 * s <= t /\ z.seq.raid + s < t
    BY <1>1, <1>3, <2>1
  <2>3. z.seq.type7
    BY <2>2
  <2>4. RaidInv(shift)
    BY <1>4, <2>2 DEF RaidInv, Raided, Sequence, Keeps, Alike, SameRaid
  <2>5. Intact(shift)
    BY <1>4, <2>3 DEF Intact
  <2>6. (z.seq.raid + 1) .. t \subseteq (shift.seq.raid + 1) .. t
    BY <1>4 DEF SameRaid
  <2>7. Outcome(shift)
    BY <1>4, <1>6, <1>10, <2>4, <2>5, <2>6, ShiftOutcome
  <2>8. QED
    BY <1>8, <2>7
<1>11. CASE j < DispWindow + 1 /\ Keep(z7)
  <2>1. j * s <= DispWindow * s
    BY <1>1, <1>3, <1>11, Products
  <2>2. t - z.seq.raid <= DispWindow * s
    BY <1>3, <2>1
  <2>3. z7.seq.type7
    <3>1. CASE j = 1
      BY <1>4, <3>1
    <3>2. CASE j = 0
      <4>1. j * s = 0
        BY <1>1, <3>2
      <4>2. QED
        BY <1>1, <1>3, <4>1
    <3>3. CASE 2 <= j
      <4>1. 2 * s <= j * s /\ 2 * s \in Nat
        BY <1>1, <1>3, <3>3, TwoBars
      <4>2. z.seq.raid + s < t
        BY <1>1, <1>3, <4>1
      <4>3. QED
        BY <1>4, <4>2
    <3>4. QED
      BY <1>3, <3>1, <3>2, <3>3
  <2>4. RaidInv(z7) /\ Intact(z7)
    BY <1>4 DEF RaidInv, Intact, Raided, Sequence, Keeps, Alike, SameRaid
  <2>5. Windows(z7)
    BY <1>4, <2>2, <2>3 DEF Windows, Keeps, Alike, SameRaid
  <2>6. Outcome(z7)
    BY <1>4, <1>6, <1>11, <2>4, <2>5, StaysOutcome DEF Sequence
  <2>7. QED
    BY <1>7, <2>6
<1>12. QED
  BY <1>5, <1>9, <1>10, <1>11

\* A sweep is counted with the levels that no sweep was counted with before.
SweptZone(z, hit, t, tf) ==
  [z EXCEPT !.sweeps = @ + 1, !.swept = @ \cup hit, !.reached = TRUE,
            !.seq = [NoSeq EXCEPT !.raid = t, !.tf = tf]]
SweptAs(z, hit, t, tf, w) ==
  /\ w \in Zone /\ Alike(z, w) /\ w.st = z.st /\ w.from = z.from
  /\ w.sweeps = z.sweeps + 1 /\ w.swept = z.swept \cup hit
  /\ w.seq.raid = t /\ w.seq.tf = tf /\ w.seq.pending = FALSE
LEMMA SweptFields ==
  ASSUME NEW z \in Zone, NEW hit \in SUBSET Levels, NEW t \in Times, NEW tf \in Frames
  PROVE  SweptAs(z, hit, t, tf, SweptZone(z, hit, t, tf))
<1> DEFINE q == [NoSeq EXCEPT !.raid = t, !.tf = tf]
<1>1. q \in Seq /\ q.raid = t /\ q.tf = tf /\ q.pending = FALSE
  BY SeqFields DEF Seq
<1>2. z.sweeps + 1 \in Nat /\ z.swept \cup hit \in SUBSET Levels
  BY SeqFields
<1> HIDE DEF q
<1> DEFINE w == [z EXCEPT !.sweeps = @ + 1, !.swept = @ \cup hit, !.reached = TRUE, !.seq = q]
<1>3. /\ w \in Zone /\ Alike(z, w) /\ w.st = z.st /\ w.from = z.from
      /\ w.sweeps = z.sweeps + 1 /\ w.swept = z.swept \cup hit /\ w.seq = q
  BY <1>1, <1>2 DEF Zone, Alike
<1>4. w = SweptZone(z, hit, t, tf)
  BY DEF SweptZone, q
<1>5. QED
  BY <1>1, <1>3, <1>4 DEF SweptAs

LEMMA RaidStFields ==
  ASSUME NEW z \in Zone
  PROVE  LET w == [z EXCEPT !.st = "RAID"]
         IN Keeps(z, w) /\ w.st = "RAID" /\ w.from = z.from /\ w.sweeps = z.sweeps /\ w.seq = z.seq
BY DEF Keeps, Alike, Zone, ZoneStates, Sequence

LEMMA SweepCounted ==
  ASSUME NEW z \in Zone, Counted(z), NEW hit \in SUBSET (Taken \ z.swept), hit # {}
  PROVE  z.sweeps + 1 <= Cardinality(z.swept \cup hit)
<1>1. IsFiniteSet(z.swept) /\ IsFiniteSet(hit)
  BY LevelsAssumption, SeqFields, FS_Subset DEF Taken
<1>2. Cardinality(z.swept) \in Nat /\ Cardinality(hit) \in Nat /\ Cardinality(hit) # 0 /\ z.sweeps \in Nat
  BY <1>1, SeqFields, FS_CardinalityType, FS_EmptySet
<1>3. z.swept \cap hit = {} /\ Cardinality(z.swept \cap hit) = 0
  BY FS_EmptySet
<1>4. Cardinality(z.swept \cup hit) = Cardinality(z.swept) + Cardinality(hit) - Cardinality(z.swept \cap hit)
  BY <1>1, FS_Union
<1>5. QED
  BY <1>2, <1>3, <1>4 DEF Counted

\* The outcome of a bar of frame tf that closes at t and that a new raid may begin with.
NewOutcome(z, tf, t) ==
  \E w \in Zone : Sound(w) /\ Alike(z, w) /\ (w.st \in Raided => w.seq.raid = t /\ w.seq.tf = tf) /\ Becomes(w)

LEMMA WatchOutcome ==
  ASSUME NEW z, NEW t, NEW tf \in Frames, Ready(z, t), map \in Maps, taken \in [Levels -> Times], Cur \in Keys,
         z.st = "WATCH", Intact(z), tf # "M1", z.seen[tf] = t, Span[tf] <= t, Watch(z, tf, t)
  PROVE  NewOutcome(z, tf, t)
<1> DEFINE hit == SweptBy(z, tf, t)
           w == SweptZone(z, hit, t, tf)
           r == [w EXCEPT !.st = "RAID"]
<1>1. /\ z \in Zone /\ z.from \in Nat /\ z.from <= t /\ z.sweeps \in Nat /\ t \in Nat /\ t \in Times
      /\ Span[tf] \in Nat \ {0} /\ t - Span[tf] + 1 > 0 /\ DispWindow \in Nat
  BY WindowsAssumption, FramesAssumption, SeqFields DEF Ready, Times
<1>2. hit \in SUBSET (Taken \ z.swept) /\ hit \in SUBSET Levels
  <2>1. ASSUME NEW l \in hit PROVE l \in Taken \ z.swept
    <3>1. l \in Levels /\ l \notin z.swept /\ taken[l] \in (t - Span[tf] + 1) .. t /\ taken[l] \in Nat
      BY LevelsAssumption DEF SweptBy, Times
    <3>2. taken[l] > 0
      BY <1>1, <3>1
    <3>3. QED
      BY <3>1, <3>2 DEF Taken
  <2>2. QED
    BY <2>1 DEF Taken
<1>3. \/ hit = {} /\ Keep(z)
      \/ hit # {} /\ (Noise(w) \/ Keep(r))
  BY DEF Watch, SweptZone
<1> HIDE DEF hit
<1>4. /\ w \in Zone /\ Alike(z, w) /\ w.st = z.st /\ w.from = z.from
      /\ w.sweeps = z.sweeps + 1 /\ w.swept = z.swept \cup hit
      /\ w.seq.raid = t /\ w.seq.tf = tf /\ w.seq.pending = FALSE
  <2>1. z \in Zone /\ hit \in SUBSET Levels /\ t \in Times /\ tf \in Frames
    BY <1>1, <1>2
  <2>2. SweptAs(z, hit, t, tf, w)
    BY <2>1, SweptFields, Zenon
  <2>3. QED
    BY <2>2 DEF SweptAs
<1> HIDE DEF w
<1>5. Keeps(w, r) /\ r.st = "RAID" /\ r.from = w.from /\ r.sweeps = w.sweeps /\ r.seq = w.seq
  BY <1>4, RaidStFields
<1> HIDE DEF r
<1>6. CASE hit = {} /\ Keep(z)
  <2>1. Sound(z)
    BY UnraidedSound DEF Intact
  <2>2. QED
    BY <1>1, <1>6, <2>1 DEF NewOutcome, Becomes, Alike, Raided, Sequence
<1>7. ASSUME hit # {} PROVE Ready(w, t)
  <2>1. Counted(w)
    BY <1>1, <1>2, <1>4, <1>7, SweepCounted DEF Ready, Counted, Taken
  <2>2. Orderly(w)
    BY <1>4 DEF Ready, Orderly, Alike, NextDue
  <2>3. QED
    BY <1>4, <2>1, <2>2 DEF Ready, Alike, NextDue
<1>8. CASE hit # {} /\ Noise(w)
  <2>1. Outcome(w)
    BY <1>7, <1>8, NoiseOutcome
  <2>2. QED
    BY <1>4, <2>1 DEF Outcome, NewOutcome, Alike, SameRaid
<1>9. CASE hit # {} /\ Keep(r)
  <2>1. Ready(r, t)
    <3>1. w.sweeps \in Nat /\ r.from \in Nat /\ r.from <= t /\ r.sweeps <= w.sweeps
      BY <1>1, <1>4, <1>5
    <3>2. QED
      BY <1>4, <1>5, <1>7, <1>9, <3>1, ReadyKept
  <2>2. RaidInv(r)
    BY <1>1, <1>4, <1>5 DEF RaidInv, Raided, Sequence, Ready, Orderly, Keeps, Alike
  <2>3. Intact(r)
    BY <1>4, <1>5 DEF Intact
  <2>4. Windows(r)
    <3>1. DispWindow * Span[tf] \in Nat
      BY <1>1, Products
    <3>2. r.seen[r.seq.tf] = t /\ r.seq.raid = t
      BY <1>4, <1>5 DEF Keeps, Alike
    <3>3. r.seen[r.seq.tf] - r.seq.raid <= DispWindow * Span[r.seq.tf]
      BY <1>1, <1>4, <1>5, <3>1, <3>2
    <3>4. QED
      BY <1>1, <1>5, <3>2, <3>3 DEF Windows
  <2>5. Outcome(r)
    BY <1>5, <1>9, <2>1, <2>2, <2>3, <2>4, StaysOutcome DEF Sequence
  <2>6. QED
    BY <1>4, <1>5, <2>5 DEF Outcome, NewOutcome, Keeps, Alike, SameRaid
<1>10. QED
  BY <1>3, <1>6, <1>8, <1>9
-----------------------------------------------------------------------------
(* A bar is looked at: the next one of all frames, in the order of the closes. *)
Next4(z, tf) ==
  LET t == NextDue(z, tf)
  IN /\ t <= LastClose(tf)
     /\ \A o \in Frames : NextDue(z, o) <= LastClose(o) =>
          t <= NextDue(z, o) /\ (tf = "M1" /\ o # "M1" => t < NextDue(z, o))

LEMMA NextIs ==
  ASSUME NEW tf \in Frames, IsNext(tf), Copy \in Zone
  PROVE  Next4(Copy, tf) /\ Due(tf) = NextDue(Copy, tf)
<1>1. \A o \in Frames : Due(o) = NextDue(Copy, o) /\ Due(o) \in Nat
  BY SeqFields, FramesAssumption DEF Due, NextDue
<1>2. tf \in Pending /\ \A o \in Pending \ {tf} : Due(tf) < Due(o) \/ (Due(tf) = Due(o) /\ Rank(tf) < Rank(o))
  BY DEF IsNext
<1>3. Rank("M1") = 2 /\ \A o \in Frames : Rank(o) \in 0 .. 2
  BY DEF Rank, Frames
<1>4. QED
  BY <1>1, <1>2, <1>3 DEF Next4, Pending

LEMMA DueLater ==
  ASSUME now \in Times, NEW z \in Zone, Orderly(z), NEW tf \in Frames, Next4(z, tf), NEW o \in Frames
  PROVE  /\ NextDue(z, tf) \in Times /\ NextDue(z, tf) <= now
         /\ NextDue(z, tf) <= NextDue(z, o)
         /\ tf = "M1" /\ o # "M1" => NextDue(z, tf) < NextDue(z, o)
<1>1. /\ now \in Nat /\ Horizon \in Nat /\ now <= Horizon
      /\ LastClose(tf) \in Nat /\ LastClose(tf) <= now
      /\ LastClose(o) \in Nat /\ now < LastClose(o) + Span[o] /\ Multiple(LastClose(o), Span[o])
  BY LastCloses, WindowsAssumption DEF Times
<1>2. z.seen[tf] \in Nat /\ z.seen[o] \in Nat /\ Span[tf] \in Nat \ {0} /\ Span[o] \in Nat \ {0}
  BY SeqFields, FramesAssumption
<1>3. NextDue(z, tf) \in Nat /\ NextDue(z, o) \in Nat /\ NextDue(z, tf) <= now
  BY <1>1, <1>2 DEF NextDue, Next4
<1>4. Multiple(NextDue(z, o), Span[o])
  BY <1>2, NextMultiple DEF Orderly, NextDue
<1>5. CASE NextDue(z, o) <= LastClose(o)
  BY <1>1, <1>3, <1>5 DEF Next4, Times
<1>6. CASE LastClose(o) < NextDue(z, o)
  <2>1. LastClose(o) + Span[o] <= NextDue(z, o)
    BY <1>1, <1>2, <1>3, <1>4, <1>6, BarsApart
  <2>2. QED
    BY <1>1, <1>2, <1>3, <2>1 DEF Times
<1>7. QED
  BY <1>1, <1>3, <1>5, <1>6

\* What is known of a zone when the bar is handled.
OnBarOf(z, tf, t) ==
  /\ Ready(z, t) /\ RaidInv(z) /\ Intact(z) /\ z.seen[tf] = t /\ Span[tf] <= t
  /\ z.st \in Sequence \cup {"WATCH"}
  /\ z.st = "RAID" /\ tf = z.seq.tf => z.seq.raid < t /\ (z.seq.raid + Span[tf] < t => z.seq.type7)
  /\ z.st = "RAID" /\ tf # z.seq.tf => Windows(z)
  /\ z.st \in {"SHIFT", "GAP"} => z.seq.raid < t /\ (tf # "M1" => Windows(z))
  /\ z.st = "RETURN" => Windows(z)

LEMMA BarSeen ==
  ASSUME now \in Times, NEW z, Sound(z), z.st \in Sequence \cup {"WATCH"}, NEW tf \in Frames, Next4(z, tf)
  PROVE  OnBarOf([z EXCEPT !.seen[tf] = NextDue(z, tf)], tf, NextDue(z, tf))
<1> DEFINE t == NextDue(z, tf)
           w == [z EXCEPT !.seen[tf] = t]
<1>1. /\ z \in Zone /\ Orderly(z) /\ now \in Nat
      /\ z.seen \in [Frames -> Nat] /\ z.from \in Nat /\ z.seq.raid \in Nat /\ z.seq.tf \in Frames
      /\ \A o \in Frames : z.seen[o] \in Nat /\ Span[o] \in Nat \ {0} /\ NextDue(z, o) \in Nat
  BY SeqFields, FramesAssumption, WindowsAssumption DEF Sound, Times, NextDue
<1>2. /\ t \in Times /\ t <= now
      /\ \A o \in Frames : t <= NextDue(z, o) /\ (tf = "M1" /\ o # "M1" => t < NextDue(z, o))
  BY <1>1, DueLater
<1>3. t \in Nat /\ t = z.seen[tf] + Span[tf] /\ z.seen[tf] < t /\ Span[tf] <= t
  BY <1>1 DEF NextDue
<1> HIDE DEF t
<1>4. /\ w \in Zone /\ w.born = z.born /\ w.archived = z.archived /\ w.swept = z.swept
      /\ w.st = z.st /\ w.seq = z.seq /\ w.from = z.from /\ w.sweeps = z.sweeps
      /\ w.seen = [z.seen EXCEPT ![tf] = t]
  BY <1>1, <1>2, SeenFields
<1> HIDE DEF w
<1>5. w.seen[tf] = t /\ \A o \in Frames \ {tf} : w.seen[o] = z.seen[o]
  BY <1>1, <1>4
<1>6. \A o \in Frames : NextDue(w, o) \in Nat /\ NextDue(z, o) <= NextDue(w, o) /\ z.seen[o] <= w.seen[o]
  BY <1>1, <1>3, <1>5 DEF NextDue
<1>7. Orderly(w)
  <2>1. ASSUME NEW a \in Frames
        PROVE  w.seen[a] <= now /\ Multiple(w.seen[a], Span[a]) /\ w.from <= NextDue(w, a)
    <3>1. Multiple(t, Span[tf])
      BY <1>1, <1>3, NextMultiple DEF Orderly
    <3>2. w.seen[a] <= now /\ Multiple(w.seen[a], Span[a])
      BY <1>1, <1>2, <1>5, <3>1 DEF Orderly
    <3>3. z.from <= NextDue(z, a)
      BY <1>1 DEF Orderly
    <3>4. QED
      BY <1>1, <1>4, <1>6, <3>2, <3>3
  <2>2. ASSUME NEW a \in Frames, NEW o \in Frames PROVE w.seen[a] <= NextDue(w, o)
    <3>1. CASE a = tf
      BY <1>1, <1>2, <1>3, <1>5, <1>6, <3>1
    <3>2. CASE a # tf
      <4>1. z.seen[a] <= NextDue(z, o)
        BY <1>1 DEF Orderly
      <4>2. QED
        BY <1>1, <1>5, <1>6, <3>2, <4>1
    <3>3. QED
      BY <3>1, <3>2
  <2>3. ASSUME NEW o \in Frames PROVE w.seen["M1"] < NextDue(w, o)
    <3>1. "M1" \in Frames
      BY DEF Frames
    <3>2. CASE tf = "M1" /\ o # "M1"
      BY <1>1, <1>2, <1>3, <1>5, <1>6, <3>1, <3>2
    <3>3. CASE tf = "M1" /\ o = "M1"
      BY <1>1, <1>3, <1>5, <3>3 DEF NextDue
    <3>4. CASE tf # "M1"
      <4>1. z.seen["M1"] < NextDue(z, o)
        BY <1>1 DEF Orderly
      <4>2. QED
        BY <1>1, <1>5, <1>6, <3>1, <3>4, <4>1
    <3>5. QED
      BY <3>2, <3>3, <3>4
  <2>4. QED
    BY <1>1, <1>4, <2>1, <2>2, <2>3 DEF Orderly
<1>8. Ready(w, t)
  <2>1. z.from <= t
    BY <1>1 DEF Orderly, t
  <2>2. w.seen["M1"] <= t
    <3>1. z.seen["M1"] < t /\ z.seen["M1"] \in Nat
      BY <1>1 DEF Orderly, t, Frames
    <3>2. QED
      BY <1>3, <1>5, <3>1 DEF Frames
  <2>3. \A o \in Frames : t <= NextDue(w, o)
    BY <1>1, <1>2, <1>3, <1>6
  <2>4. Counted(w)
    BY <1>4 DEF Sound, Counted
  <2>5. QED
    BY <1>2, <1>4, <1>7, <2>1, <2>2, <2>3, <2>4 DEF Ready
<1>9. RaidInv(w) /\ Intact(w)
  <2>1. Intact(w)
    BY <1>4 DEF Sound, Intact
  <2>2. w.seen[z.seq.tf] \in Nat /\ z.seen[z.seq.tf] <= w.seen[z.seq.tf] /\ z.seen[z.seq.tf] \in Nat
    BY <1>1, <1>3, <1>5, <1>6
  <2>3. /\ z.st \in Raided => z.seq.raid <= w.seen[z.seq.tf]
        /\ z.st \in {"SHIFT", "GAP", "RETURN", "CONFIRMED"} => z.seq.raid + 2 * Span[z.seq.tf] <= w.seen[z.seq.tf]
    <3>1. z.st \in Raided => z.seq.raid <= z.seen[z.seq.tf]
      BY DEF Sound, RaidInv
    <3>2. z.st \in {"SHIFT", "GAP", "RETURN", "CONFIRMED"} => z.seq.raid + 2 * Span[z.seq.tf] <= z.seen[z.seq.tf]
      BY DEF Sound, RaidInv
    <3>3. Span[z.seq.tf] \in Nat
      BY <1>1
    <3>4. QED
      BY <1>1, <2>2, <3>1, <3>2, <3>3
  <2>4. QED
    BY <1>4, <2>1, <2>3 DEF Sound, RaidInv
<1>10. z.st = "RAID" /\ tf = z.seq.tf => z.seq.raid < t /\ (z.seq.raid + Span[tf] < t => z.seq.type7)
  <2>1. SUFFICES ASSUME z.st = "RAID", tf = z.seq.tf PROVE z.seq.raid < t /\ (z.seq.raid + Span[tf] < t => z.seq.type7)
    OBVIOUS
  <2>2. z.seq.raid <= z.seen[tf] /\ (z.seq.raid < z.seen[tf] => z.seq.type7)
    BY <2>1 DEF Sound, RaidInv, Windows, Raided, Sequence
  <2>3. QED
    BY <1>1, <1>3, <2>2
<1>11. z.st = "RAID" /\ tf # z.seq.tf => Windows(w)
  BY <1>1, <1>4, <1>5 DEF Sound, Windows
<1>12. z.st \in {"SHIFT", "GAP"} => z.seq.raid < t /\ (tf # "M1" => Windows(w))
  <2>1. SUFFICES ASSUME z.st \in {"SHIFT", "GAP"} PROVE z.seq.raid < t /\ (tf # "M1" => Windows(w))
    OBVIOUS
  <2>2. z.seq.raid + 2 * Span[z.seq.tf] <= z.seen[z.seq.tf]
    BY <2>1 DEF Sound, RaidInv
  <2>3. z.seen[z.seq.tf] <= t
    BY <1>1 DEF Orderly, t
  <2>4. z.seq.raid < t
    BY <1>1, <1>3, <2>2, <2>3
  <2>5. tf # "M1" => w.seen["M1"] = z.seen["M1"]
    BY <1>5 DEF Frames
  <2>6. QED
    BY <1>4, <2>1, <2>4, <2>5 DEF Sound, Windows
<1>13. z.st = "RETURN" => Windows(w)
  BY <1>4 DEF Sound, Windows
<1>14. QED
  BY <1>3, <1>4, <1>5, <1>8, <1>9, <1>10, <1>11, <1>12, <1>13 DEF OnBarOf, t, w

\* Every handler, of every bar, leaves a sound copy.
LEMMA HandleOutcome ==
  ASSUME NEW z, NEW t, NEW tf \in Frames, OnBarOf(z, tf, t), map \in Maps, taken \in [Levels -> Times], Cur \in Keys,
         Handle(z, tf, t)
  PROVE  Outcome(z) \/ (tf # "M1" /\ NewOutcome(z, tf, t))
<1>1. Ready(z, t) /\ RaidInv(z) /\ Intact(z) /\ z.seq.raid \in Nat /\ t \in Nat
  BY SeqFields, WindowsAssumption DEF OnBarOf, Ready, Times
<1>2. CASE z.st = "WATCH" /\ tf # "M1" /\ Watch(z, tf, t)
  BY <1>1, <1>2, WatchOutcome DEF OnBarOf
<1>3. CASE z.st = "RAID" /\ tf = z.seq.tf /\ Raid(z, t)
  BY <1>1, <1>3, RaidOutcome DEF OnBarOf
<1>4. CASE z.st = "SHIFT" /\ tf = "M1" /\ ShiftScan(z, t, {t})
  <2>1. {t} \subseteq (z.seq.raid + 1) .. t
    BY <1>1, <1>4 DEF OnBarOf
  <2>2. QED
    BY <1>1, <1>4, <2>1, ShiftOutcome
<1>5. CASE z.st = "GAP" /\ tf = "M1" /\ GapEval(z, t)
  BY <1>1, <1>5, GapOutcome
<1>6. CASE z.st = "RETURN" /\ tf = "M1" /\ RetestScan(z, t)
  BY <1>1, <1>6, RetestOutcome DEF OnBarOf, Retesting, Windows
<1>7. CASE /\ z.st = "WATCH" => tf = "M1"
           /\ z.st = "RAID" => tf # z.seq.tf
           /\ z.st \in {"SHIFT", "GAP", "RETURN"} => tf # "M1"
           /\ Keep(z)
  <2>1. CASE z.st = "WATCH"
    <3>1. Sound(z)
      BY <1>1, <2>1, UnraidedSound DEF Intact
    <3>2. QED
      BY <1>7, <2>1, <3>1 DEF Outcome, Becomes, Sound, Alike, SameRaid
  <2>2. CASE z.st \in Sequence
    <3>1. Windows(z)
      BY <1>7, <2>2 DEF OnBarOf, Sequence
    <3>2. QED
      BY <1>1, <1>7, <2>2, <3>1, StaysOutcome
  <2>3. QED
    BY <2>1, <2>2 DEF OnBarOf
<1>8. QED
  BY <1>2, <1>3, <1>4, <1>5, <1>6, <1>7 DEF Handle

LEMMA AnchorKeeps ==
  ASSUME NEW z, NEW w, NEW t, NEW tf, OnBarOf(z, tf, t), Keeps(z, w), w.st = z.st, w.seq = z.seq, w.from = z.from, w.sweeps = z.sweeps
  PROVE  OnBarOf(w, tf, t)
<1>1. Ready(w, t)
  <2>1. w.from \in Nat /\ w.from <= t /\ w.sweeps \in Nat /\ w.sweeps <= z.sweeps
    BY SeqFields DEF OnBarOf, Ready
  <2>2. QED
    BY <2>1, ReadyKept DEF OnBarOf
<1>2. RaidInv(w) /\ Intact(w)
  BY DEF OnBarOf, RaidInv, Intact, Keeps, Alike
<1>3. Windows(z) => Windows(w)
  BY DEF Windows, Keeps, Alike
<1>4. QED
  BY <1>1, <1>2, <1>3 DEF OnBarOf, Keeps, Alike

\* What a tick does with the zone it is at.
BarOutcome(z) ==
  \E w \in Zone :
    /\ Sound(w) /\ w.born = z.born /\ w.archived = z.archived /\ Becomes(w)
    /\ \A tf \in Frames : z.seen[tf] <= w.seen[tf]
    /\ w.st \in Raided => (z.st \in Raided /\ SameRaid(z, w)) \/ \E tf \in Frames \ {"M1"} : RaidOpen(w) = z.seen[tf]
    /\ (\A tf \in Frames : NextDue(z, tf) > now) => w = z

LEMMA OnBarOutcome ==
  ASSUME TypeOK, run.cur # Gone, map \in Maps, Sound(Copy), Copy.st \in Sequence \cup {"WATCH"},
         NEW tf \in Frames, OnBar(tf)
  PROVE  BarOutcome(Copy)
<1> DEFINE t == NextDue(Copy, tf)
           z == [Copy EXCEPT !.seen[tf] = t]
<1>1. Cur \in Keys /\ taken \in [Levels -> Times] /\ now \in Times
  BY DEF TypeOK, Cur
<1>2. Next4(Copy, tf) /\ Due(tf) = t /\ Copy \in Zone
  BY NextIs DEF OnBar, Sound
<1>3. t \in Times /\ t <= now
  BY <1>1, <1>2, DueLater DEF Sound
<1>4. OnBarOf(z, tf, t)
  BY <1>1, <1>2, BarSeen
<1> HIDE DEF t
<1>5. /\ z \in Zone /\ z.born = Copy.born /\ z.archived = Copy.archived /\ z.st = Copy.st /\ z.seq = Copy.seq
      /\ z.seen = [Copy.seen EXCEPT ![tf] = t]
  BY <1>2, <1>3, SeenFields
<1>6. \/ tf # "M15" /\ Handle(z, tf, t)
      \/ /\ tf = "M15"
         /\ \E touched, beyond \in BOOLEAN :
              LET anchored == [z EXCEPT !.reached = @ \/ touched, !.violated = @ \/ beyond]
              IN Monitor(anchored) \/ Handle(anchored, tf, t)
  BY <1>2 DEF OnBar
<1> HIDE DEF z
<1>7. PICK y : OnBarOf(y, tf, t) /\ Keeps(z, y) /\ y.st = z.st /\ y.seq = z.seq /\ (Monitor(y) \/ Handle(y, tf, t))
  <2>1. CASE tf # "M15" /\ Handle(z, tf, t)
    BY <1>4, <1>5, <2>1 DEF Keeps, Alike
  <2>2. ASSUME NEW touched \in BOOLEAN, NEW beyond \in BOOLEAN,
               LET anchored == [z EXCEPT !.reached = @ \/ touched, !.violated = @ \/ beyond]
               IN Monitor(anchored) \/ Handle(anchored, tf, t)
        PROVE  \E y : OnBarOf(y, tf, t) /\ Keeps(z, y) /\ y.st = z.st /\ y.seq = z.seq /\ (Monitor(y) \/ Handle(y, tf, t))
    <3> DEFINE y == Anchored(z, touched, beyond)
    <3>1. AnchoredAs(z, y)
      BY <1>5, AnchorFields, Zenon
    <3>2. Monitor(y) \/ Handle(y, tf, t)
      BY <2>2 DEF Anchored
    <3> HIDE DEF y
    <3>3. OnBarOf(y, tf, t)
      BY <1>4, <3>1, AnchorKeeps DEF AnchoredAs
    <3>4. QED
      BY <3>1, <3>2, <3>3 DEF AnchoredAs
  <2>3. QED
    BY <1>6, <2>1, <2>2
<1>8. Outcome(y) \/ (tf # "M1" /\ NewOutcome(y, tf, t))
  <2>1. CASE Monitor(y)
    BY <1>7, <2>1, NoiseOutcome DEF OnBarOf
  <2>2. CASE Handle(y, tf, t)
    BY <1>1, <1>7, <2>2, HandleOutcome
  <2>3. QED
    BY <1>7, <2>1, <2>2
<1>9. PICK w \in Zone :
        /\ Sound(w) /\ Alike(y, w) /\ Becomes(w)
        /\ w.st \in Raided => SameRaid(y, w) \/ (tf # "M1" /\ w.seq.raid = t /\ w.seq.tf = tf)
  BY <1>8 DEF Outcome, NewOutcome
<1>10. /\ Copy.seen \in [Frames -> Nat] /\ Span[tf] \in Nat \ {0} /\ t = Copy.seen[tf] + Span[tf]
       /\ now \in Nat
  BY <1>1, <1>2, SeqFields, FramesAssumption, WindowsAssumption DEF t, NextDue, Times
<1>11. \A o \in Frames : Copy.seen[o] <= w.seen[o]
  BY <1>5, <1>7, <1>9, <1>10 DEF Keeps, Alike
<1>12. ~(\A o \in Frames : NextDue(Copy, o) > now)
  BY <1>3, <1>10 DEF t
<1>13. w.st \in Raided => (Copy.st \in Raided /\ SameRaid(Copy, w)) \/ \E o \in Frames \ {"M1"} : RaidOpen(w) = Copy.seen[o]
  <2>1. CASE tf # "M1" /\ w.seq.raid = t /\ w.seq.tf = tf
    BY <1>10, <2>1 DEF RaidOpen
  <2>2. CASE w.st \in Raided /\ SameRaid(y, w)
    <3>1. SameRaid(Copy, w)
      BY <1>5, <1>7, <2>2 DEF SameRaid
    <3>2. Copy.st = "WATCH" => FALSE
      <4>1. Copy.st = "WATCH" => w.seq.raid = 0
        BY <1>5, <1>7, <2>2 DEF OnBarOf, Intact, NoSeq, SameRaid
      <4>2. 0 < Span[w.seq.tf] /\ Span[w.seq.tf] <= w.seq.raid
        <5>1. w.seq.tf \in Frames /\ Span[w.seq.tf] \in Nat \ {0} /\ w.st \in Raided /\ RaidInv(w)
          BY <1>9, <2>2, SeqFields, FramesAssumption DEF Sound
        <5>2. Span[w.seq.tf] <= w.seq.raid
          BY <5>1 DEF RaidInv
        <5>3. QED
          BY <5>1, <5>2
      <4>3. QED
        BY <4>1, <4>2, SeqFields, FramesAssumption
    <3>3. QED
      BY <3>1, <3>2 DEF Raided
  <2>3. QED
    BY <1>9, <2>1, <2>2
<1>14. QED
  BY <1>5, <1>7, <1>9, <1>11, <1>12, <1>13 DEF BarOutcome, Keeps, Alike
-----------------------------------------------------------------------------
(* The state: the initial one, and one step per action.                     *)
Untouched == UNCHANGED <<now, taken, broken, map, zones, plans, listed>>

LEMMA ZoneOrGone == \A z \in Zone : z # Gone
BY GoneAssumption

LEMMA UntouchedKeeps ==
  ASSUME Untouched
  PROVE  /\ \A z : Sound(z)' = Sound(z)
         /\ \A k : RowInv(k)' = RowInv(k) /\ Stored(k)' = Stored(k) /\ Finished(k)' = Finished(k) /\ Listed(k)' = Listed(k)
         /\ \A k, z : CopyOf(k, z)' = CopyOf(k, z)
         /\ PlanInv' = PlanInv
<1>1. now' = now /\ taken' = taken /\ broken' = broken /\ map' = map /\ zones' = zones /\ plans' = plans /\ listed' = listed
  BY DEF Untouched
<1>2. \A z : Sound(z)' = Sound(z)
  BY <1>1 DEF Sound, Orderly, RaidInv, Intact, Windows, Counted, Taken, NextDue
<1>3. \A k : Stored(k)' = Stored(k) /\ Finished(k)' = Finished(k) /\ Listed(k)' = Listed(k)
  BY <1>1 DEF Stored, Finished, Listed
<1>4. \A k : RowInv(k)' = RowInv(k)
  BY <1>1, <1>2, <1>3 DEF RowInv
<1>5. \A k, z : CopyOf(k, z)' = CopyOf(k, z)
  BY <1>1, <1>2, <1>3 DEF CopyOf, NextDue, Past, RaidOpen
<1>6. PlanInv' = PlanInv
  BY <1>1, <1>3 DEF PlanInv, OnePlanPerRaid, Past, RaidOpen
<1>7. QED
  BY <1>2, <1>3, <1>4, <1>5, <1>6

\* A sound copy is put back, and perhaps a plan noted for it.
LEMMA CopyStep ==
  ASSUME TypeOK, ZoneInv, Untouched, NEW k \in run.todo, NEW w, CopyOf(k, w),
         run.pc = "zones", run.cur \in {k, Gone}, run'.pc = "zones",
         run'.z = [run.z EXCEPT ![k] = w], run'.todo \in {run.todo, run.todo \ {k}},
         run' = [pc |-> run'.pc, todo |-> run'.todo, cur |-> run'.cur, z |-> run'.z, confirmed |-> run'.confirmed],
         run'.cur # Gone => /\ run'.cur = k /\ k \in run'.todo /\ w.st \in Sequence \cup {"WATCH"}
                            /\ ~Finished(k) /\ broken[map.root] <= w.born,
         \/ run'.confirmed = run.confirmed
         \/ \E p \in Plan :
              /\ run'.confirmed = run.confirmed \cup {p} /\ p.key = k /\ p.raid = RaidOpen(w)
              /\ w.st = "CONFIRMED" /\ ~Finished(k) /\ k \notin run'.todo /\ broken[map.root] <= w.born
  PROVE  TypeOK' /\ ZoneInv'
<1>1. /\ k \in Keys /\ run.z \in [Keys -> Zone \cup {Gone}] /\ w \in Zone /\ w # Gone
      /\ map # Gone /\ run.todo \subseteq map.keys
  BY ZoneOrGone DEF TypeOK, CopyOf, Sound, ZoneInv, CurInv
<1>2. run'.z[k] = w /\ \A o \in Keys \ {k} : run'.z[o] = run.z[o]
  BY <1>1
<1>3. TypeOK'
  BY <1>1 DEF TypeOK, Untouched
<1>4. \A o \in Keys : RowInv(o)'
  BY UntouchedKeeps DEF ZoneInv
<1>5. \A o \in Keys : CopyInv(o)'
  <2>1. ASSUME NEW o \in Keys PROVE CopyInv(o)'
    <3>1. run'.z[o] # Gone => CopyOf(o, run'.z[o])
      BY <1>1, <1>2 DEF ZoneInv, CopyInv
    <3>2. run'.z[o] = Gone => ~Stored(o)
      BY <1>1, <1>2 DEF ZoneInv, CopyInv
    <3>3. QED
      BY <3>1, <3>2, UntouchedKeeps DEF CopyInv
  <2>2. QED
    BY <2>1
<1>6. CurInv'
  <2>1. run'.todo \subseteq map'.keys /\ map' # Gone
    BY <1>1 DEF Untouched
  <2>2. run'.cur # Gone => ~Finished(k)' /\ broken'[map'.root] <= run'.z[k].born
    BY <1>2, UntouchedKeeps DEF Untouched
  <2>3. QED
    BY <1>1, <1>2, <2>1, <2>2 DEF CurInv
<1>7. ConfirmedInv'
  <2>1. ASSUME NEW p \in run.confirmed
        PROVE  /\ Stored(p.key) /\ broken[map.root] <= zones[p.key].born
               /\ p.key \notin run'.todo /\ ~Finished(p.key)
               /\ run'.z[p.key] # Gone /\ run'.z[p.key].st = "CONFIRMED" /\ p.raid = RaidOpen(run'.z[p.key])
    <3>1. /\ Stored(p.key) /\ broken[map.root] <= zones[p.key].born
          /\ p.key \notin run.todo /\ ~Finished(p.key)
          /\ run.z[p.key] # Gone /\ run.z[p.key].st = "CONFIRMED" /\ p.raid = RaidOpen(run.z[p.key])
      BY DEF ZoneInv, ConfirmedInv
    <3>2. p.key \in Keys /\ p.key # k
      BY <3>1 DEF TypeOK, Plan
    <3>3. QED
      BY <1>2, <3>1, <3>2
  <2>2. ASSUME NEW p \in Plan, p.key = k, p.raid = RaidOpen(w), w.st = "CONFIRMED", ~Finished(k), k \notin run'.todo,
               broken[map.root] <= w.born
        PROVE  /\ Stored(p.key) /\ broken[map.root] <= zones[p.key].born
               /\ p.key \notin run'.todo /\ ~Finished(p.key)
               /\ run'.z[p.key] # Gone /\ run'.z[p.key].st = "CONFIRMED" /\ p.raid = RaidOpen(run'.z[p.key])
    <3>1. Stored(k) /\ w.born = zones[k].born
      BY <2>2 DEF CopyOf, Raided
    <3>2. QED
      BY <1>1, <1>2, <2>2, <3>1
  <2>3. \A p \in run'.confirmed :
          /\ Stored(p.key) /\ broken[map.root] <= zones[p.key].born
          /\ p.key \notin run'.todo /\ ~Finished(p.key)
          /\ run'.z[p.key] # Gone /\ run'.z[p.key].st = "CONFIRMED" /\ p.raid = RaidOpen(run'.z[p.key])
    BY <2>1, <2>2
  <2>4. QED
    BY <2>3, UntouchedKeeps DEF ConfirmedInv, RaidOpen, Untouched
<1>8. PlanInv'
  BY UntouchedKeeps DEF ZoneInv
<1>9. QED
  BY <1>3, <1>4, <1>5, <1>6, <1>7, <1>8 DEF ZoneInv

\* The event loop's zone: a bar, or the end of the bars.
LEMMA OutcomeStep ==
  ASSUME TypeOK, ZoneInv, Untouched, run.cur # Gone, BarOutcome(Copy)
  PROVE  TypeOK' /\ ZoneInv'
<1>1. /\ Cur \in Keys /\ run.pc = "zones" /\ Cur \in run.todo /\ Copy \in Zone /\ Copy.st \in Sequence \cup {"WATCH"}
      /\ ~Finished(Cur) /\ broken[map.root] <= Copy.born /\ Cur # Gone
      /\ CopyOf(Cur, Copy)
  BY DEF TypeOK, ZoneInv, CurInv, CopyInv, Cur, Copy
<1>2. PICK w \in Zone :
    /\ Sound(w) /\ w.born = Copy.born /\ w.archived = Copy.archived /\ Becomes(w)
    /\ \A tf \in Frames : Copy.seen[tf] <= w.seen[tf]
    /\ w.st \in Raided => (Copy.st \in Raided /\ SameRaid(Copy, w)) \/ \E tf \in Frames \ {"M1"} : RaidOpen(w) = Copy.seen[tf]
    /\ (\A tf \in Frames : NextDue(Copy, tf) > now) => w = Copy
  BY DEF BarOutcome
<1>3. CopyOf(Cur, w)
  <2>1. ASSUME NEW p \in plans, p.key = Cur PROVE Past(p, w)
    <3>1. Past(p, Copy)
      BY <1>1, <2>1 DEF CopyOf
    <3>2. p.raid \in Nat /\ \A tf \in Frames : Copy.seen[tf] \in Nat /\ w.seen[tf] \in Nat
      BY <1>1, <1>2, SeqFields, WindowsAssumption DEF TypeOK, Plan, Times
    <3>3. \A tf \in Frames \ {"M1"} : p.raid < w.seen[tf]
      BY <1>2, <3>1, <3>2 DEF Past
    <3>4. w.st \in Raided => p.raid < RaidOpen(w)
      BY <1>2, <3>1 DEF Past, SameRaid, RaidOpen
    <3>5. QED
      BY <3>3, <3>4 DEF Past
  <2>2. QED
    BY <1>1, <1>2, <2>1 DEF CopyOf
<1>4. run = [pc |-> run.pc, todo |-> run.todo, cur |-> run.cur, z |-> run.z, confirmed |-> run.confirmed]
  BY DEF TypeOK
<1>5. CASE Keep(w) /\ w.st \in Sequence \cup {"WATCH"}
  <2>1. /\ run'.z = [run.z EXCEPT ![Cur] = w] /\ run'.todo = run.todo /\ run'.cur = Cur /\ run'.pc = run.pc
        /\ run'.confirmed = run.confirmed
        /\ run' = [pc |-> run'.pc, todo |-> run'.todo, cur |-> run'.cur, z |-> run'.z, confirmed |-> run'.confirmed]
    BY <1>4, <1>5 DEF Keep, Cur
  <2>2. QED
    BY <1>1, <1>2, <1>3, <1>5, <2>1, CopyStep DEF Cur
<1>6. CASE Leave(w) /\ w.st \notin Raided
  <2>1. /\ run'.z = [run.z EXCEPT ![Cur] = w] /\ run'.todo = run.todo \ {Cur} /\ run'.cur = Gone /\ run'.pc = run.pc
        /\ run'.confirmed = run.confirmed
        /\ run' = [pc |-> run'.pc, todo |-> run'.todo, cur |-> run'.cur, z |-> run'.z, confirmed |-> run'.confirmed]
    BY <1>4, <1>6 DEF Leave, Cur
  <2>2. QED
    BY <1>1, <1>2, <1>3, <2>1, CopyStep DEF Cur
<1>7. CASE Notes(w) /\ w.st = "CONFIRMED"
  <2>1. PICK bar \in Times :
          run' = [run EXCEPT !.z[Cur] = w, !.cur = Gone, !.todo = @ \ {Cur},
                    !.confirmed = @ \cup {[key |-> Cur, raid |-> RaidOpen(w), bar |-> bar, at |-> now]}]
    BY <1>7 DEF Notes
  <2> DEFINE p == [key |-> Cur, raid |-> RaidOpen(w), bar |-> bar, at |-> now]
  <2>2. /\ run'.z = [run.z EXCEPT ![Cur] = w] /\ run'.todo = run.todo \ {Cur} /\ run'.cur = Gone /\ run'.pc = run.pc
        /\ run'.confirmed = run.confirmed \cup {p}
        /\ run' = [pc |-> run'.pc, todo |-> run'.todo, cur |-> run'.cur, z |-> run'.z, confirmed |-> run'.confirmed]
    BY <1>4, <2>1 DEF Cur
  <2>3. RaidOpen(w) \in Times
    <3>1. w.st \in Raided /\ w.seq.raid \in Times /\ w.seq.tf \in Frames /\ RaidInv(w)
      BY <1>2, <1>7 DEF Sound, Raided, Zone, Seq
    <3>2. Span[w.seq.tf] <= w.seq.raid /\ Span[w.seq.tf] \in Nat
      BY <3>1, FramesAssumption DEF RaidInv
    <3>3. QED
      BY <3>1, <3>2, WindowsAssumption DEF RaidOpen, Times
  <2>4. p \in Plan /\ p.key = Cur /\ p.raid = RaidOpen(w)
    BY <1>1, <2>3 DEF Plan, TypeOK
  <2> HIDE DEF p
  <2>5. QED
    BY <1>1, <1>2, <1>3, <1>7, <2>2, <2>4, CopyStep DEF Cur
<1>8. QED
  BY <1>2, <1>5, <1>6, <1>7 DEF Becomes

LEMMA BarStep ==
  ASSUME TypeOK, ZoneInv, Untouched, (\E tf \in Frames : OnBar(tf)) \/ EndOfBars
  PROVE  TypeOK' /\ ZoneInv'
<1>1. run.cur # Gone /\ Cur \in Keys /\ CopyOf(Cur, Copy) /\ Copy.st \in Sequence \cup {"WATCH"} /\ map \in Maps
  BY DEF TypeOK, ZoneInv, CurInv, CopyInv, Cur, Copy, OnBar, EndOfBars
<1>2. CASE \E tf \in Frames : OnBar(tf)
  <2>1. BarOutcome(Copy)
    BY <1>1, <1>2, OnBarOutcome DEF CopyOf
  <2>2. QED
    BY <1>1, <2>1, OutcomeStep
<1>3. CASE EndOfBars
  <2>1. /\ CopyOf(run.cur, Copy) /\ run.cur \in run.todo /\ run.pc = "zones"
        /\ run = [pc |-> run.pc, todo |-> run.todo, cur |-> run.cur, z |-> run.z, confirmed |-> run.confirmed]
    BY <1>1, <1>3 DEF EndOfBars, TypeOK, ZoneInv, CurInv, Cur
  <2>2. /\ run'.z = [run.z EXCEPT ![run.cur] = Copy] /\ run'.todo = run.todo \ {run.cur} /\ run'.cur = Gone
        /\ run'.pc = run.pc /\ run'.confirmed = run.confirmed
        /\ run' = [pc |-> run'.pc, todo |-> run'.todo, cur |-> run'.cur, z |-> run'.z, confirmed |-> run'.confirmed]
    BY <1>3, <2>1 DEF EndOfBars, Leave, Cur
  <2>3. QED
    BY <2>1, <2>2, CopyStep
<1>4. QED
  BY <1>2, <1>3

\* A zone seen for the first time, or again after it was archived.
LEMMA NewZoneIs ==
  ASSUME TypeOK, ZoneInv, NEW k \in Keys, run.pc = "zones", k \in run.todo, run.z[k] = Gone
  PROVE  CopyOf(k, NewZone)
<1>1. /\ now \in Times /\ now \in Nat /\ 0 \in Times /\ Listed(k) /\ ~Stored(k) /\ ~Finished(k)
  BY WindowsAssumption DEF TypeOK, Times, ZoneInv, CurInv, CopyInv, Listed, Finished
<1>2. \A tf \in Frames : /\ LastClose(tf) \in Times /\ LastClose(tf) \in Nat /\ LastClose(tf) <= now
                         /\ now < LastClose(tf) + Span[tf] /\ Multiple(LastClose(tf), Span[tf])
                         /\ Span[tf] \in Nat \ {0}
  BY <1>1, LastCloses, FramesAssumption, WindowsAssumption DEF Times
<1> DEFINE w == NewZone
<1>3. w \in Zone
  BY <1>1, <1>2, SeqFields DEF NewZone, Zone, ZoneStates
<1>4. /\ w.st = "WATCH" /\ w.seq = NoSeq /\ w.born = now /\ ~w.archived /\ w.from = 0 /\ w.sweeps = 0 /\ w.swept = {}
      /\ \A tf \in Frames : w.seen[tf] = LastClose(tf)
  BY DEF NewZone
<1> HIDE DEF w
<1>5. \A tf \in Frames : NextDue(w, tf) > now /\ NextDue(w, tf) \in Nat
  BY <1>1, <1>2, <1>4 DEF NextDue
<1>6. Orderly(w)
  <2>1. "M1" \in Frames
    BY DEF Frames
  <2>2. QED
    BY <1>1, <1>2, <1>4, <1>5, <2>1 DEF Orderly
<1>7. RaidInv(w) /\ Intact(w) /\ Windows(w)
  BY <1>4, SeqFields DEF RaidInv, Intact, Windows, Raided, Sequence
<1>8. Counted(w)
  BY <1>4, FS_EmptySet DEF Counted
<1>9. ASSUME NEW p \in plans PROVE Past(p, w)
  <2>1. p.raid + Span["M15"] <= now /\ p.raid \in Nat
    BY WindowsAssumption DEF ZoneInv, PlanInv, TypeOK, Plan, Times
  <2>2. ASSUME NEW tf \in Frames \ {"M1"} PROVE p.raid < w.seen[tf]
    <3>1. Span[tf] <= Span["M15"] /\ Span["M15"] \in Nat /\ Span[tf] \in Nat
      BY FramesAssumption DEF Frames
    <3>2. QED
      BY <1>1, <1>2, <1>4, <2>1, <3>1
  <2>3. QED
    BY <1>4, <2>2 DEF Past, Raided, Sequence
<1>10. QED
  BY <1>1, <1>3, <1>4, <1>5, <1>6, <1>7, <1>8, <1>9 DEF CopyOf, Sound, Raided, Sequence, w

\* step_zone leaves a zone outside the sequence with nothing of it.
LEMMA UnraidedCopy ==
  ASSUME NEW k, NEW z, CopyOf(k, z), z.st # "CONFIRMED", NEW w \in Zone, Alike(z, w), w.from \in {z.from, 0},
         w.st \in {"WATCH", "MONITOR", "DEAD"}, w.seq = NoSeq,
         (w.swept = z.swept /\ w.sweeps = z.sweeps) \/ (w.swept = {} /\ w.sweeps = 0)
  PROVE  CopyOf(k, w)
<1>1. z \in Zone /\ Sound(z) /\ w.st \notin Raided /\ ~Finished(k)
  BY DEF CopyOf, Sound, Raided, Sequence, Finished
<1>2. Orderly(w)
  <2>1. \A tf \in Frames : w.from <= NextDue(w, tf)
    <3>1. ASSUME NEW tf \in Frames PROVE NextDue(z, tf) \in Nat /\ z.from <= NextDue(z, tf)
      BY <1>1, FramesAssumption, SeqFields DEF NextDue, Sound, Orderly
    <3>2. QED
      BY <3>1 DEF Alike, NextDue
  <2>2. QED
    BY <1>1, <2>1 DEF Sound, Orderly, Alike, NextDue
<1>3. Counted(w)
  BY <1>1, FS_EmptySet DEF Sound, Counted
<1>4. RaidInv(w) /\ Intact(w) /\ Windows(w)
  BY SeqFields DEF RaidInv, Intact, Windows, Raided, Sequence
<1>5. Sound(w)
  BY <1>2, <1>3, <1>4 DEF Sound
<1>6. QED
  BY <1>1, <1>5 DEF CopyOf, Alike, NextDue, Past

LEMMA StepZoneStep ==
  ASSUME TypeOK, ZoneInv, Untouched, NEW k \in Keys, StepZone(k)
  PROVE  TypeOK' /\ ZoneInv'
<1> DEFINE z == IF run.z[k] = Gone THEN FirstLook ELSE run.z[k]
           awake == IF z.st = "MONITOR" THEN Fresh(z) ELSE z
           stale == ~awake.reached /\ now - z.born >= Stale
           done(r) == run' = [run EXCEPT !.z[k] = r, !.todo = @ \ {k}]
<1>1. run.pc = "zones" /\ run.cur = Gone /\ k \in run.todo /\ map \in Maps
  BY DEF StepZone, Cur, TypeOK, ZoneInv, CurInv
<1>2. CopyOf(k, z) /\ z \in Zone
  BY <1>1, NewZoneIs DEF FirstLook, ZoneInv, CopyInv, CopyOf, Sound
<1>3. \/ z.st \in {"DEAD", "CONFIRMED"} /\ done(z)
      \/ z.st \notin {"DEAD", "CONFIRMED"} /\ done([ClearSequence(z) EXCEPT !.st = "DEAD"])
      \/ z.st = "MONITOR" /\ done(z)
      \/ z.st \notin {"DEAD", "CONFIRMED"} /\ done(Monitored(awake))
      \/ /\ z.st \notin {"DEAD", "CONFIRMED"} /\ ~RootBroken(z)
         /\ run' = [run EXCEPT !.z[k] = awake, !.cur = k]
  BY DEF StepZone
<1> HIDE DEF z
<1>4. ASSUME NEW r, CopyOf(k, r), done(r) PROVE TypeOK' /\ ZoneInv'
  <2>1. run = [pc |-> run.pc, todo |-> run.todo, cur |-> run.cur, z |-> run.z, confirmed |-> run.confirmed]
    BY DEF TypeOK
  <2>2. /\ run'.z = [run.z EXCEPT ![k] = r] /\ run'.todo = run.todo \ {k} /\ run'.cur = Gone
        /\ run'.pc = run.pc /\ run'.confirmed = run.confirmed
        /\ run' = [pc |-> run'.pc, todo |-> run'.todo, cur |-> run'.cur, z |-> run'.z, confirmed |-> run'.confirmed]
    BY <1>1, <1>4, <2>1
  <2>3. QED
    BY <1>1, <1>4, <2>2, CopyStep
<1>5. ASSUME z.st \notin {"DEAD", "CONFIRMED"}
      PROVE  CopyOf(k, awake) /\ awake \in Zone /\ awake.st \in Sequence \cup {"WATCH"} /\ awake.born = z.born
  <2>1. CASE z.st = "MONITOR"
    <3> DEFINE w == Fresh(z)
    <3>1. w \in Zone /\ Alike(z, w) /\ w.swept = {} /\ w.st = "WATCH" /\ w.seq = NoSeq /\ w.from = 0 /\ w.sweeps = 0
      BY <1>2, FreshFields
    <3> HIDE DEF w
    <3>2. CopyOf(k, w)
      BY <1>2, <2>1, <3>1, UnraidedCopy
    <3>3. awake = w
      BY <2>1 DEF w
    <3> HIDE DEF awake
    <3>4. QED
      BY <3>1, <3>2, <3>3 DEF Alike
  <2>2. CASE z.st # "MONITOR"
    BY <1>2, <1>5, <2>2 DEF Zone, ZoneStates
  <2>3. QED
    BY <2>1, <2>2
<1> HIDE DEF awake
<1>6. CASE z.st \in {"DEAD", "CONFIRMED", "MONITOR"} /\ done(z)
  BY <1>2, <1>4, <1>6
<1>7. CASE z.st \notin {"DEAD", "CONFIRMED"} /\ done([ClearSequence(z) EXCEPT !.st = "DEAD"])
  <2> DEFINE c == ClearSequence(z)
             w == [c EXCEPT !.st = "DEAD"]
  <2>1. Keeps(z, c) /\ c.seq = NoSeq /\ c.from = z.from /\ c.sweeps = z.sweeps
    BY <1>2, ClearFields
  <2> HIDE DEF c
  <2>2. w \in Zone /\ Alike(z, w) /\ w.swept = z.swept /\ w.st = "DEAD" /\ w.seq = NoSeq /\ w.from = z.from /\ w.sweeps = z.sweeps
    BY <2>1 DEF Keeps, Alike, Zone, ZoneStates
  <2>3. done(w)
    BY <1>7 DEF c
  <2> HIDE DEF w
  <2>4. CopyOf(k, w)
    BY <1>2, <1>7, <2>2, UnraidedCopy
  <2>5. QED
    BY <1>4, <2>3, <2>4
<1>8. CASE z.st \notin {"DEAD", "CONFIRMED"} /\ done(Monitored(awake))
  <2> DEFINE w == Monitored(awake)
  <2>1. Keeps(awake, w) /\ w.st = "MONITOR" /\ w.seq = NoSeq /\ w.from = awake.from /\ w.sweeps = awake.sweeps
    BY <1>1, <1>5, <1>8, MonitorFields
  <2>2. awake.st # "CONFIRMED"
    BY <1>5, <1>8 DEF Sequence
  <2> HIDE DEF w
  <2>3. CopyOf(k, w)
    BY <1>5, <1>8, <2>1, <2>2, UnraidedCopy DEF Keeps
  <2>4. QED
    BY <1>4, <1>8, <2>3 DEF w
<1>9. CASE /\ z.st \notin {"DEAD", "CONFIRMED"} /\ ~RootBroken(z)
           /\ run' = [run EXCEPT !.z[k] = awake, !.cur = k]
  <2>1. run = [pc |-> run.pc, todo |-> run.todo, cur |-> run.cur, z |-> run.z, confirmed |-> run.confirmed]
    BY DEF TypeOK
  <2>2. /\ run'.z = [run.z EXCEPT ![k] = awake] /\ run'.todo = run.todo /\ run'.cur = k
        /\ run'.pc = run.pc /\ run'.confirmed = run.confirmed
        /\ run' = [pc |-> run'.pc, todo |-> run'.todo, cur |-> run'.cur, z |-> run'.z, confirmed |-> run'.confirmed]
    BY <1>9, <2>1
  <2>3. ~Finished(k)
    BY <1>2, <1>9 DEF CopyOf, Finished
  <2>4. broken[map.root] <= awake.born
    <3>1. broken[map.root] \in Nat /\ z.born \in Nat
      BY <1>1, <1>2, SeqFields, WindowsAssumption DEF TypeOK, Maps, Times
    <3>2. QED
      BY <1>5, <1>9, <3>1 DEF RootBroken
  <2>5. QED
    BY <1>1, <1>5, <1>9, <2>2, <2>3, <2>4, CopyStep
<1>10. QED
  BY <1>3, <1>6, <1>7, <1>8, <1>9

\* A tick begins with the rows that are not archived.
LEMMA LoadStep ==
  ASSUME TypeOK, ZoneInv, Load PROVE TypeOK' /\ ZoneInv'
<1> DEFINE cz == [k \in Keys |-> IF zones[k] # Gone /\ ~zones[k].archived THEN zones[k] ELSE Gone]
<1>1. /\ run' = [pc |-> "zones", todo |-> map.keys, cur |-> Gone, z |-> cz, confirmed |-> {}]
      /\ Untouched /\ map \in Maps /\ map # Gone /\ map.keys \subseteq Keys
  BY GoneAssumption DEF Load, Off, Untouched, TypeOK, Maps
<1>2. cz \in [Keys -> Zone \cup {Gone}]
  BY DEF TypeOK
<1>3. \A k \in Keys : cz[k] = IF Stored(k) THEN zones[k] ELSE Gone
  BY DEF Stored
<1>4. \A k \in Keys : Stored(k) => zones[k] \in Zone /\ zones[k] # Gone
  BY DEF Stored, TypeOK
<1> HIDE DEF cz
<1>5. TypeOK'
  BY <1>1, <1>2 DEF TypeOK, Untouched
<1>6. \A k \in Keys : RowInv(k)' /\ CopyInv(k)'
  <2>1. ASSUME NEW k \in Keys, Stored(k) PROVE CopyOf(k, zones[k])
    <3>1. Sound(zones[k]) /\ Listed(k) /\ ~zones[k].archived
      BY <2>1 DEF ZoneInv, RowInv, Stored
    <3>2. ASSUME ~Finished(k), NEW p \in plans, p.key = k PROVE Past(p, zones[k])
      BY <2>1, <3>2 DEF ZoneInv, PlanInv, Finished
    <3>3. QED
      BY <2>1, <3>1, <3>2 DEF CopyOf
  <2>2. ASSUME NEW k \in Keys PROVE CopyInv(k)'
    BY <1>1, <1>3, <1>4, <2>1, UntouchedKeeps DEF CopyInv
  <2>3. QED
    BY <1>1, <2>2, UntouchedKeeps DEF ZoneInv
<1>7. CurInv' /\ ConfirmedInv'
  BY <1>1 DEF CurInv, ConfirmedInv, Untouched
<1>8. QED
  BY <1>1, <1>5, <1>6, <1>7, UntouchedKeeps DEF ZoneInv

\* When no tick runs, or one ends, no copy is left.
LEMMA OffStep ==
  ASSUME TypeOK, ZoneInv, Untouched, run' = Off
  PROVE  TypeOK' /\ ZoneInv'
<1>1. run'.pc = "off" /\ run'.cur = Gone /\ run'.confirmed = {} /\ \A k \in Keys : run'.z[k] = Gone
  BY DEF Off
<1>2. TypeOK'
  BY DEF TypeOK, Untouched, Off
<1>3. \A k \in Keys : RowInv(k)' /\ CopyInv(k)'
  BY <1>1, UntouchedKeeps DEF CopyInv, ZoneInv
<1>4. CurInv' /\ ConfirmedInv'
  BY <1>1 DEF CurInv, ConfirmedInv
<1>5. QED
  BY <1>2, <1>3, <1>4, UntouchedKeeps DEF ZoneInv

\* The row that is saved, its first_seen the old row's.
LEMMA SavedIs ==
  ASSUME TypeOK, ZoneInv, run.pc = "zones", NEW k \in Keys, run.z[k] # Gone
  PROVE  LET w == Saved(k)
         IN /\ Sound(w) /\ ~w.archived /\ w # Gone /\ Listed(k)
            /\ w.st = run.z[k].st /\ w.seq = run.z[k].seq /\ w.seen = run.z[k].seen
            /\ w.born = IF zones[k] = Gone THEN now ELSE zones[k].born
            /\ Finished(k) => w = zones[k]
<1> DEFINE w == Saved(k)
           c == run.z[k]
<1>1. CopyOf(k, c) /\ c \in Zone /\ Sound(c) /\ ~c.archived /\ Listed(k)
  BY DEF ZoneInv, CopyInv, CopyOf, Sound
<1>2. CASE zones[k] = Gone
  <2>1. w = c
    BY <1>2 DEF Saved
  <2>2. ~Stored(k) /\ ~Finished(k)
    BY <1>2 DEF Stored, Finished
  <2>3. QED
    BY <1>1, <1>2, <2>1, <2>2, ZoneOrGone DEF CopyOf
<1>3. CASE zones[k] # Gone
  <2>1. zones[k] \in Zone /\ zones[k].born \in Times /\ zones[k].born <= now
    BY <1>3 DEF TypeOK, Zone, ZoneInv, RowInv, Sound, Orderly
  <2>2. w = [c EXCEPT !.born = zones[k].born]
    BY <1>3 DEF Saved
  <2> HIDE DEF w
  <2>3. w \in Zone /\ w.born = zones[k].born /\ w.archived = c.archived /\ w.st = c.st /\ w.seq = c.seq /\ w.seen = c.seen
        /\ w.from = c.from /\ w.sweeps = c.sweeps /\ w.swept = c.swept
    BY <1>1, <2>1, <2>2 DEF Zone
  <2>4. Sound(w)
    BY <1>1, <2>1, <2>3 DEF Sound, Orderly, RaidInv, Intact, Windows, Counted, NextDue
  <2>5. Finished(k) => w = zones[k]
    BY <1>1, <2>1, <2>2 DEF CopyOf, Zone
  <2>6. QED
    BY <1>1, <1>3, <2>3, <2>4, <2>5, ZoneOrGone DEF w
<1>4. QED
  BY <1>2, <1>3

LEMMA SaveStep ==
  ASSUME TypeOK, ZoneInv, Save PROVE TypeOK' /\ ZoneInv'
<1>1. /\ run.pc = "zones" /\ run.cur = Gone
      /\ now' = now /\ taken' = taken /\ broken' = broken /\ map' = map /\ plans' = plans
      /\ now \in Times
  BY DEF Save, Cur, TypeOK
<1>2. \A k \in Keys : zones'[k] = IF run.z[k] = Gone THEN zones[k] ELSE Saved(k)
  BY DEF Save
<1>3. \A k \in Keys : listed'[k] = IF listed[k].first = Gone /\ run.z[k] # Gone THEN [listed[k] EXCEPT !.first = now] ELSE listed[k]
  BY DEF Save
<1>4. \A k \in Keys : listed'[k].times = listed[k].times /\ listed'[k] \in [first : Times \cup {Gone}, times : Nat]
  BY <1>1, <1>3 DEF TypeOK
<1>5. \A k \in Keys : run.z[k] # Gone =>
         /\ Sound(zones'[k]) /\ ~zones'[k].archived /\ zones'[k] # Gone /\ Listed(k)
         /\ zones'[k].st = run.z[k].st /\ zones'[k].seq = run.z[k].seq /\ zones'[k].seen = run.z[k].seen
         /\ zones'[k].born = IF zones[k] = Gone THEN now ELSE zones[k].born
         /\ Finished(k) => zones'[k] = zones[k]
  BY <1>1, <1>2, SavedIs
<1>6. \/ run.confirmed = {} /\ run' = [pc |-> "off", todo |-> {}, cur |-> Gone, z |-> [k \in Keys |-> Gone], confirmed |-> {}]
      \/ \E p \in run.confirmed :
            run' = [pc |-> "plan", todo |-> {}, cur |-> Gone, z |-> [k \in Keys |-> Gone], confirmed |-> {p}]
  BY DEF Save, Off
<1>7. run'.pc \in {"off", "plan"} /\ run'.cur = Gone /\ \A k \in Keys : run'.z[k] = Gone
  BY <1>6
<1>8. TypeOK'
  <2>1. zones' \in [Keys -> Zone \cup {Gone}]
    <3>1. \A k \in Keys : zones'[k] \in Zone \cup {Gone}
      BY <1>2, <1>5 DEF TypeOK, Sound
    <3>2. QED
      BY <3>1 DEF Save
  <2>2. listed' \in [Keys -> [first : Times \cup {Gone}, times : Nat]]
    BY <1>4 DEF Save
  <2>3. run' \in [pc : {"off", "zones", "plan"}, todo : SUBSET Keys, cur : Keys \cup {Gone},
                  z : [Keys -> Zone \cup {Gone}], confirmed : SUBSET Plan]
    BY <1>6 DEF TypeOK
  <2>4. QED
    BY <1>1, <2>1, <2>2, <2>3 DEF TypeOK
<1>9. ASSUME NEW k \in Keys PROVE RowInv(k)' /\ CopyInv(k)'
  <2>1. CASE run.z[k] = Gone
    <3>1. zones'[k] = zones[k] /\ listed'[k] = listed[k]
      BY <1>2, <1>3, <2>1
    <3>2. RowInv(k)
      BY DEF ZoneInv
    <3>3. RowInv(k)'
      BY <1>1, <3>1, <3>2 DEF RowInv, Sound, Orderly, RaidInv, Intact, Windows, Counted, Taken, NextDue, Stored, Listed
    <3>4. QED
      BY <1>7, <3>3 DEF CopyInv
  <2>2. CASE run.z[k] # Gone
    <3>1. listed'[k].first = zones'[k].born
      <4>1. RowInv(k)
        BY DEF ZoneInv
      <4>2. zones[k] # Gone => listed[k].first = zones[k].born /\ zones[k].born \in Nat
        BY <4>1, SeqFields DEF RowInv, Sound
      <4>3. zones[k] # Gone => listed[k].first # Gone
        BY <4>2, GoneAssumption
      <4>4. zones[k] = Gone => listed[k].first = Gone
        BY <4>1 DEF RowInv
      <4>5. listed[k].first = Gone => listed'[k].first = now
        BY <1>3, <2>2 DEF TypeOK
      <4>6. listed[k].first # Gone => listed'[k].first = listed[k].first
        BY <1>3
      <4>7. QED
        BY <1>5, <2>2, <4>2, <4>3, <4>4, <4>5, <4>6
    <3>2. Sound(zones'[k]) /\ zones'[k] # Gone /\ Listed(k)
      BY <1>5, <2>2
    <3>3. RowInv(k)'
      BY <1>1, <3>1, <3>2 DEF RowInv, Sound, Orderly, RaidInv, Intact, Windows, Counted, Taken, NextDue, Stored, Listed
    <3>4. QED
      BY <1>7, <3>3 DEF CopyInv
  <2>3. QED
    BY <2>1, <2>2
<1>10. CurInv'
  BY <1>7 DEF CurInv
<1>11. ConfirmedInv'
  <2>1. ASSUME NEW p \in run.confirmed
        PROVE  /\ Finished(p.key)' /\ broken[map.root] <= zones'[p.key].born /\ p.raid = RaidOpen(zones'[p.key])
               /\ Cardinality({q \in plans : q.key = p.key}) < listed'[p.key].times
               /\ \A q \in plans : q.key = p.key => q.raid < p.raid
    <3>1. /\ Stored(p.key) /\ broken[map.root] <= zones[p.key].born /\ ~Finished(p.key)
          /\ run.z[p.key] # Gone /\ run.z[p.key].st = "CONFIRMED" /\ p.raid = RaidOpen(run.z[p.key])
      BY <1>1 DEF ZoneInv, ConfirmedInv
    <3>2. p.key \in Keys
      BY DEF TypeOK, Plan
    <3>3. CopyOf(p.key, run.z[p.key])
      BY <3>1, <3>2 DEF ZoneInv, CopyInv
    <3>4. Finished(p.key)' /\ broken[map.root] <= zones'[p.key].born /\ p.raid = RaidOpen(zones'[p.key])
      BY <1>5, <3>1, <3>2 DEF Finished, Stored, RaidOpen
    <3>5. Cardinality({q \in plans : q.key = p.key}) < listed'[p.key].times
      BY <1>4, <3>1, <3>2, <3>3 DEF ZoneInv, PlanInv, CopyOf
    <3>6. \A q \in plans : q.key = p.key => q.raid < p.raid
      BY <3>1, <3>3 DEF CopyOf, Past, Raided
    <3>7. QED
      BY <3>4, <3>5, <3>6
  <2>2. CASE run' = [pc |-> "off", todo |-> {}, cur |-> Gone, z |-> [k \in Keys |-> Gone], confirmed |-> {}]
    BY <2>2 DEF ConfirmedInv
  <2>3. ASSUME NEW p \in run.confirmed,
               run' = [pc |-> "plan", todo |-> {}, cur |-> Gone, z |-> [k \in Keys |-> Gone], confirmed |-> {p}]
        PROVE  ConfirmedInv'
    BY <1>1, <2>1, <2>3 DEF ConfirmedInv, Finished, RaidOpen
  <2>4. QED
    BY <1>6, <2>2, <2>3
<1>12. PlanInv'
  <2>1. ASSUME NEW p \in plans
        PROVE  zones'[p.key] # Gone /\ (zones'[p.key].st = "CONFIRMED" \/ Past(p, zones'[p.key]))
    <3>1. p.key \in Keys /\ zones[p.key] # Gone /\ (zones[p.key].st = "CONFIRMED" \/ Past(p, zones[p.key]))
      BY DEF TypeOK, Plan, ZoneInv, PlanInv
    <3>2. CASE run.z[p.key] = Gone
      BY <1>2, <3>1, <3>2
    <3>3. CASE run.z[p.key] # Gone
      <4>1. CopyOf(p.key, run.z[p.key])
        BY <3>1, <3>3 DEF ZoneInv, CopyInv
      <4>2. CASE Finished(p.key)
        BY <1>5, <3>1, <3>3, <4>2 DEF Finished
      <4>3. CASE ~Finished(p.key)
        BY <1>5, <3>1, <3>3, <4>1, <4>3 DEF CopyOf, Past, RaidOpen
      <4>4. QED
        BY <4>2, <4>3
    <3>4. QED
      BY <3>2, <3>3
  <2>2. ASSUME NEW k \in Keys, Finished(k) PROVE Finished(k)'
    BY <1>2, <1>5, <2>2 DEF Finished, Stored
  <2>3. QED
    BY <1>1, <1>4, <2>1, <2>2 DEF ZoneInv, PlanInv, OnePlanPerRaid, Listed, Past, RaidOpen
<1>13. QED
  BY <1>8, <1>9, <1>10, <1>11, <1>12 DEF ZoneInv

\* A plan is handed over once its row is saved, three of its bars after its raid's open.
LEMMA HandOverStep ==
  ASSUME TypeOK, ZoneInv, HandOver PROVE TypeOK' /\ ZoneInv'
<1>1. /\ now' = now /\ taken' = taken /\ broken' = broken /\ map' = map /\ zones' = zones /\ listed' = listed
      /\ run' = Off /\ run.pc = "plan" /\ plans' = plans \cup run.confirmed
  BY DEF HandOver
<1>2. CASE run.confirmed = {}
  <2>1. Untouched
    BY <1>1, <1>2 DEF Untouched
  <2>2. QED
    BY <1>1, <2>1, OffStep
<1>3. ASSUME NEW p \in run.confirmed PROVE TypeOK' /\ ZoneInv'
  <2>1. /\ run.confirmed = {p} /\ Finished(p.key) /\ p.raid = RaidOpen(zones[p.key])
        /\ Cardinality({q \in plans : q.key = p.key}) < listed[p.key].times
        /\ \A q \in plans : q.key = p.key => q.raid < p.raid
    BY <1>1 DEF ZoneInv, ConfirmedInv
  <2>2. p \in Plan /\ p.key \in Keys /\ p.raid \in Nat /\ plans \subseteq Plan /\ plans' = plans \cup {p}
    BY <1>1, <2>1, WindowsAssumption DEF TypeOK, Plan, Times
  <2>3. TypeOK'
    BY <1>1, <2>2 DEF TypeOK, Off
  <2>4. \A k \in Keys : RowInv(k)' /\ CopyInv(k)'
    <3>1. \A k \in Keys : run'.z[k] = Gone /\ run'.pc = "off"
      BY <1>1 DEF Off
    <3>2. ASSUME NEW k \in Keys PROVE RowInv(k)'
      <4>1. RowInv(k)
        BY DEF ZoneInv
      <4>2. QED
        BY <1>1, <4>1 DEF RowInv, Sound, Orderly, RaidInv, Intact, Windows, Counted, Taken, NextDue, Stored, Listed
    <3>3. QED
      BY <3>1, <3>2 DEF CopyInv
  <2>5. CurInv' /\ ConfirmedInv'
    BY <1>1 DEF CurInv, ConfirmedInv, Off
  <2>6. p.raid + Span["M15"] <= now
    <3> DEFINE z == zones[p.key]
    <3>1. Sound(z) /\ z \in Zone /\ z.st = "CONFIRMED"
      BY <2>1, <2>2 DEF ZoneInv, RowInv, Finished, Stored, Sound
    <3> HIDE DEF z
    <3>2. /\ z.seq.tf \in Frames /\ z.seq.raid \in Nat /\ z.seen[z.seq.tf] \in Nat /\ z.seq.tf # "M1"
          /\ z.seq.raid + 2 * Span[z.seq.tf] <= z.seen[z.seq.tf] /\ z.seen[z.seq.tf] <= now
      BY <3>1, SeqFields DEF Sound, RaidInv, Orderly, Raided
    <3>3. Span["M15"] <= 3 * Span[z.seq.tf] /\ Span["M15"] \in Nat /\ Span[z.seq.tf] \in Nat
      <4>1. Span["M15"] = 3 * Span["M5"] /\ Span["M15"] \in Nat /\ Span["M5"] \in Nat
        BY FramesAssumption DEF Frames
      <4>2. z.seq.tf = "M15" \/ z.seq.tf = "M5"
        BY <3>2 DEF Frames
      <4>3. QED
        BY <4>1, <4>2
    <3>4. p.raid = z.seq.raid - Span[z.seq.tf] /\ now \in Nat
      BY <2>1, WindowsAssumption DEF RaidOpen, z, TypeOK, Times
    <3>5. QED
      BY <3>2, <3>3, <3>4
  <2>7. PlanInv'
    <3>1. IsFiniteSet(plans) /\ IsFiniteSet(plans') /\ OnePlanPerRaid /\ p \notin plans
      BY <2>1, <2>2, FS_AddElement DEF ZoneInv, PlanInv
    <3>2. OnePlanPerRaid'
      BY <2>1, <2>2, <3>1 DEF OnePlanPerRaid, Plan, Times
    <3>3. ASSUME NEW q \in plans'
          PROVE  q.raid + Span["M15"] <= now /\ zones[q.key] # Gone /\ (zones[q.key].st = "CONFIRMED" \/ Past(q, zones[q.key]))
      BY <2>1, <2>2, <2>6 DEF ZoneInv, PlanInv, Finished, Stored
    <3>4. ASSUME NEW k \in Keys
          PROVE  LET given == Cardinality({q \in plans' : q.key = k})
                 IN given <= listed[k].times /\ (Listed(k) /\ ~Finished(k) => given < listed[k].times)
      <4> DEFINE old == {q \in plans : q.key = k}
      <4>1. Cardinality(old) <= listed[k].times /\ (Listed(k) /\ ~Finished(k) => Cardinality(old) < listed[k].times)
        BY DEF ZoneInv, PlanInv
      <4>2. CASE k # p.key
        <5>1. {q \in plans' : q.key = k} = old
          BY <2>2, <4>2
        <5>2. QED
          BY <4>1, <5>1
      <4>3. CASE k = p.key
        <5>1. {q \in plans' : q.key = k} = old \cup {p}
          BY <2>2, <4>3
        <5>2. IsFiniteSet(old) /\ p \notin old /\ old \subseteq plans
          BY <3>1, FS_Subset
        <5>3. Cardinality(old \cup {p}) = Cardinality(old) + 1 /\ Cardinality(old) \in Nat
          BY <5>2, FS_AddElement, FS_CardinalityType
        <5>4. Cardinality(old) < listed[k].times /\ listed[k].times \in Nat /\ Finished(k)
          BY <2>1, <4>3 DEF TypeOK
        <5> HIDE DEF old
        <5>5. Cardinality(old \cup {p}) <= listed[k].times
          BY <5>3, <5>4
        <5>6. QED
          BY <5>1, <5>4, <5>5
      <4>4. QED
        BY <4>2, <4>3
    <3>5. QED
      BY <1>1, <3>1, <3>2, <3>3, <3>4 DEF PlanInv, OnePlanPerRaid, Listed, Finished, Stored, Past, RaidOpen
  <2>8. QED
    BY <2>3, <2>4, <2>5, <2>7 DEF ZoneInv
<1>4. QED
  BY <1>2, <1>3

\* A map is published: what it does not list is archived, and what it lists anew may
\* give one plan more.
LEMMA PublishStep ==
  ASSUME TypeOK, ZoneInv, NEW m \in Maps, Publish(m) PROVE TypeOK' /\ ZoneInv'
<1>1. /\ run.pc = "off" /\ now' = now /\ taken' = taken /\ broken' = broken /\ plans' = plans /\ run' = run /\ map' = m
      /\ m # Gone
  BY GoneAssumption DEF Publish
<1>2. \A k \in Keys : zones'[k] = IF zones[k] = Gone \/ k \in m.keys THEN zones[k] ELSE [zones[k] EXCEPT !.archived = TRUE]
  BY DEF Publish
<1>3. \A k \in Keys : listed'[k] = IF k \in m.keys /\ (map = Gone \/ k \notin map.keys)
                                   THEN [listed[k] EXCEPT !.times = @ + 1] ELSE listed[k]
  BY DEF Publish
<1>4. \A k \in Keys : /\ listed[k].times \in Nat /\ listed'[k].first = listed[k].first
                      /\ listed'[k] \in [first : Times \cup {Gone}, times : Nat]
                      /\ listed'[k].times = IF k \in m.keys /\ ~Listed(k) THEN listed[k].times + 1 ELSE listed[k].times
  <2>1. ASSUME NEW k \in Keys
        PROVE  /\ listed[k].times \in Nat /\ listed'[k].first = listed[k].first
               /\ listed'[k] \in [first : Times \cup {Gone}, times : Nat]
               /\ listed'[k].times = IF k \in m.keys /\ ~Listed(k) THEN listed[k].times + 1 ELSE listed[k].times
    <3> DEFINE l == listed[k]
    <3>1. l \in [first : Times \cup {Gone}, times : Nat]
      BY DEF TypeOK
    <3>2. listed'[k] = IF k \in m.keys /\ ~Listed(k) THEN [l EXCEPT !.times = @ + 1] ELSE l
      BY <1>3 DEF Listed
    <3> HIDE DEF l
    <3>3. QED
      BY <3>1, <3>2 DEF l
  <2>2. QED
    BY <2>1
<1>5. ASSUME NEW k \in Keys, zones[k] # Gone
      PROVE  /\ zones'[k] # Gone /\ zones'[k] \in Zone /\ Sound(zones'[k])
             /\ zones'[k].st = zones[k].st /\ zones'[k].seq = zones[k].seq /\ zones'[k].seen = zones[k].seen
             /\ zones'[k].born = zones[k].born
             /\ k \in m.keys => zones'[k] = zones[k]
             /\ k \notin m.keys => zones'[k].archived
  <2>1. Sound(zones[k]) /\ zones[k] \in Zone
    BY <1>5 DEF ZoneInv, RowInv, Sound
  <2>2. CASE k \in m.keys
    BY <1>2, <1>5, <2>1, <2>2
  <2>3. CASE k \notin m.keys
    <3> DEFINE z == zones[k]
               w == [z EXCEPT !.archived = TRUE]
    <3>1. /\ w \in Zone /\ w.born = z.born /\ w.archived = TRUE /\ w.st = z.st /\ w.seq = z.seq /\ w.seen = z.seen
          /\ w.from = z.from /\ w.sweeps = z.sweeps /\ w.swept = z.swept
      BY <2>1 DEF Zone
    <3>2. zones'[k] = w
      BY <1>2, <1>5, <2>3
    <3> HIDE DEF w
    <3>3. Sound(w)
      BY <2>1, <3>1 DEF Sound, Orderly, RaidInv, Intact, Windows, Counted, NextDue
    <3>4. QED
      BY <2>3, <3>1, <3>2, <3>3, ZoneOrGone
  <2>4. QED
    BY <2>2, <2>3
<1>6. \A k \in Keys : zones[k] = Gone => zones'[k] = Gone
  BY <1>2
<1>7. TypeOK'
  <2>1. zones' \in [Keys -> Zone \cup {Gone}]
    <3>1. \A k \in Keys : zones'[k] \in Zone \cup {Gone}
      BY <1>5, <1>6
    <3>2. QED
      BY <3>1 DEF Publish
  <2>2. listed' \in [Keys -> [first : Times \cup {Gone}, times : Nat]]
    BY <1>4 DEF Publish
  <2>3. QED
    BY <1>1, <2>1, <2>2 DEF TypeOK
<1>8. ASSUME NEW k \in Keys PROVE RowInv(k)' /\ CopyInv(k)'
  <2>1. zones'[k] # Gone => Sound(zones[k])' /\ listed'[k].first = zones'[k].born
    <3>1. zones'[k] # Gone => Sound(zones'[k]) /\ listed'[k].first = zones'[k].born
      BY <1>4, <1>5, <1>6 DEF ZoneInv, RowInv
    <3>2. QED
      BY <1>1, <3>1 DEF Sound, Orderly, RaidInv, Intact, Windows, Counted, Taken, NextDue
  <2>2. zones'[k] = Gone => listed'[k].first = Gone
    BY <1>4, <1>5 DEF ZoneInv, RowInv
  <2>3. zones'[k] # Gone /\ ~zones'[k].archived => k \in m.keys
    BY <1>5, <1>6
  <2>4. run'.z[k] = Gone /\ run'.pc = "off"
    BY <1>1 DEF ZoneInv, CopyInv
  <2>5. RowInv(k)'
    BY <1>1, <2>1, <2>2, <2>3 DEF RowInv, Stored, Listed
  <2>6. QED
    BY <2>4, <2>5 DEF CopyInv
<1>9. CurInv' /\ ConfirmedInv'
  BY <1>1 DEF ZoneInv, CurInv, ConfirmedInv
<1>10. PlanInv'
  <2>1. ASSUME NEW p \in plans
        PROVE  zones'[p.key] # Gone /\ (zones'[p.key].st = "CONFIRMED" \/ Past(p, zones'[p.key]))
    <3>1. p.key \in Keys /\ zones[p.key] # Gone /\ (zones[p.key].st = "CONFIRMED" \/ Past(p, zones[p.key]))
      BY DEF TypeOK, Plan, ZoneInv, PlanInv
    <3>2. QED
      BY <1>5, <3>1 DEF Past, RaidOpen
  <2>2. ASSUME NEW k \in Keys
        PROVE  LET given == Cardinality({p \in plans : p.key = k})
               IN given <= listed'[k].times /\ (k \in m.keys /\ ~Finished(k)' => given < listed'[k].times)
    <3> DEFINE given == Cardinality({p \in plans : p.key = k})
    <3>1. given <= listed[k].times /\ (Listed(k) /\ ~Finished(k) => given < listed[k].times) /\ given \in Nat
      <4>1. IsFiniteSet({p \in plans : p.key = k})
        BY FS_Subset DEF ZoneInv, PlanInv
      <4>2. QED
        BY <4>1, FS_CardinalityType DEF ZoneInv, PlanInv
    <3>2. k \in m.keys /\ Finished(k) => Finished(k)'
      BY <1>5 DEF Finished, Stored
    <3> HIDE DEF given
    <3>3. QED
      BY <1>4, <3>1, <3>2 DEF given
  <2>3. QED
    BY <1>1, <2>1, <2>2 DEF ZoneInv, PlanInv, OnePlanPerRaid, Listed, Past, RaidOpen
<1>11. QED
  BY <1>7, <1>8, <1>9, <1>10 DEF ZoneInv

\* A minute passes between two ticks: more levels are taken, no row is touched.
LEMMA MinuteStep ==
  ASSUME TypeOK, ZoneInv, Minute PROVE TypeOK' /\ ZoneInv'
<1>1. /\ run.pc = "off" /\ now' = now + 1 /\ now' \in Times /\ now \in Nat
      /\ map' = map /\ zones' = zones /\ run' = run /\ plans' = plans /\ listed' = listed
  BY WindowsAssumption DEF Minute, TypeOK, Times
<1>2. PICK hit \in SUBSET {l \in Levels : taken[l] = 0}, under \in SUBSET Roots :
        /\ taken' = [l \in Levels |-> IF l \in hit THEN now' ELSE taken[l]]
        /\ broken' = [r \in Roots |-> IF r \in under THEN now' ELSE broken[r]]
  BY DEF Minute
<1>3. TypeOK'
  BY <1>1, <1>2 DEF TypeOK
<1>4. Taken \subseteq Taken'
  BY <1>1, <1>2 DEF Taken
<1>5. ASSUME NEW z, Sound(z) PROVE Sound(z)'
  <2>1. z \in Zone /\ z.born \in Nat /\ z.seq.mss \in Nat /\ z.seq.fvg \in Nat /\ z.seen \in [Frames -> Nat]
    BY <1>5, SeqFields DEF Sound
  <2>2. Orderly(z)'
    BY <1>1, <1>5, <2>1 DEF Sound, Orderly, NextDue
  <2>3. Intact(z)'
    BY <1>1, <1>5, <2>1 DEF Sound, Intact
  <2>4. Counted(z)'
    BY <1>4, <1>5 DEF Sound, Counted
  <2>5. QED
    BY <1>5, <2>2, <2>3, <2>4 DEF Sound, RaidInv, Windows
<1>6. \A k \in Keys : RowInv(k)' /\ CopyInv(k)'
  BY <1>1, <1>5 DEF ZoneInv, RowInv, CopyInv, Stored, Listed
<1>7. CurInv' /\ ConfirmedInv'
  BY <1>1 DEF ZoneInv, CurInv, ConfirmedInv
<1>8. PlanInv'
  <2>1. ASSUME NEW p \in plans PROVE p.raid + Span["M15"] <= now'
    <3>1. p.raid \in Nat /\ Span["M15"] \in Nat /\ p.raid + Span["M15"] <= now
      BY FramesAssumption, WindowsAssumption DEF ZoneInv, PlanInv, TypeOK, Plan, Times, Frames
    <3>2. QED
      BY <1>1, <3>1
  <2>2. QED
    BY <1>1, <2>1 DEF ZoneInv, PlanInv, OnePlanPerRaid, Listed, Finished, Stored, Past, RaidOpen
<1>9. QED
  BY <1>3, <1>6, <1>7, <1>8 DEF ZoneInv
-----------------------------------------------------------------------------
LEMMA InitInv == Init => TypeOK /\ ZoneInv
<1> SUFFICES ASSUME Init PROVE TypeOK /\ ZoneInv
  OBVIOUS
<1>1. TypeOK
  BY WindowsAssumption DEF Init, TypeOK, Off, Times
<1>2. \A k \in Keys : RowInv(k) /\ CopyInv(k)
  BY DEF Init, Off, RowInv, CopyInv, Stored
<1>3. CurInv /\ ConfirmedInv
  BY DEF Init, Off, CurInv, ConfirmedInv
<1>4. PlanInv
  <2>1. \A k \in Keys : {p \in plans : p.key = k} = {}
    BY DEF Init
  <2>2. QED
    BY <2>1, FS_EmptySet DEF Init, PlanInv, OnePlanPerRaid, Listed
<1>5. QED
  BY <1>1, <1>2, <1>3, <1>4 DEF ZoneInv

LEMMA StepInv == TypeOK /\ ZoneInv /\ [Next]_vars => TypeOK' /\ ZoneInv'
<1> SUFFICES ASSUME TypeOK, ZoneInv, [Next]_vars PROVE TypeOK' /\ ZoneInv'
  OBVIOUS
<1>1. CASE Minute
  BY <1>1, MinuteStep
<1>2. CASE \E m \in Maps : Publish(m)
  BY <1>2, PublishStep
<1>3. CASE Load
  BY <1>3, LoadStep
<1>4. CASE Tick
  <2>1. Untouched
    BY <1>4 DEF Tick, Untouched
  <2>2. QED
    BY <1>4, <2>1, BarStep, StepZoneStep DEF Tick
<1>5. CASE Save
  BY <1>5, SaveStep
<1>6. CASE HandOver
  BY <1>6, HandOverStep
<1>7. CASE Crash
  BY <1>7, OffStep DEF Crash, Untouched
<1>8. CASE UNCHANGED vars
  <2>1. Untouched /\ run' = run
    BY <1>8 DEF vars, Untouched
  <2>2. TypeOK'
    BY <2>1 DEF TypeOK, Untouched
  <2>3. \A k \in Keys : RowInv(k)' /\ CopyInv(k)'
    BY <2>1, UntouchedKeeps DEF ZoneInv, CopyInv
  <2>4. CurInv'
    BY <2>1, UntouchedKeeps DEF ZoneInv, CurInv, Untouched
  <2>5. ConfirmedInv'
    BY <2>1, UntouchedKeeps DEF ZoneInv, ConfirmedInv, RaidOpen, Untouched
  <2>6. QED
    BY <2>1, <2>2, <2>3, <2>4, <2>5, UntouchedKeeps DEF ZoneInv
<1>9. QED
  BY <1>1, <1>2, <1>3, <1>4, <1>5, <1>6, <1>7, <1>8 DEF Next
-----------------------------------------------------------------------------
(* The theorems.                                                            *)

\* The rows, the copies of a tick, the plans and the clock keep their types, whatever
\* bars, maps, crashes and ticks left out come between.
THEOREM ZonesTyped == Spec => []TypeOK
<1>1. Init => TypeOK /\ ZoneInv
  BY InitInv
<1>2. TypeOK /\ ZoneInv /\ [Next]_vars => (TypeOK /\ ZoneInv)'
  BY StepInv
<1>3. QED
  BY <1>1, <1>2, PTL DEF Spec

\* The inductive invariant: rows and copies are sound, a plan on its way belongs to a row
\* that is confirmed for good, and a zone's later raids open after its plans'.
LEMMA ZoneInvHolds == Spec => [](TypeOK /\ ZoneInv)
<1>1. Init => TypeOK /\ ZoneInv
  BY InitInv
<1>2. TypeOK /\ ZoneInv /\ [Next]_vars => (TypeOK /\ ZoneInv)'
  BY StepInv
<1>3. QED
  BY <1>1, <1>2, PTL DEF Spec

LEMMA ZonesAreSound == ASSUME ZoneInv, NEW z \in Zones PROVE Sound(z)
BY DEF ZoneInv, RowInv, CopyInv, CopyOf, Zones, Copies

\* A zone's state and its sequence agree (clear_sequence and the handlers of every
\* stage), in each row and each copy, through resets, batches of bars and restarts.
THEOREM SequenceHolds == Spec => []SequenceIntact
<1>1. TypeOK /\ ZoneInv => SequenceIntact
  <2>1. SUFFICES ASSUME TypeOK, ZoneInv, NEW z \in Zones
                 PROVE  /\ Intact(z)
                        /\ z.st \in Raided => z.seq.raid > 0 /\ z.seq.raid <= z.seen[z.seq.tf]
    BY DEF SequenceIntact, Intact, Raided
  <2>2. Sound(z) /\ z.seq.tf \in Frames /\ z.seq.raid \in Nat
    BY <2>1, ZonesAreSound, SeqFields DEF Sound
  <2>3. ASSUME z.st \in Raided PROVE z.seq.raid > 0 /\ z.seq.raid <= z.seen[z.seq.tf]
    <3>1. Span[z.seq.tf] <= z.seq.raid /\ z.seq.raid <= z.seen[z.seq.tf]
      BY <2>2, <2>3 DEF Sound, RaidInv
    <3>2. Span[z.seq.tf] \in Nat \ {0}
      BY <2>2, FramesAssumption
    <3>3. QED
      BY <2>2, <3>1, <3>2
  <2>4. QED
    BY <2>2, <2>3 DEF Sound
<1>2. QED
  BY <1>1, ZoneInvHolds, PTL

\* No stage outlives its window (DISP_WINDOW, MSS_WINDOW_BARS, FOOTPRINT_BARS,
\* RETEST_BARS), however many bars a tick catches up with.
THEOREM WindowsAreKept == Spec => []WindowsHold
<1>1. TypeOK /\ ZoneInv => WindowsHold
  BY ZonesAreSound DEF WindowsHold, Sound, Windows
<1>2. QED
  BY <1>1, ZoneInvHolds, PTL

\* Module 6 counts a sweep once: never more sweeps than levels taken.
THEOREM SweepsHold == Spec => []SweepsAreDistinct
<1>1. TypeOK /\ ZoneInv => SweepsAreDistinct
  <2>1. SUFFICES ASSUME TypeOK, ZoneInv, NEW z \in Zones PROVE z.sweeps <= Cardinality(Taken)
    BY DEF SweepsAreDistinct, Taken
  <2>2. Counted(z) /\ z.sweeps \in Nat
    BY <2>1, ZonesAreSound, SeqFields DEF Sound
  <2>3. IsFiniteSet(Taken)
    BY LevelsAssumption, FS_Subset DEF Taken
  <2>4. IsFiniteSet(z.swept) /\ Cardinality(z.swept) <= Cardinality(Taken)
    BY <2>2, <2>3, FS_Subset DEF Counted
  <2>5. Cardinality(z.swept) \in Nat /\ Cardinality(Taken) \in Nat
    BY <2>3, <2>4, FS_CardinalityType
  <2>6. QED
    BY <2>2, <2>4, <2>5 DEF Counted
<1>2. QED
  BY <1>1, ZoneInvHolds, PTL

\* A setup_key names one plan, through a crash before or after the save and when an
\* archived zone is published again.
THEOREM RaidHolds == Spec => []OnePlanPerRaid
<1>1. TypeOK /\ ZoneInv => OnePlanPerRaid
  BY DEF ZoneInv, PlanInv
<1>2. QED
  BY <1>1, ZoneInvHolds, PTL

\* CONFIRMED is terminal for a zone_key while the maps keep listing it (D-26).
THEOREM ListingHolds == Spec => []OnePlanPerListing
<1>1. TypeOK /\ ZoneInv => OnePlanPerListing
  BY DEF ZoneInv, PlanInv, OnePlanPerListing
<1>2. QED
  BY <1>1, ZoneInvHolds, PTL

\* thesis_check against first_seen: a plan that is handed over belongs to a zone first
\* seen no earlier than the last D1 close beyond the root.
THEOREM RootHolds == Spec => BrokenRootIsNotTraded
<1>1. TypeOK /\ ZoneInv /\ [Next]_vars => [\A p \in plans' \ plans : broken[map.root] <= listed[p.key].first]_vars
  <2>1. SUFFICES ASSUME TypeOK, ZoneInv, Next, NEW p \in plans' \ plans
                 PROVE  broken[map.root] <= listed[p.key].first
    OBVIOUS
  <2>2. HandOver
    BY <2>1 DEF Next, Minute, Publish, Load, Tick, Save, Crash
  <2>3. p \in run.confirmed /\ p.key \in Keys
    BY <2>1, <2>2 DEF HandOver, TypeOK, Plan
  <2>4. Stored(p.key) /\ broken[map.root] <= zones[p.key].born
    BY <2>1, <2>3 DEF ZoneInv, ConfirmedInv
  <2>5. listed[p.key].first = zones[p.key].born
    BY <2>1, <2>3, <2>4 DEF ZoneInv, RowInv, Stored
  <2>6. QED
    BY <2>4, <2>5
<1>2. QED
  BY <1>1, ZoneInvHolds, PTL DEF Spec, BrokenRootIsNotTraded
===============================================================================
