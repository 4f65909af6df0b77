---------------------------- MODULE ZoneMachine -----------------------------
(***************************************************************************)
(* The zone executor of mapex/executor/engine.py (GEM2), its zones table   *)
(* (executor/state.py) and the glue that runs it (pipeline.py).  A tick is *)
(* one synchronous call: it loads the rows, steps every zone of the map    *)
(* through the closed bars it has not seen, and saves in one transaction.  *)
(* It is split here into one step per zone and bar, between which nothing  *)
(* else runs but a crash.  What a bar's prices show (a sweep body, a       *)
(* displacement, an MSS close, a retest) is a choice, made once per bar;   *)
(* bars are named by their close times, in minutes.                        *)
(***************************************************************************)
EXTENDS Naturals, FiniteSets

CONSTANTS
  Keys,          \* zone_key values a map may list
  Roots,         \* liquidity pools a map may name as the zones' root
  Levels,        \* M5/M15 pools that a bar may sweep
  Near,          \* Near[k]: the levels near enough to zone k, on its side
  Span,          \* TF_SECONDS in minutes
  Day,           \* TF_SECONDS of a D1 bar
  DispWindow, MssWindow, Footprint, RetestBars,  \* DISP_WINDOW ... RETEST_BARS
  ResetSweeps,   \* up to which sweep noise resets the zone, 2 in the code
  Stale,         \* STALE_SESSIONS, as a time
  MaxLag,        \* CONFIRM_MAX_LAG_S
  Horizon,       \* bound: the last minute of the instance
  MaxListings,   \* bound: how often a zone may appear on the map anew
  Gone           \* no row, no map, no value

Frames == {"M15", "M5", "M1"}
ASSUME FramesAssumption ==
  /\ Span \in [Frames -> Nat \ {0}] /\ Span["M1"] = 1
  /\ Span["M15"] = 3 * Span["M5"]
  /\ Day \in Nat \ {0}
ASSUME WindowsAssumption ==
  /\ DispWindow \in Nat \ {0} /\ MssWindow \in Nat /\ Footprint \in Nat \ {0}
  /\ RetestBars \in Nat /\ ResetSweeps \in Nat /\ Stale \in Nat /\ MaxLag \in Nat
  /\ Horizon \in Nat /\ MaxListings \in Nat
ASSUME LevelsAssumption ==
  /\ Near \in [Keys -> SUBSET Levels] /\ IsFiniteSet(Levels) /\ IsFiniteSet(Keys)

VARIABLES
  now,      \* the clock
  taken,    \* per level: the close of the first M5 bar that reached it, 0 if none
  broken,   \* per root: the last D1 close beyond it, 0 if none
  map,      \* the published map
  zones,    \* the zones table
  run,      \* the tick in progress: the copies of the rows, the CONFIRMED plans
  plans,    \* history: the plans handed to TradeManager.execute
  listed    \* history: when a zone first got a row, and how often it was listed anew

vars == <<now, taken, broken, map, zones, run, plans, listed>>

Max2(a, b) == IF a >= b THEN a ELSE b
Times == 0 .. Horizon
LastClose(tf) == (now \div Span[tf]) * Span[tf]

Sequence == {"RAID", "SHIFT", "GAP", "RETURN"}
ZoneStates == {"WATCH", "CONFIRMED", "MONITOR", "DEAD"} \cup Sequence

\* The keys of ctx that clear_sequence pops; 0 and FALSE stand for "not there".
Seq == [raid : Times, tf : Frames, type7 : BOOLEAN, mss : Times, fvg : Times, pending : BOOLEAN]
NoSeq == [raid |-> 0, tf |-> "M1", type7 |-> FALSE, mss |-> 0, fvg |-> 0, pending |-> FALSE]

StructHash == [keys : SUBSET Keys, root : Roots]
\* opposed: the zones against which the map holds an opposite zone of OPPOSING_LPS.
Maps == {m \in [keys : SUBSET Keys, root : Roots, opposed : SUBSET Keys] : m.opposed \subseteq m.keys}
Hash(m) == [keys |-> m.keys, root |-> m.root]

\* born: first_seen; reached, violated: the anchor's; from: retest_from.
Zone == [st : ZoneStates, sweeps : Nat, hash : StructHash \cup {Gone}, born : Times,
         archived : BOOLEAN, seen : [Frames -> Times], swept : SUBSET Levels,
         reached : BOOLEAN, violated : BOOLEAN, seq : Seq, from : Times]
NewZone ==
  [st |-> "WATCH", sweeps |-> 0, hash |-> Gone, born |-> now, archived |-> FALSE,
   seen |-> [tf \in Frames |-> LastClose(tf)], swept |-> {},
   reached |-> FALSE, violated |-> FALSE, seq |-> NoSeq, from |-> 0]

\* None in the code is nothing else.
ASSUME GoneAssumption == Gone \notin Keys /\ Gone \notin Nat /\ Gone \notin Zone /\ Gone \notin Maps

\* A plan: its setup_key (zone and open of the raid bar), the close of the bar that
\* confirmed it, and when it was made.
Plan == [key : Keys, raid : Times, bar : Times, at : Times]

Off == [pc |-> "off", todo |-> {}, cur |-> Gone, z |-> [k \in Keys |-> Gone], confirmed |-> {}]

Init ==
  /\ now = 0
  /\ taken = [l \in Levels |-> 0] /\ broken = [r \in Roots |-> 0]
  /\ map = Gone /\ zones = [k \in Keys |-> Gone] /\ run = Off
  /\ plans = {} /\ listed = [k \in Keys |-> [first |-> Gone, times |-> 0]]
-----------------------------------------------------------------------------
(* One zone's moves.  The copy of the current zone is replaced; the event    *)
(* loop goes on (Keep) or ends with MONITOR, CONFIRMED or no state (Leave).  *)
Cur == run.cur
Copy == run.z[Cur]
Keep(z) == run' = [run EXCEPT !.z[Cur] = z]
Leave(z) == run' = [run EXCEPT !.z[Cur] = z, !.cur = Gone, !.todo = @ \ {Cur}]

ForgetsRaid(z) == [z EXCEPT !.st = "WATCH", !.seq = [NoSeq EXCEPT !.pending = z.seq.pending]]   \* mutant
ClearSequence(z) == [z EXCEPT !.st = "WATCH", !.seq = NoSeq]
Monitored(z) == [ClearSequence(z) EXCEPT !.st = "MONITOR", !.hash = Hash(map)]
Monitor(z) == Leave(Monitored(z))

\* Module 8 level 1: back to WATCH, a sweep too many or a violated anchor to MONITOR.
Noise(z) ==
  \/ z.sweeps <= ResetSweeps /\ ~z.violated /\ Keep(ClearSequence(z))
  \/ (z.sweeps > ResetSweeps \/ z.violated) /\ Monitor(z)

RaidOpen(z) == z.seq.raid - Span[z.seq.tf]
ConfirmsAgain(z) == [ClearSequence(z) EXCEPT !.sweeps = 0]                \* mutant
Confirmed(z) == [z EXCEPT !.st = "CONFIRMED", !.sweeps = 0]

\* confirm at the event of time t, on the M1 bar that defended the retest: scores, SL
\* and targets may all say NO-SETUP, an event too long ago must.
Confirm(z, bar, t) ==
  \/ Keep(ClearSequence(z))
  \/ /\ now - t <= MaxLag
     /\ run' = [run EXCEPT !.z[Cur] = Confirmed(z), !.cur = Gone, !.todo = @ \ {Cur},
                  !.confirmed = @ \cup {[key |-> Cur, raid |-> RaidOpen(z), bar |-> bar, at |-> now]}]

\* The M1 bars after the gap, not looked at before and closed by t, in their order:
\* bars before bar k left the CE untouched, and bar k decides.
RetestScan(z, t) ==
  LET first == Max2(z.seq.fvg + 1, z.from) + 1
      at(k) == [z EXCEPT !.from = k]
      untouched(k) == \A b \in first .. (k - 1) : b - z.seq.mss < RetestBars
      waiting(k) == [at(k) EXCEPT !.seq.pending = TRUE]
  IN \/ first > t /\ Keep(z)
     \/ /\ first <= t /\ z.seq.pending
        /\ Noise(at(first)) \/ Confirm(at(first), first, t)
     \/ /\ ~z.seq.pending /\ first <= t
        /\ untouched(t + 1) /\ Keep(at(t))
     \/ /\ ~z.seq.pending
        /\ \E k \in first .. t :
             /\ untouched(k)
             /\ \/ Noise(at(k))
                \/ k - z.seq.mss <= RetestBars /\ Confirm(at(k), k, t)
                \/ /\ k - z.seq.mss <= RetestBars
                   /\ \/ k = t /\ Keep(waiting(k))
                      \/ k < t /\ (Noise(waiting(k + 1)) \/ Confirm(waiting(k + 1), k + 1, t))

\* The footprint of the bars from the MSS bar on, known when the next bar has closed.
GapEval(z, t) ==
  \/ t < z.seq.mss + Footprint /\ Keep(z)
  \/ /\ t >= z.seq.mss + Footprint
     /\ \/ Noise(z)
        \/ \E f \in z.seq.mss .. (z.seq.mss + Footprint - 1) :
             RetestScan([z EXCEPT !.st = "RETURN", !.seq.fvg = f], t)

MssOverLate(z, t) == t > z.seq.raid + MssWindow * Span[z.seq.tf]              \* mutant
MssOver(z, t) == t >= z.seq.raid + MssWindow * Span[z.seq.tf]

\* An M1 body close beyond the MSS level, on one of the bars not judged before.
ShiftScan(z, t, bars) ==
  \/ \E b \in bars : GapEval([z EXCEPT !.st = "GAP", !.seq.mss = b], t)
  \/ IF MssOver(z, t) THEN Noise(z) ELSE Keep(z)

\* The j-th bar after the raid: candle 2 must close back inside, and the bar before
\* this one may be a displacement, within DISP_WINDOW bars of the raid.
Type7(z, j) == [z EXCEPT !.seq.type7 = @ \/ j = 1]
Raid(z, t) ==
  LET j == (t - z.seq.raid) \div Span[z.seq.tf]
      z7 == Type7(z, j)
  IN \/ j = 1 /\ Noise(z)
     \/ /\ j - 1 \in 1 .. DispWindow
        /\ ShiftScan([z7 EXCEPT !.st = "SHIFT"], t, (z.seq.raid + 1) .. t)
     \/ j >= DispWindow + 1 /\ Noise(z7)
     \/ j < DispWindow + 1 /\ Keep(z7)

\* The levels a bar is the first to take; one swept on its M5 bar is not counted again
\* on its M15 bar.
CountsTwice(z, tf, t) == {l \in Near[Cur] : taken[l] \in (t - Span[tf] + 1) .. t}   \* mutant
SweptBy(z, tf, t) == {l \in Near[Cur] \ z.swept : taken[l] \in (t - Span[tf] + 1) .. t}
Watch(z, tf, t) ==
  LET hit == SweptBy(z, tf, t)
      swept == [z EXCEPT !.sweeps = @ + 1, !.swept = @ \cup hit, !.reached = TRUE,
                         !.seq = [NoSeq EXCEPT !.raid = t, !.tf = tf]]
  IN \/ hit = {} /\ Keep(z)
     \/ hit # {} /\ (Noise(swept) \/ Keep([swept EXCEPT !.st = "RAID"]))   \* wick only, or a body close

Handle(z, tf, t) ==
  \/ z.st = "WATCH" /\ tf # "M1" /\ Watch(z, tf, t)
  \/ z.st = "RAID" /\ tf = z.seq.tf /\ Raid(z, t)
  \/ z.st = "SHIFT" /\ tf = "M1" /\ ShiftScan(z, t, {t})
  \/ z.st = "GAP" /\ tf = "M1" /\ GapEval(z, t)
  \/ z.st = "RETURN" /\ tf = "M1" /\ RetestScan(z, t)
  \/ /\ z.st = "WATCH" => tf = "M1"
     /\ z.st = "RAID" => tf # z.seq.tf
     /\ z.st \in {"SHIFT", "GAP", "RETURN"} => tf # "M1"
     /\ Keep(z)

\* new_events: in the order of the closes, M15 before M5 before M1 at a tie.
Rank(tf) == CASE tf = "M15" -> 0 [] tf = "M5" -> 1 [] OTHER -> 2
Due(tf) == Copy.seen[tf] + Span[tf]
Pending == {tf \in Frames : Due(tf) <= LastClose(tf)}
IsNext(tf) ==
  /\ tf \in Pending
  /\ \A o \in Pending \ {tf} : Due(tf) < Due(o) \/ (Due(tf) = Due(o) /\ Rank(tf) < Rank(o))

OnBar(tf) ==
  /\ run.pc = "zones" /\ Cur # Gone /\ IsNext(tf)
  /\ LET t == Due(tf)
         z == [Copy EXCEPT !.seen[tf] = t]
     IN \/ tf # "M15" /\ Handle(z, tf, t)
        \/ /\ tf = "M15"
           /\ \E touched, beyond \in BOOLEAN :
                /\ beyond => touched
                /\ LET anchored == [z EXCEPT !.reached = @ \/ touched, !.violated = @ \/ beyond]
                   IN \/ z.st \in Sequence /\ Monitor(anchored)      \* M15 structure contradicts
                      \/ Handle(anchored, tf, t)

EndOfBars == run.pc = "zones" /\ Cur # Gone /\ Pending = {} /\ Leave(Copy)
-----------------------------------------------------------------------------
(* step_zone up to its event loop.                                           *)
ReplaysBars == [NewZone EXCEPT !.seen = [tf \in Frames |-> 0]]                  \* mutant
FirstLook == NewZone
Fresh(z) == [z EXCEPT !.st = "WATCH", !.sweeps = 0, !.swept = {}, !.reached = FALSE,
                      !.violated = FALSE, !.seq = NoSeq, !.from = 0]
RootBroken(z) == broken[map.root] > z.born

StepZone(k) ==
  /\ run.pc = "zones" /\ Cur = Gone /\ k \in run.todo
  /\ LET z == IF run.z[k] = Gone THEN FirstLook ELSE run.z[k]
         awake == IF z.st = "MONITOR" THEN Fresh(z) ELSE z
         stale == ~awake.reached /\ now - z.born >= Stale
         done(r) == run' = [run EXCEPT !.z[k] = r, !.todo = @ \ {k}]
     IN \/ z.st \in {"DEAD", "CONFIRMED"} /\ done(z)
        \/ /\ z.st \notin {"DEAD", "CONFIRMED"} /\ RootBroken(z)
           /\ done([ClearSequence(z) EXCEPT !.st = "DEAD"])
        \/ z.st = "MONITOR" /\ ~RootBroken(z) /\ z.hash = Hash(map) /\ done(z)
        \/ /\ z.st \notin {"DEAD", "CONFIRMED"} /\ ~RootBroken(z)
           /\ z.st = "MONITOR" => z.hash # Hash(map)
           /\ IF k \in map.opposed \/ stale THEN done(Monitored(awake))
              ELSE run' = [run EXCEPT !.z[k] = awake, !.cur = k]
-----------------------------------------------------------------------------
(* run_executor around it, and what happens between ticks.                   *)

\* A tick may be left out: preflight stops on a stale quote, a closed market, a gap.
Load ==
  /\ run.pc = "off" /\ map # Gone
  /\ run' = [Off EXCEPT !.pc = "zones", !.todo = map.keys,
               !.z = [k \in Keys |-> IF zones[k] # Gone /\ ~zones[k].archived THEN zones[k] ELSE Gone]]
  /\ UNCHANGED <<now, taken, broken, map, zones, plans, listed>>

\* save_state's upsert does not update first_seen; a row that is saved is not archived.
Rejuvenates(k) == run.z[k]                                                      \* mutant
Saved(k) == IF zones[k] = Gone THEN run.z[k] ELSE [run.z[k] EXCEPT !.born = zones[k].born]

\* One transaction; then one plan, alpha_pick's, goes on to execute.
Save ==
  /\ run.pc = "zones" /\ Cur = Gone /\ run.todo = {}
  /\ zones' = [k \in Keys |-> IF run.z[k] = Gone THEN zones[k] ELSE Saved(k)]
  /\ listed' = [k \in Keys |-> IF listed[k].first = Gone /\ run.z[k] # Gone
                               THEN [listed[k] EXCEPT !.first = now] ELSE listed[k]]
  /\ IF run.confirmed = {} THEN run' = Off
     ELSE \E p \in run.confirmed : run' = [Off EXCEPT !.pc = "plan", !.confirmed = {p}]
  /\ UNCHANGED <<now, taken, broken, map, plans>>

HandOver ==
  /\ run.pc = "plan"
  /\ plans' = plans \cup run.confirmed /\ run' = Off
  /\ UNCHANGED <<now, taken, broken, map, zones, listed>>

Tick ==
  /\ (\E tf \in Frames : OnBar(tf)) \/ EndOfBars \/ (\E k \in Keys : StepZone(k))
  /\ UNCHANGED <<now, taken, broken, map, zones, plans, listed>>

Crash == run.pc # "off" /\ run' = Off /\ UNCHANGED <<now, taken, broken, map, zones, plans, listed>>

\* save_map of a valid map: the zones it does not list are archived.
Publish(m) ==
  /\ run.pc = "off" /\ m # map
  /\ map' = m
  /\ zones' = [k \in Keys |-> IF zones[k] = Gone \/ k \in m.keys THEN zones[k]
                              ELSE [zones[k] EXCEPT !.archived = TRUE]]
  /\ listed' = [k \in Keys |-> IF k \in m.keys /\ (map = Gone \/ k \notin map.keys)
                               THEN [listed[k] EXCEPT !.times = @ + 1] ELSE listed[k]]
  /\ \A k \in Keys : listed'[k].times <= MaxListings
  /\ UNCHANGED <<now, taken, broken, run, plans>>

\* The market: a closed M5 bar takes levels, a closed D1 bar breaks roots.
Minute ==
  /\ run.pc = "off" /\ now < Horizon
  /\ now' = now + 1
  /\ \E hit \in SUBSET {l \in Levels : taken[l] = 0}, under \in SUBSET Roots :
       /\ hit # {} => now' % Span["M5"] = 0
       /\ under # {} => now' % Day = 0
       /\ taken' = [l \in Levels |-> IF l \in hit THEN now' ELSE taken[l]]
       /\ broken' = [r \in Roots |-> IF r \in under THEN now' ELSE broken[r]]
  /\ UNCHANGED <<map, zones, run, plans, listed>>

Next == Minute \/ (\E m \in Maps : Publish(m)) \/ Load \/ Tick \/ Save \/ HandOver \/ Crash

Spec == Init /\ [][Next]_vars
=============================================================================
