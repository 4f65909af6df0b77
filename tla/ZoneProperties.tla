--------------------------- MODULE ZoneProperties ----------------------------
(* What must be true of the zone executor. *)
EXTENDS ZoneMachine

\* Every row the executor has saved, and every copy it works on.
Copies == {zones[k] : k \in Keys} \cup {run.z[k] : k \in Keys}
Zones == Copies \ {Gone}

\* A zone's state and the parts of its sequence agree, whatever resets, batches of
\* bars, maps and restarts came between: each stage rests on the one before it, in the
\* order of the bars, behind a candle 2 that closed back inside (Type 7), and a zone
\* outside the sequence keeps no trace of an earlier one (clear_sequence).
SequenceIntact ==
  \A z \in Zones :
    /\ z.st \in {"WATCH", "MONITOR", "DEAD"} => z.seq = NoSeq
    /\ z.st \in Sequence \cup {"CONFIRMED"} => z.seq.raid > 0 /\ z.seq.raid <= z.seen[z.seq.tf]
    /\ z.st \in {"SHIFT", "GAP", "RETURN", "CONFIRMED"} => z.seq.type7
    /\ z.st \in {"GAP", "RETURN", "CONFIRMED"} => z.seq.raid < z.seq.mss /\ z.seq.mss <= now
    /\ z.st \in {"RETURN", "CONFIRMED"} =>
         z.seq.fvg \in z.seq.mss .. (z.seq.mss + Footprint - 1) /\ z.seq.fvg < now
    /\ z.seq.pending => z.st \in {"RETURN", "CONFIRMED"} /\ z.from > z.seq.fvg + 1

\* No stage of a sequence outlives its window, even when many bars are caught up at
\* once (DISP_WINDOW, MSS_WINDOW_BARS, FOOTPRINT_BARS, RETEST_BARS).
WindowsHold ==
  \A z \in Zones :
    LET s == z.seq
    IN /\ z.st = "RAID" => z.seen[s.tf] - s.raid <= DispWindow * Span[s.tf]
       /\ z.st = "SHIFT" => z.seen["M1"] < s.raid + MssWindow * Span[s.tf]
       /\ z.st = "GAP" => z.seen["M1"] < s.mss + Footprint
       /\ z.st = "RETURN" => z.from <= s.mss + RetestBars

\* A sweep is counted once, although its M5 bar and its M15 bar both show it: the
\* sweeps counted are never more than the levels taken (Module 6).
SweepsAreDistinct ==
  \A z \in Zones : z.sweeps <= Cardinality({l \in Levels : taken[l] > 0})

\* A raid gives one plan: no other plan has the same setup_key, through a crash
\* before or after the save, and when an archived zone is published again.
OnePlanPerRaid == \A p, q \in plans : p.key = q.key /\ p.raid = q.raid => p = q

\* A zone gives one plan while the maps keep listing it (D-26: "CONFIRMED is terminal
\* for a zone_key"); only a zone that vanished and was listed anew may give another.
OnePlanPerListing ==
  \A k \in Keys : Cardinality({p \in plans : p.key = k}) <= listed[k].times

\* No plan follows once a D1 close beyond the root has come after the zone was first
\* seen, not even for a zone archived and listed again (thesis_check, first_seen).
BrokenRootIsNotTraded ==
  [][\A p \in plans' \ plans : broken[map.root] <= listed[p.key].first]_vars

\* A plan is made at most MaxLag after the bar that defended the retest closed
\* (D-36: "a CONFIRMED whose defense bar closed more than 120 s ago is never traded").
DefenseIsFresh == \A p \in plans : p.at - p.bar <= MaxLag
=============================================================================
