------------------------------ MODULE DataPath -------------------------------
(***************************************************************************)
(* From the broker's bars to a plan.  `part' picks what a behaviour shows: *)
(* how the bars reach their readers (Candles), or what the readers make of *)
(* a series of closed bars (Chart).                                        *)
(***************************************************************************)
EXTENDS Candles, Chart

VARIABLE part
pathVars == <<feedVars, bars, part>>

Init ==
  /\ part \in {"feed", "chart"}
  /\ FeedInit
  /\ IF part = "chart" THEN ChartInit /\ session = "mcp" ELSE bars = <<>>

Feed == part = "feed" /\ FeedNext /\ UNCHANGED <<bars, part>>
Bar == part = "chart" /\ NextBar /\ UNCHANGED <<feedVars, part>>

Next == Feed \/ Bar
Spec == Init /\ [][Next]_pathVars
=============================================================================
