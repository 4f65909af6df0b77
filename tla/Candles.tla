------------------------------- MODULE Candles -------------------------------
(***************************************************************************)
(* The candle cache (data/candles.py) and what a tick does with it         *)
(* (main.py symbol_tick), for one intraday series.  Two tasks refresh the  *)
(* same list: the tick, and the tool calls of the MCP API.  A refresh      *)
(* takes what is cached before it waits and stores the merger after it.    *)
(* The owner task of the MCP session has one call served after the other;  *)
(* the Open API sends each as it is made and matches the answers by id, so *)
(* that one computed before a close may be stored after a newer one.       *)
(*                                                                         *)
(* Bar n is open from n * Step to (n + 1) * Step.  `cache' maps the cached *)
(* bars to whether their values are the final ones: the answer that        *)
(* brought them was computed after the close and the grace.                *)
(***************************************************************************)
EXTENDS Integers, Sequences, FiniteSetsExt

CONSTANTS Step,       \* TF_SECONDS
          Grace,      \* CLOSED_GRACE_S
          History,    \* HISTORY: fewer bars than this are a short answer
          Keep,       \* int(HISTORY * 1.2)
          Lookback,   \* missing_bars looks at so many of the newest bars
          MaxNow      \* bound: the clock

ASSUME CandleAssumption ==
  /\ {Step, Grace, History, Keep, Lookback, MaxNow} \subseteq Nat
  /\ 0 < Grace /\ Grace < Step /\ 1 < History /\ History <= Keep

VARIABLES now, given, cache, job,
          session,    \* which client the process has
          line,       \* the calls before the owner task of the MCP session
          last, shown
feedVars == <<now, given, cache, job, session, line, last, shown>>

Bars == 0 .. MaxNow \div Step     \* the history is complete up to bar 0
Tasks == {"tick", "tool"}
None == -1
NoBars == [n \in {} |-> FALSE]
Idle == [pc |-> "idle", at |-> 0, have |-> NoBars, how |-> "range", ok |-> TRUE]

FeedInit ==
  /\ now = 0 /\ given = {0} /\ cache = NoBars
  /\ job = [k \in Tasks |-> Idle] /\ session \in {"mcp", "openapi"} /\ line = <<>>
  /\ last = None /\ shown = {}
-----------------------------------------------------------------------------
Newest(S, k) == {n \in S : Cardinality({j \in S : j > n}) < k}
Final(n, at) == at >= (n + 1) * Step + Grace               \* is_closed
Closed(at) == {n \in DOMAIN cache : Final(n, at)}          \* closed_bars

\* missing_bars: holes among the newest closed bars (the market is open throughout).
Gaps(S) == LET tail == Newest(S, Lookback)
           IN IF tail = {} THEN {} ELSE {n \in Min(tail) .. Max(tail) : n \notin tail}

\* refresh: from the last but one bar on, which may have been stored before it closed.
StartsAtLast(have) == Max(have)                            \* mutant
StartOf(have) == Min(Newest(have, 2))
Enough(have) == Cardinality(have) >= 2

Ask(k, pc, at, have, ok) ==
  /\ job' = [job EXCEPT ![k] = [pc |-> pc, at |-> at, have |-> have, ok |-> ok,
                                how |-> IF Enough(DOMAIN have) THEN "range" ELSE "count"]]
  /\ line' = IF session = "mcp" THEN Append(line, k) ELSE line

Fresh(j) ==
  IF j.how = "count" THEN Newest(given, Keep)
  ELSE {n \in given : n * Step < j.at + Step /\ (Enough(DOMAIN j.have) => n >= StartOf(DOMAIN j.have))}
Short(j) == j.how = "count" /\ Cardinality(Fresh(j)) < History

Merged(j) == [n \in Newest(DOMAIN j.have \cup Fresh(j), Keep) |->
                IF n \in Fresh(j) THEN Final(n, now) ELSE j.have[n]]

Waiting(k) == job[k].pc \in {"refresh", "refetch"}
Turn(k) == Waiting(k) /\ (session = "mcp" => line # <<>> /\ Head(line) = k)
Left == IF session = "mcp" THEN Tail(line) ELSE line

\* The broker computes the answer; what the merger will be is settled.
Served(k) ==
  /\ Turn(k) /\ job[k].how # "served" /\ ~Short(job[k])
  /\ job' = [job EXCEPT ![k].how = "served", ![k].have = Merged(job[k])]
  /\ UNCHANGED <<now, given, cache, session, line, last, shown>>

\* The answer has come: the merger replaces whatever is cached by now.
Answered(k, pc) ==
  /\ Turn(k) /\ job[k].how = "served"
  /\ line' = Left /\ cache' = job[k].have
  /\ job' = [job EXCEPT ![k] = IF pc = "idle" THEN Idle ELSE [Idle EXCEPT !.pc = pc, !.at = job[k].at]]
  /\ UNCHANGED <<now, given, session, last, shown>>

\* last_bars answered with fewer bars than the history, or was refused: load by ranges.
LoadByRanges(k) ==
  /\ Turn(k) /\ job[k].how = "count"
  /\ job' = [job EXCEPT ![k].how = "range"]
  /\ line' = IF session = "mcp" THEN Append(Tail(line), k) ELSE line
  /\ UNCHANGED <<now, given, cache, session, last, shown>>

\* The call raised: the tick of this symbol ends here, or the tool call fails.
Failed(k) ==
  /\ Turn(k)
  /\ line' = Left /\ job' = [job EXCEPT ![k] = Idle]
  /\ UNCHANGED <<now, given, cache, session, last, shown>>
-----------------------------------------------------------------------------
BeginTick ==
  /\ job["tick"].pc = "idle" /\ Ask("tick", "refresh", now, cache, TRUE)
  /\ UNCHANGED <<now, given, cache, session, last, shown>>
Refreshed == job["tick"].pc = "refresh" /\ Answered("tick", "check")

\* ensure_contiguous, after the other frames were awaited: with a hole the series is dropped
\* and asked for once more.
Whole ==
  /\ job["tick"].pc = "check" /\ Gaps(Closed(job["tick"].at)) = {}
  /\ job' = [job EXCEPT !["tick"].pc = "show"]
  /\ UNCHANGED <<now, given, cache, session, line, last, shown>>
Refetch ==
  /\ job["tick"].pc = "check" /\ Gaps(Closed(job["tick"].at)) # {}
  /\ cache' = NoBars /\ Ask("tick", "refetch", job["tick"].at, NoBars, TRUE)
  /\ UNCHANGED <<now, given, session, last, shown>>
Refetched == job["tick"].pc = "refetch" /\ Answered("tick", "recheck")
Rechecked ==
  /\ job["tick"].pc = "recheck"
  /\ job' = [job EXCEPT !["tick"].pc = "show", !["tick"].ok = Gaps(Closed(job["tick"].at)) = {}]
  /\ UNCHANGED <<now, given, cache, session, line, last, shown>>

\* PaperVenue.on_bar for every closed bar after the last one seen; a new process begins with
\* the bars of the last 120 s.
New(n) == IF last = None THEN n * Step > job["tick"].at - 2 * Step ELSE n > last
ShownNow == {n \in Closed(job["tick"].at) : New(n)}
SeesForming == DOMAIN cache                                \* mutant
Seen == Closed(job["tick"].at)                             \* what last_m1 is set from
Show ==
  /\ job["tick"].pc = "show"
  /\ shown' = shown \cup ShownNow
  /\ last' = IF Seen = {} THEN last ELSE Max(Seen)
  /\ job' = [job EXCEPT !["tick"].pc = "decide"]
  /\ UNCHANGED <<now, given, cache, session, line>>

\* The executor reads the bars after map_symbol was awaited; without `ok' it takes no entry.
Decide ==
  /\ job["tick"].pc = "decide"
  /\ job' = [job EXCEPT !["tick"] = Idle]
  /\ UNCHANGED <<now, given, cache, session, line, last, shown>>

\* bars() of mcp_api: refresh, then read closed bars.
BeginTool ==
  /\ job["tool"].pc = "idle" /\ Ask("tool", "refresh", now, cache, TRUE)
  /\ UNCHANGED <<now, given, cache, session, last, shown>>
ToolAnswered == job["tool"].pc = "refresh" /\ Answered("tool", "idle")
-----------------------------------------------------------------------------
\* Outside: time; the broker opens a bar with its first trade, a minute without one leaves a
\* hole, which it may fill later, the oldest first; the process is replaced.
Clock ==
  /\ now < MaxNow
  /\ now' = now + 1 /\ UNCHANGED <<given, cache, job, session, line, last, shown>>
Holes == {n \in Bars : n \notin given /\ \E j \in given : n < j}
GiveBar ==
  /\ now \div Step \notin given
  /\ given' = given \cup {now \div Step} /\ UNCHANGED <<now, cache, job, session, line, last, shown>>
FillHole ==
  /\ Holes # {} /\ given' = given \cup {Min(Holes)}
  /\ UNCHANGED <<now, cache, job, session, line, last, shown>>
Restart ==
  /\ cache' = NoBars /\ job' = [k \in Tasks |-> Idle] /\ line' = <<>>
  /\ last' = None /\ shown' = {}
  /\ UNCHANGED <<now, given, session>>

FeedNext ==
  \/ BeginTick \/ Refreshed \/ Whole \/ Refetch \/ Refetched \/ Rechecked \/ Show \/ Decide
  \/ BeginTool \/ ToolAnswered
  \/ \E k \in Tasks : Served(k) \/ LoadByRanges(k) \/ Failed(k)
  \/ Clock \/ GiveBar \/ FillHole \/ Restart
=============================================================================
