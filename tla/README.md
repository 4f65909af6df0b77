# mapex in TLA+

mapex is a trading service: it maps the liquidity of a few symbols (GEM1), waits for
one exact sequence of candles at a zone of that map (GEM2), and sends one order for
it to a cTrader account, which it then manages until the position is closed. This
directory holds TLA+ modules of its behaviour, TLC runs that check them on small
instances, and TLAPS proofs for every value of the constants. Paths below are
relative to `src/`.

## 1. The system

The service is one asyncio process per account (`mapex/main.py`, class `App`) with a
SQLite file; a second process may be up during a deployment, and a lease decides which
of them acts. Synchronous code between two awaits is atomic; a transaction is atomic
on disk.

| component | state it keeps | operations | hard part | what must be true |
|---|---|---|---|---|
| order flow, `ctrader/broker.py` `TradeManager` | `trades` table, `lock`, kill switch in `kv`; the broker keeps the positions | `execute`, `manage`, `reconcile`, `flat`, each a conversation of broker calls under `lock` | lost and late answers, partial failures, crashes between a call and its record, the owner acting in the terminal | at most one position per setup; the book and the broker agree; the owner, foreign positions and those of the other venue are left alone |
| risk guards, `guards.py` | `kv`, `daily_stats`, `trades` | `check_entry`, `trip`, `resume`, `record_result`, `daily_roll` | caps count rows, exposure is at the broker | caps hold; each result is counted once |
| venues, `ctrader/paper.py`, `broker.py` `LiveVenue` | paper: `paper_state` in `kv` | create, amend, close, list, deals | listing lag, two kinds of failure; a restart may change the venue under open rows | an answer never claims what did not happen |
| zone executor, `executor/engine.py`, `executor/state.py`, `pipeline.py` | `zones` table, `maps` table | `run_executor` (one tick), `save_map` | bars of three frames in one order, catch-up in batches, terminal states, maps that drop zones | sequences stay intact; one plan per raid; broken roots are not traded |
| store, `store.py` | everything on disk, `lease`, `outbox`, `events` | `tx`, `lease_acquire`, `outbox_add` | two processes, a lease that ends while its owner works | one leader; a message is not lost |
| application, `main.py` | `leader`, loop clocks, mode | the minute, manage, reconcile, lease and Telegram loops, the commands | loops interleave at awaits; the venue may be swapped | commands act on the account they name |
| Telegram, `telegram.py` | offset, outbox rows | `flush_outbox`, `poll_once` | head-of-line blocking, resend after a crash | a critical message is sent at least once or given up after 20 attempts |
| MCP client, `ctrader/client.py` | session id, session lock | `call` with re-initialisation | a resend must not run a tool twice | a timeout is never resent |
| Open API client, `ctrader/openapi.py` | socket, pending requests, tokens | `request`, refresh | answers matched by id, token refresh by two callers | an answer goes to its own request |
| candles and quotes, `data/` | bar cache, last quotes | `refresh`, `ensure_contiguous`, `fresh` | gaps, late bars, frozen clocks | decisions only on contiguous bars and fresh quotes |
| mapper, `mapper/`; Gemini maps, `gemini_map.py`, `mcp_api.py` | `maps` | `build_map`, map intake | long pure computation | a published map passes every check |
| core, `core/`; `decode.py`; `targets.py`, `stoploss.py` | none | pure functions | boundaries of days, sessions, digits | equal to their definitions |
| replay, `replay.py`; configuration, `config.py` | none of their own | drive or set up the above | - | - |

How they interact: each minute `App.symbol_tick` refreshes the candles, lets the
mapper publish a map when due, and calls `run_executor`, which loads the zones, steps
them and saves them. If a zone became CONFIRMED the plan goes to `TradeManager.execute`,
which checks the guards, inserts the row of the setup (the claim) and talks to the
venue. Two other loops call `manage` and `reconcile`; all of them and `/flat` take
`TradeManager.lock`. Messages go through the outbox, never straight to Telegram.

| component | where it is modelled |
|---|---|
| order flow, guards, venues | `TradeManager`; order of calls to the account in `Clients`; bars of the paper venue in `Candles` |
| zone executor, maps | `ZoneMachine`; stop and targets in `Ladder`, levels and opposing zones in `Chart` |
| store, application, Telegram | `Leadership` |
| MCP client, Open API client | `McpSession`, `OpenApiSession`, on top of `ClientCalls`, together in `Clients` |
| candles | `Candles`, in `DataPath` |
| core, the mapper's zones | `Primitives`, `Chart`, in `DataPath` |

`PROJECT.json` lists the hazards of this code, each at its line, with the properties
that cover them or a note why none does.

## 2. Modules

| module | what it is |
|---|---|
| `TradeManager` | the order flow with its table, kill switch and broker |
| `TradeProperties` | its type invariant, safety, action and liveness properties, fairness |
| `SetupLedger` | abstract specification: what the order flow promises for one setup |
| `TradeManagerProofs`, `TradeBookProofs` | TLAPS proofs about `TradeManager`: its orders; its table against the broker |
| `ZoneMachine`, `ZoneProperties` | the zone executor with its table, the maps, the bars and the clock; its properties |
| `ZoneProofs` | TLAPS proofs about the zone executor |
| `Leadership`, `LeadershipProperties` | several processes on one database: lease, outbox, Telegram, commands; their properties |
| `LeadershipProofs`, `DeliveryProofs` | TLAPS proofs about the lease and the commands, and about the outbox |
| `ClientCalls` | a call to the account, whichever client carries it; the mode of the service and `/ctrader` |
| `McpSession`, `OpenApiSession` | the two clients, their sessions and servers |
| `Clients`, `ClientProperties` | the composition: calls over one client or the other; its properties |
| `ClientProofs` | TLAPS proofs about the orders the clients carry and the account they act on |
| `Candles` | the candle cache, its two refreshing tasks, and the tick that reads it |
| `Primitives`, `Ladder` | pure functions: swings, breaks, zones, sweeps; stop and targets |
| `Chart` | a series of bars that grows, and the plans made of it |
| `DataPath`, `DataProperties` | the composition: from the broker's bars to a plan; its properties |
| `DataProofs`, `MirrorProofs` | TLAPS proofs from the bars to a plan; that buying mirrors selling |
| `MC...` | values of the constants for TLC |

### TradeManager

State: `row` is the `trades` table (`st` is `state`, `pid` is `position_id`, `be` stands
for `partial_done` and `be_done`, which are always written together, `manual` is the
owner's takeover; `fresh` and `late` say on which side of its 60 s, 150 s or
`DEALS_LAG_S` limit a row's timestamp is; `told` says that `notify_entry` has run). The
row of an orphan has the position id as its key. `pos` is the broker, `inflight` the
orders it may still execute after their timeout, `kill` the kill switch, `venue` the
venue of the process (`live`, `paper`, or `boot`: on the Open API a process runs on paper
until the account it connects to is known, `main.py:122`), and `conv` the
coroutine that holds `lock`: the operation, the await it is at, its loop's remaining
work, the listing it iterates over and the answer it got. The lock makes one record
enough: a second coroutine waits in front of `Execute` or `Begin`.

An await is two steps. `Serve` is the broker: the request takes effect, or not, and is
answered, or not, independently of each other (`ServeCreate`, `ServeRead`, `ServeChange`,
`ServeDeals`). `Advance` is the code from the answer to the next await, one action per
stretch of code, named after what it handles (`Created`, `Polled`, `FirstRead`,
`Verified`, `ManageRow`, `ReconcileRow`, `ReconcilePosition`, `DealsRead` ...). Between
the two act the broker on its own (`LateFill`, `BecomesListed`, `PositionExits`), the
owner (`OwnerAmends`, `Stop`, `Resume`), time (`GraceEnds`, `DeadlinePasses`) and
`Crash`, which drops the coroutine, keeps the table and the positions, and starts a process
on any venue of `Boots`. `ApplyEnv` is `apply_env` of a process on the Open API: it goes to
the live venue, or, when it finds open rows, trips the kill switch and stays on paper. A row
and a position keep the `mode` they were made in; the loops work on the rows of the venue's
mode (`Mine`, `broker.py:352` and `433`) and a listing shows its positions only.

Abstracted: prices and SL/TP values are one value for both legs (as attached to the
order, as planned, at breakeven, as the owner set them); lots are small numbers; the
guards on clock, spread and daily counters belong to when the environment calls
`execute`. `Faults` chooses which failures an instance has. One assumption about the
outside is built in: a filled position is listed before the deadlines of its row pass
(`DeadlinePasses`). The paper venue is the live one without its faults but for a refusal:
its calls never suspend in the code, so the interleavings it has here are more than it can
have. `/ctrader`, which may change the venue of a running process, is left to `Clients`; here
a process keeps its venue from `ApplyEnv` on.

### ZoneMachine

State: `zones` is the table (`born` is `first_seen`, `seq` the keys of `ctx` that
`clear_sequence` pops, `swept`, `reached`, `violated`, `from` the other keys of `ctx`);
`map` is the published map with what its structure hash is made of; `run` is a tick in
progress: the copies of the rows, the zones left to step, the plans confirmed. `taken`
and `broken` are the market: when a level was first reached by an M5 bar, when a D1 bar
last closed beyond a root. `plans` and `listed` are history.

A tick is synchronous, so nothing but a crash comes between its steps: `Load`,
`StepZone` (the checks before the bars), `OnBar` for one closed bar of one frame in the
order of `new_events`, `EndOfBars`, `Save` (the transaction), `HandOver` (to
`TradeManager.execute`). Inside `OnBar` the operators follow the calls of the code:
`Watch`, `Raid`, `ShiftScan`, `GapEval`, `RetestScan`, `Confirm`, `Noise`, `Monitor`, with
the chain from `Raid` to `Confirm` in one event, as there.

Abstracted: bars are named by their close times, in minutes. What their prices show (body
or wick, displacement, an MSS close, where the gap is, how the retest went, the scores
and targets) is a choice, made once per bar; which level a bar is the first to take is
exact. One root stands for the D1 root and the dealing range of a map.

### Leadership

State: `lease`, `kill`, `tgOffset` and `outbox` are what the processes share on disk;
`app`, `poll` and `flush` are the tasks of each process: the lease it believes to have
and how long ago it renewed it, `telegram_loop` with the batch it works on, and
`outbox_tick` with the row and the part it is sending. `arrived`, `confirmed` and
`delivered` are Telegram. Ages stop at `TTL + 1`, older makes no difference.

`LeaseTick` and `Boot` are `acquire_lease`; `FlushStart` reads the rows once, and the
leadership with them, so a process that has lost the lease goes on with the rows it has.
A call to Telegram takes effect or not and is answered or not (`SendAnswered`,
`SendRaises`, `PollAnswered`, `PollFails`). `TakeUpdate` saves the offset,
`HandleCommand` runs the command, `Reply` may fail and drop the rest of the batch.
`Crash` may come between any two of them; a killed process comes back with a new owner
id, so its lease stays with `Former` until it expires.

### ClientCalls, McpSession, OpenApiSession, Clients

A call goes through `Begin` (for an order the guards and the claim of the order flow),
one or more attempts carried by a client, and `Settle`, where `call()` decides between a
retry and telling its caller. What an attempt gave is one of: an answer, an error of the
tool, a rate limit, a rejected time stamp, an error of authorisation, a token to refresh,
or a transport error. `app` is what the service believes about its account.

`McpSession` has the owner task of the code with its mailbox: `Take`, `Opened`, `Listed`,
`Replied`, `Lost` (resent after a back-off), `Broken` (never resent), `Finish` (cancelled
by `SetCtrader`). A stopped owner is kept, since `close()` waits for it while other calls
may start the next one. `OpenApiSession` runs each call in its caller's task: `Ensure`
takes the open socket or the lock, `Dialed`, `GotAnswer` and `GotError` walk through
application auth, account auth and refresh, `TimesOut` closes the socket. `Drop` is the
reader task. The server runs orders when it likes (`OrderRuns`), also after their callers
gave up, and its events carry an id or only a comment (`EventArrives`).

Abstracted: arguments and their encoding, the rate limiter (a call may wait as long as it
likes before it is posted). Events overtake nothing of their own order, but come in any
order between orders. An order stands for every mutation.

### Candles

State: `now` is the clock, `given` the bars the broker has, `cache` the cached ones with
whether their values are the final ones, `job` the refresh that each of the two tasks is
in, `session` the client of the process, `line` the calls before the owner task of the MCP
session, `last` is `last_m1`, `shown` what the paper venue has seen since the process
started. A refresh remembers the list it started from (`have`). `Served` is the broker
computing the answer, which settles what the merger will be (`Merged`); `Answered` stores
it over whatever is cached by then. The owner task has one call served and answered after
the other (`client.py:215`); the Open API sends each as it is made and matches the answers
by id (`openapi.py:349`), so one computed earlier may be stored later. `Refetch` is the
second half of `ensure_contiguous`. The broker opens a bar with its first trade, so a
minute may be missing, and may be filled in later.

Abstracted: one intraday series; the time a refresh asks with is that of its request, while
in the code it is that of the start of the tick or tool call, moments before. `shown` is
emptied by `Restart` although `paper_state` persists: bars that close while the service is
down are outside what `PaperSeesEveryBar` says.

### Primitives, Ladder, Chart

Each detector is an operator from a sequence of closed bars to the set of what it finds.
Prices are integers; a mean is kept as a sum and a count, the middle of two prices as
their sum, so that every comparison of the code is one of integers. `Chart` appends a bar
at a time, and `Setups` are the plans that `confirm` would make of a raid by any earlier
bar. The series only grows, while the windows of the code also drop their oldest bars: that
a zone is forgotten with the bars it was found in is not modelled. `DataPath` joins the feed and the chart; they share no variable, and `part` says
which of them a behaviour is about.

## 3. Runs

| run | specification and bounds | shows |
|---|---|---|
| `orders` | one setup, two position ids of which one may be a stray position, all ten faults, 2 polls, 1 retry, 4 lots, one crash, a start on any venue | the invariants of the order flow, and that it implements `SetupLedger` |
| `caps` | two setups on one symbol with a cap of one, live venue, no crash, no stray | the cap per symbol holds at the broker, not only in the table (the total cap of two cannot bind with two setups; the theorem `CapsHold` is for any caps) |
| `liveness` | one setup, one position id, lost and late answers, listing lag, two crashes, a start on any venue, fair loops | conversations end; on their venue, claims are resolved, positions adopted, exits recorded |
| `zones` | one zone, two levels, frames of 1, 2 and 6 minutes, twelve minutes, at most two listings | the properties of the zone executor |
| `leadership` | two processes, two starts, each load alone: two commands, or a message of two parts and one of one part; two attempts per message; TTL of one tick | the lease, delivery, order and settling of messages, commands run once |
| `clients` | on either client: two orders in turn, an order beside a read, the reads of `connect()`; one retry, one resend, two owners or two sockets, one `/ctrader`, one expiry of the token | what the order flow assumes of a call: an order runs at most once, a rejection is a rejection, a fill is a fill; calls end; a change of account stops entries |
| `datapath` | feed: over either client, bars of 2 ticks, a grace of 1, a history of 2 and at most 3 cached bars, 7 ticks, any number of restarts; chart: series of 8 bars that grow to 11 | closed bars are final, or asked for again; the paper venue passes over none; detectors agree with themselves a bar later, upside down and with their definition; plans are sane |
| `verification`, `half`, `adoption`, `defense`, `account` | see section 5 | disagreements between documents and code |

Why these bounds. `TradeManager` treats setups alike and lets them meet only through
the caps, the kill switch and the loops, so one setup with a stray second position shows
every order of adoption, orphaning and exit, and two setups show the caps. Eight polls
and three retries repeat one step: with two and one, each loop goes round and ends. Four
lots can be halved twice, which the half-close needs. For safety a second crash would meet
the same tables: after one, the row may already be in any of the states a crash can leave,
and the first process may have started on any venue. `liveness` has two, so that a live row
can be left by one process, skipped by the next on paper, and taken up again by a third.

The three properties of `liveness` about rows and positions end in `Elsewhere`: they promise
something only as long as the service is on the venue of the row. They do not hold without
it. With `Boots` as in that run, TLC finds for each of them a service that comes back on paper
and lists, for ever, a venue on which the live row or position does not exist; section 5 says
when the code does that.

In `zones` every window is as short as it can be and still have a first bar, a last bar
and a bar after it; M15 is three M5 bars, as in the code. Twelve minutes are enough for
two complete sequences (raid at 2, plan at 6, listed again, raid at 8, plan at 12), one
sweep shown by two frames, staleness, and D1 closes at 6 and 12. `ResetSweeps` is 1
instead of 2 so that the sweep too many fits. `defense` uses the windows and frames of
the code.

In `leadership` the outbox and the commands share nothing but the lease, so each load
runs alone. A TTL of one tick suffices: ages count up to one beyond it, and a process may
be late by any number of its own steps. Two starts are an overlap, or a crash and a
restart; commands of two overlapping processes are outside what `CommandOnce` claims. A
text of two parts has a part that may fail and one that succeeds, in both orders; two
attempts are a failure and giving up.

In `clients` the interesting cases need one thing twice: a resent request, a second
owner beside a dying one, a second socket, a token that expires under one call while
another waits. `t1` may trade and `t2` may not, one is demo and one live, so a
`/ctrader` changes the mode. Every behaviour ends, hence no deadlock check.

In `datapath` a bar of two ticks with a grace of one has a state in which it has closed
and is not yet final; three cached bars drop old ones, three are
looked at for holes. The seven ticks let an answer be overtaken by one that was computed a
bar later. The
series start from pairs of four motifs and from a peak, each turned both ways, so that
every detector finds something and loses something within three more bars; the eight
shapes that may follow are a displacement, a small bar, a body gap and a range gap, each
way. The ATR spans 4 bars. The clock and the series both end, hence no deadlock check.

Fairness of `TradeManager` (`FairSpec`): every broker call is answered, at the latest by its timeout (weak
fairness of `Serve`); the event loop runs ready coroutines (`Advance`); time passes;
`App`'s loop calls `reconcile` for ever and asyncio's lock is first come, first served
(strong fairness of `Begin("reconcile")`, which competes for the lock); a filled
position is listed; and neither reconcile's own listing nor connecting, which is retried
(`main.py:373`), fails for ever (strong fairness of `ApplyEnv`), which is an assumption about
the broker. Nothing is assumed of the owner, the market or of
`manage`. Crashes are bounded by `MaxCrashes`.

Fairness of `Leadership`: tasks that can go on do; a stopped service is started again, as
the platform's restart policy does; some leader polls and flushes again and again, since
its loops never end; and calls to Telegram do not fail for ever, per part of a message
(strong fairness of `SendAnswered` and `PollAnswered`, an assumption about Telegram).
Fairness of `Clients`: every await of a call and of an owner task ends, since each has a
timeout or waits for a task of the service that is itself fair. No answer is assumed of
the server, and nothing of the owner of the account.

`DataPath` is checked for safety only. `ZoneMachine` is checked for safety only: its stages have to end within their windows, and `WindowsHold` says so without fairness.

Every property has a mutant: an operator marked `mutant` in the module, a plausible
slip in the code it stands beside, with which TLC finds the property violated.

## 4. Proofs

Every invariant and every action property that a passing run checks, and the refinement of
`SetupLedger`, is a theorem: `Spec => []Inv`, `Spec => [][A]_vars` or `Spec => LedgerSpec` for all
values of the constants that satisfy the assumptions of the modules; two theorems have a hypothesis
more, given with them. Each rests on an inductive invariant and goes action by action. `OrderInv` is also an
invariant of the run `orders`; `BookInv`, `StoppedInv`, `CapsInv`, `ZoneInv` and `FeedInv` hold in
every state TLC reaches with the constants of `orders`, `caps`, `zones` and `datapath`.

### Order flow

`TradeManagerProofs` proves for all values of the constants that satisfy
`SetsAssumption` and `NumbersAssumption` (setups and position ids are finite and
disjoint, the counts are natural numbers):

* `TypeCorrect`: `Spec => []TypeOK`
* `OrderInvHolds`: `Spec => []OrderInv`
* `AtMostOnePosition`: `Spec => []OnePositionPerSetup`

`OnePositionPerSetup` is not inductive: nothing in it keeps a coroutine from sending an
order for a setup that has a position already. `OrderInv` adds the reason. A setup with
a position, or an order on its way, is claimed, so `Execute` cannot start it again. An
order on its way has no position, so filling it late gives the first one. While
`create_order` may still be sent or served, and also after an answer that refuses it
(the one after which the MARKET fallback sends again), its setup has neither. After a
timeout or a success nothing is promised, and nothing sends again. One lemma per action
shows what it does to the table and the coroutine (`KeepsClaims`, `Sound`); steps that
move neither a position nor an order on its way are handled together (`OrderKept`).

`TradeBookProofs` proves, for the same constants and any faults:

* `OneRowHolds`, `ClosedHolds`, `ToldHolds`, `BookedHolds`: `Spec => []P` for
  `OneRowPerPosition`, `ClosedMeansGone`, `EntryToldIsProtected`, `BookedOnce`
* `OwnerHolds`, `ForeignHolds`: `Spec => OwnerIsNotFought`, `Spec => ForeignIsUntouched`
* `Refinement`: `Spec => LedgerSpec`

The four invariants are parts of one, `BookInv`. `RowsInv` relates each row to its position: the row
of a setup has the id of a position of that setup, an orphan's row that of a position of no setup;
from this one position never has two rows. It is not inductive, because the code decides on answers
that are old when it uses them. `SeenInv` says what an old listing is still worth: positions never
come back, change their label or grow. `AtInv` says what the coroutine relies on at each await
(in `protect()` the row is OPEN, has its id and is not the owner's; a CLOSING row that is asked for
its deals a second time has no position; at `record` nothing was booked). `LoopInv` says that a row
still to do was not touched since it was read. `ShownInv` says why a position missing from a listing
is gone: the deadline of its row is over, so it is listed or has left the broker. That is where
`DEALS_LAG_S` matters, and `ClosedMeansGone` would fail without it. `VenueInv` keeps the two venues
apart: a row and its position have one mode, and whatever a conversation holds is of the mode of the
venue it runs on, which does not change under it. So a listing of the paper venue settles no live
row, and `ForeignHolds` covers the positions of the other venue.

`Refinement` maps a setup to the stage of the ledger its row and its position are in. A step that
moves a stage moves that of one setup, by one; everything else stutters. A late fill is `FillOnce`
of a setup the ledger left at "claimed".

* `WrittenOffHolds`: `NoRestart` implies `Spec => []WrittenOffMeansStopped`
* `CapsHold`: `NoRestart` and `Strays = {}` imply `Spec => []WithinCaps`

`NoRestart` says that no process is killed (`MaxCrashes = 0`) and the owner does not resume. The
hypotheses are needed, not convenient: an order whose process was killed under it is written off
without the kill switch (`broker.py:445`), and after `/resume` new entries are counted against rows
that leave a late fill out; the hazards list both. The run `caps` has the same hypotheses; the
theorems allow every other fault, late fills included, and any number of setups and symbols.
`StoppedInv` says that only the conversation's own order is being sent, and that while trading goes
on an order that was written off can get no position. `CapsInv` counts `Busy`, the setups that have
a position or may still get one: as long as nothing is stopped they are all among the rows that
`check_entry` counts, and once it is stopped no setup becomes busy.

### Zone executor

`ZoneProofs` proves, for any keys, levels and roots, any windows, and frames that satisfy
`FramesAssumption`:

* `ZonesTyped`: `Spec => []TypeOK`
* `SequenceHolds`, `WindowsAreKept`, `SweepsHold`, `RaidHolds`, `ListingHolds`: `Spec => []P` for
  `SequenceIntact`, `WindowsHold`, `SweepsAreDistinct`, `OnePlanPerRaid`, `OnePlanPerListing`
* `RootHolds`: `Spec => BrokenRootIsNotTraded`

The invariant, `TypeOK /\ ZoneInv`, says of every zone on disk and of every copy of a tick that it
is `Sound`: its sequence is intact and within its windows, what it has counted as swept was taken,
and it has seen whole bars in the order of their closes. `CopyInv` ties a copy to its row: a
CONFIRMED row is never stepped, a copy without a row is new, and every raid it can still find lies
after the plans given (`Past`). `CurInv` is the zone being stepped, whose root holds. `ConfirmedInv`
follows a plan from `Confirm` over `Save` to `HandOver`, with a crash possible between any two:
either the row is CONFIRMED, so no other plan can come of it, or the tick is lost and its rows are
as before. `PlanInv` counts the plans of a zone against its listings. Each function of `OnBar` has
a lemma that says what it makes of a sound zone, and `OnBar` is their composition.

`OnePlanPerRaid` turned out to rest on M15 being three M5 bars. `setup_key` names a raid by the
opening time of its bar, so two raids of one zone, one on an M5 bar and one on an M15 bar that
contains it, could share a name if the frames were not nested. With the code's frames the bars a
zone has seen put every later raid at a later opening. `FramesAssumption` says so. `GoneAssumption` says that the value for "no such row" is not a row.

### Leases, messages, commands

`LeadershipProofs` proves, for any number of processes and any TTL
(`LeadershipAssumption`):

* `LeaseInvHolds`: `Spec => []LeaseInv`
* `FreshLeaderHolds`: `Spec => []FreshLeaderOwns`

A leader that renewed within the TTL owns the lease. That alone is not inductive: the row
could be older than the leader believes, and expire under it. `LeaseInv` says that the two
ages are the same for the owner, and that a leader who is not the owner any more has
counted past the TTL.

It also proves `CommandOnceHolds`: `Spec => []CommandOnce`. While no two processes
overlap, the one that is up has the offset of the database (`AtOffset`), whatever ran is
below that offset (`RanBelow`), and a batch holds successive updates from the offset on
(`Batched`): the update it is about to run has not run. A crash loses the batch, not the
offset. `LeaseInv` is used for the type of the processes.

`DeliveryProofs` proves, for any number of processes, messages, parts and attempts:

* `SentWasDeliveredHolds`: `Spec => []SentWasDelivered`
* `DeliveredInOrderHolds`: `Spec => []DeliveredInOrder`

Two flushes may work on one outbox, so neither follows from what one flush does. `DeliveryInv`
says of every flush that each row before those it still has to send is settled (sent, or out
of attempts), and that a row it has found good so far was shown up to its part. Steps of
other processes keep both, because nothing is ever unsettled or taken back (`Grows`, shown
once, used by `OtherFlush`). A part is therefore shown only behind settled rows, and a row
is marked only when it is whole. `RowsOfKeys` makes a text belong to one row: two messages
with one dedupe key would break the order.

### Clients

`ClientProofs` proves `OrderOnceHolds`, `RejectedNeverRunsHolds` and `FilledDidRunHolds` of
`Clients`, for either client and for any number of calls, owner tasks, sockets, retries, swaps
and tokens. The three are parts of one argument about the fate of an order, `ClientInv`: until
its request is sent, and after it was refused, the server has nothing of it (`Before` implies
`Untouched`); an order under way has not run and one with an event has; "ok" is told only of
one that ran (`ToldOk`); and a request waits in one mailbox, in one place (`QueuedOnce`),
without which two owners could send it. A timeout never leads back to `Before`: that is why
nothing is sent twice. There is one lemma for each step; `Left` covers the orders of other
callers, which a closing socket may fail.

`SwitchHolds`: `Spec => []SwitchStops`. Here the property is nearly its own invariant (`AppInv` adds
the shape of `app`); the steps that matter are `connect()` and `/ctrader`, which change account and
mode in one stretch or leave the mode to the kill switch, whatever calls are under way.

### From the bars to a plan

`DataProofs` proves of the feed, for any length of a bar, grace, history, cache, lookback and number
of restarts (`CandleAssumption`):

* `ClosedBarsHold`: `Spec => []ClosedBarsAreFinal`
* `PaperSeesHolds`: `Spec => PaperSeesEveryBar`

Two tasks store mergers of lists they read before they waited, so a bar may be replaced by an older
version of itself. `FeedInv` says of every list, cached or held by a task, that a bar in it that is
not final yet is no earlier than the one its next request starts from (`Refreshable`): what is
not final is asked for again. That needs no order of the answers, and is all that holds over the
Open API, where an answer that was overtaken can put a forming bar back. `Ordered` is what the one
session adds: only the call at the head of the line has an answer on its way, so whatever is stored
after the tick's answer was computed after it, and while the tick reads, the bars that were final
when it started are final in the cache. `PaperSeesEveryBar` needs only that `last_m1` is never later
than what was shown.

It proves of the chart, for any shapes, any beginnings and any length of the series:

* `NoLookahead`: `Spec => NothingRepaints`
* `DeadStayDead`: `Spec => ZonesStayDead`
* `BreaksHold`: `Spec => []BreaksAreTheLastSwing`
* `PlanHolds`: `Spec => []PlanIsSane`

The argument of the first two is `Grown`: the next bar leaves the bars before it, so the ATR at a bar
and what is decided from the bars beside it stay. Breaks need more, since `structure_breaks` is one
pass that keeps a swing of each side and spends it. `LiveSwing` says what the pass has kept after i
bars: the most recent swing confirmed by then, unless a close has gone through it since. The pass is
a recursive function; that it agrees with `LiveSwing` after every bar is shown by taking the
smallest bar where it would not (`NatLessThanWellFounded`, a fact the provers can cite), which is
induction over the bars without an operator for a parameter. Order blocks and breakers follow from the
breaks. For a plan, `NearestIs` and `LadderIsSane` say what the nearest objective is; the risk of at
least four spreads is what puts an objective of 3R on the far side of the entry.

`MirrorProofs` proves `MirrorHolds`: `Spec => []BuyMirrorsSell`, for the same series. It
is enough to show for any two charts that turn each other over that each zone of the one turned over
is a zone of the other. Prices are negated, so sums of ranges must be shown to agree; the sum is a
fold of the library, whose value over every finite set is found by the smallest set for which a
bound would fail. The proof needed two facts about the bars. `ProperAssumption`: a bar's body lies
within its range. `AtrBars > 1` (the code has 14): `way` calls a flat bar "sell", and with an ATR of
one bar a flat bar behind a displacement would be a propulsion block for sells both ways up.

### What is only model-checked

Liveness: `LockIsReleased`, `ClaimIsResolved`, `PositionIsAdopted`, `ExitIsRecorded`,
`MessageSettles`, `CommandIsRun` and `CallEnds` depend on fairness, that is on `ENABLED`, which the
prover does not handle. The violation runs are counterexamples and have nothing to prove.

## 5. What the violation runs show

* `verification`: `broker.py` and the main README say that a failed verification closes
  the position and trips the kill switch. If the close itself fails, the exception
  leaves `protect()` and neither the row nor the kill switch is written.
* `half`: half of a position is closed at TP1, once, says `docs/RULES_SQ.md`. If the
  breakeven amend after the partial close fails, the next tick halves it again.
* `adoption`: reconciliation is to adopt or flag every position it did not expect
  (`docs/DECISIONS.md`, D-65). A row left OPEN without a position id makes it raise
  before it gets there, at every turn.
* `defense`: a CONFIRMED whose defense bar closed more than 120 s ago is never traded
  (D-36). The age is taken from the event being processed; a displacement is known only
  one bar later, and the M1 bars behind it are then looked at all at once.
* `account`: a live account without `CONFIRM_LIVE_ACCOUNT=YES` runs in paper (main README,
  lines 45 and 46; `main.py:73`). `/ctrader` to such an account with a trade open trips the
  kill switch and leaves the mode live (`main.py:448`); when the trade is closed, `/resume`
  turns entries on.

Also seen, with no run of their own:

* On the Open API a process starts on paper and `apply_env` leaves it there when a trade is
  open (`main.py:195`). After a crash with a live trade, on a demo account without
  `CONFIRM_LIVE_ACCOUNT=YES`, the kill switch is on and `manage` and `reconcile` skip the
  live rows, and so does every later process: the SL and TP at the broker still stand, but
  the trade is not managed, a SENDING row is not resolved, an exit is not recorded and a
  live position without a row is not adopted, where D-65 of `docs/DECISIONS.md` says that
  reconciliation adopts or flags it. The message of the kill switch asks for a restart,
  which does not help as long as the row is open.
* On the Open API the answer to a tool's refresh may be overtaken by that to the tick's and
  stored after it (`candles.py:54`). Without the condition on the session in
  `ClosedBarsAreFinal` TLC finds a tick that reads as closed a bar with the values it had
  while forming, where `candles.py:2` says that readers get closed bars only; the next
  refresh mends it. It also finds `last_m1` going back, so that the paper venue is shown a
  bar twice.

## 6. Not modelled

The scores P1 and P2 of the executor and the weights of the mapper (long pure functions of
price series; what they publish is an input here); the New York calendar with its sessions,
kill zones and `daily_roll`; the decoding of prices, which is floating-point arithmetic;
`quotes.py`, two comparisons of ages; `paper_state`; the checks of an incoming Gemini map;
the replay; message texts, HTTP and WebSocket plumbing; the parsing of the configuration.

Not claimed, because the code does not promise it: that a live trade is taken up again by a
service that a restart left on paper, that the result of an exit is booked
across a crash (`BookedOnce` is about booking it twice), that a command whose process is killed under it is run, that a token refreshed
just before a crash is kept (`CallEnds` only says that the calls end), that a bar filled in late is shown to the paper venue, that
`/ctrader` between two accounts of one mode waits for a conversation.

What is left to prove: nothing of the safety properties the runs check. Open are weaker hypotheses
of `CapsHold` (a resume that follows only after what was written off has been settled by hand), and
lemmas that could carry the liveness properties as far as a prover without `ENABLED` goes.
