---------------------------- MODULE TradeManager ----------------------------
(***************************************************************************)
(* The order flow of mapex/ctrader/broker.py (class TradeManager): the     *)
(* trades table, the kill switch, the broker's positions, and the one      *)
(* coroutine that holds TradeManager.lock.  An await is two steps: the     *)
(* broker serves the request (Serve: it takes effect and is answered), and *)
(* the coroutine runs from the answer to its next await (Advance).  The    *)
(* owner, the market, the clock and a crash act between any two steps.     *)
(***************************************************************************)
EXTENDS Naturals, FiniteSets

CONSTANTS
  Setups,        \* setup_key values the executor may hand to execute()
  Pids,          \* position ids the broker can hand out
  None,          \* SQL NULL: no setup, no position
  SymbolOf,      \* the symbol of a setup, and of a position that is a stray
  MaxOpenTotal, MaxOpenPerSymbol,  \* Settings.max_open_total, max_open_per_symbol
  Lots,          \* planned volume, in volume steps
  Polls,         \* len(RECONCILE_BACKOFF), 8 in the code
  Retries,       \* extra reads at the start of protect(), 3 in the code
  MaxCrashes,    \* bound: how often the process is killed and restarted
  Boots,         \* the venues a new process may start with
  Faults,        \* the failures and outside actors of this instance
  Strays         \* position ids that may be open before the first run

FaultKinds ==
  {"tool", "transport", "auth", "range", "nopid", "volume", "lag", "late",
   "owner", "resume"}

ASSUME SetsAssumption ==
  /\ Setups \cap Pids = {} /\ None \notin Setups \cup Pids
  /\ Strays \subseteq Pids /\ Faults \subseteq FaultKinds
  /\ Boots \subseteq {"live", "paper", "boot"} /\ Boots # {}
  /\ IsFiniteSet(Setups) /\ IsFiniteSet(Pids)
ASSUME NumbersAssumption ==
  /\ MaxOpenTotal \in Nat /\ MaxOpenPerSymbol \in Nat
  /\ Lots \in Nat \ {0} /\ Polls \in Nat \ {0} /\ Retries \in Nat
  /\ MaxCrashes \in Nat

VARIABLES
  row,       \* the trades table; the row ORPHAN-<pid> has the pid as its id
  kill,      \* kv kill_switch is set
  venue,     \* "live", "paper", or "boot": PaperVenue until the account is known
  pos,       \* the positions of both venues (comment, label, volume, SL/TP legs)
  inflight,  \* setups whose lost create_order the broker may still execute
  conv,      \* the coroutine that holds TradeManager.lock
  booked,    \* history: how many results record_result was given, per row
  crashes    \* how often the process was killed so far

vars == <<row, kill, venue, pos, inflight, conv, booked, crashes>>

RowIds == Setups \cup Pids
OpenStates == {"SENDING", "OPEN", "BE", "CLOSING"}

Mode == IF venue = "live" THEN "live" ELSE "paper"     \* venue.mode

\* be: partial_done and be_done (always written together); manual: the owner
\* took over; fresh: last_amend_at is at most MANUAL_GRACE_S ago; late: more
\* than 150 s since opened_at (SENDING) or DEALS_LAG_S since closed_at
\* (CLOSING); told: notify_entry has run.
Row == [st : OpenStates \cup {"none", "FAILED", "CLOSED"}, pid : Pids \cup {None},
        mode : {"none", "live", "paper"},
        be : BOOLEAN, manual : BOOLEAN, fresh : BOOLEAN, late : BOOLEAN, told : BOOLEAN]
NoRow == [st |-> "none", pid |-> None, mode |-> "none", be |-> FALSE, manual |-> FALSE,
          fresh |-> FALSE, late |-> FALSE, told |-> FALSE]

\* Both SL/TP legs as one value: "rel" as attached to the order in relative
\* points, "exact" as planned, "be" with the stop at entry_fill, "owner" as
\* the owner set them.
Position == [st : {"free", "hidden", "listed", "closed"}, mapex : BOOLEAN,
             mode : {"none", "live", "paper"}, key : Setups \cup {None}, vol : Nat,
             legs : {"none", "rel", "exact", "be", "owner"}]
NoPos == [st |-> "free", mapex |-> FALSE, mode |-> "none", key |-> None, vol |-> 0, legs |-> "none"]
NothingSeen == [p \in Pids |-> NoPos]

Reads == {"poll", "pread", "verify", "list"}
Amends == {"amend", "be"}
Closes == {"pclose", "half", "fclose"}
Labels == {"idle", "create", "deals", "next", "trip", "record"} \cup Reads \cup Amends \cup Closes
Conv == [op : {"none", "execute", "manage", "reconcile", "flat"},
         pc : Labels,
         cur : RowIds \cup {None}, try : Nat, todo : SUBSET RowIds, extra : SUBSET Pids,
         seen : [Pids -> Position],   \* the listing a loop runs over
         read : [Pids -> Position],   \* the last listing read for one trade
         reply : {"none", "ok", "nopid", "deals", "tool", "range", "auth", "transport"}]
Idle == [op |-> "none", pc |-> "idle", cur |-> None, try |-> 0, todo |-> {}, extra |-> {},
         seen |-> NothingSeen, read |-> NothingSeen, reply |-> "none"]

ForgetsClosing == {k \in RowIds : row[k].st \in OpenStates \ {"CLOSING"}}   \* mutant
ReopensClosed == {k \in RowIds : row[k].st \notin {"none", "FAILED"}}        \* mutant
OpenRows == {k \in RowIds : row[k].st \in OpenStates}
EveryVenue == OpenRows                                                       \* mutant
Mine == {k \in OpenRows : row[k].mode = Mode}      \* what manage and reconcile work on
OpenAt(p) == pos[p].st \in {"hidden", "listed"}
Cur == conv.cur
Target == IF conv.op = "flat" THEN Cur ELSE row[Cur].pid

Init ==
  /\ row = [k \in RowIds |-> NoRow]
  /\ kill = FALSE
  /\ venue \in Boots
  /\ \E open \in SUBSET Strays, label \in [Strays -> BOOLEAN] :
       pos = [p \in Pids |->
                IF p \in open
                THEN [st |-> "listed", mapex |-> label[p], mode |-> "live", key |-> None, vol |-> Lots, legs |-> "owner"]
                ELSE NoPos]
  /\ inflight = {}
  /\ conv = Idle
  /\ booked = [k \in RowIds |-> 0]
  /\ crashes = 0
-----------------------------------------------------------------------------
(* The coroutine's moves: await a broker call, go on after a loop body or   *)
(* protect(), run a synchronous tail, or leave with an exception.           *)
Step(label, n) ==
  conv' = [conv EXCEPT !.pc = label, !.try = n, !.reply = "none", !.read = NothingSeen]
StepFor(label, k, rest, extra) ==
  conv' = [conv EXCEPT !.pc = label, !.cur = k, !.try = 0, !.todo = rest, !.extra = extra]
Skip(rest, extra) == conv' = [conv EXCEPT !.todo = rest, !.extra = extra]
Continue ==
  conv' = IF conv.op = "execute" THEN Idle
          ELSE [conv EXCEPT !.pc = "next", !.cur = None, !.try = 0, !.reply = "none", !.read = NothingSeen]
Abort == conv' = Idle
Answered(call) == conv.pc = call /\ conv.reply # "none"
Awaiting(calls) == conv.pc \in calls /\ conv.reply = "none"
SetRow(k, r) == row' = [row EXCEPT ![k] = r]
-----------------------------------------------------------------------------
(* Taking the lock.  App calls execute and reconcile only with symbols it   *)
(* has activated, which is after apply_env: never while venue is "boot".    *)
(* check_entry, which counts the rows of both venues, and the claim (the    *)
(* INSERT) are one synchronous block; the guards on the quote, the clock    *)
(* and the day's counters are left to when the environment calls execute.   *)
RetriesFailed(k) == row[k].st \in {"none", "FAILED"}                        \* mutant
Unclaimed(k) == row[k].st = "none"          \* UNIQUE(setup_key)
CheckEntry(k) ==
  /\ ~kill
  /\ Unclaimed(k)
  /\ Cardinality(OpenRows) < MaxOpenTotal
  /\ Cardinality({r \in OpenRows : SymbolOf[r] = SymbolOf[k]}) < MaxOpenPerSymbol

Execute(k) ==
  /\ conv.pc = "idle" /\ venue # "boot"
  /\ CheckEntry(k)
  /\ SetRow(k, [NoRow EXCEPT !.st = "SENDING", !.mode = Mode])
  /\ conv' = [Idle EXCEPT !.op = "execute", !.pc = "create", !.cur = k]
  /\ UNCHANGED <<kill, venue, pos, inflight, booked, crashes>>

Begin(op) ==
  /\ conv.pc = "idle"
  /\ op = "manage" => Mine # {}
  /\ op = "reconcile" => venue # "boot"
  /\ conv' = [Idle EXCEPT !.op = op, !.pc = "list"]
  /\ UNCHANGED <<row, kill, venue, pos, inflight, booked, crashes>>
-----------------------------------------------------------------------------
(* The venue serves the outstanding request.  PaperVenue may refuse, and     *)
(* has no other fault.                                                      *)
FaultsOf(mode) == IF mode = "live" THEN Faults ELSE Faults \cap {"tool"}
Answer(r) == conv' = [conv EXCEPT !.reply = r]
Failure(kinds) == \E kind \in kinds \cap FaultsOf(Mode) : Answer(kind)

Fill(k, p) ==
  /\ pos[p].st = "free"
  /\ \E st \in {"listed"} \cup {s \in {"hidden"} : "lag" \in FaultsOf(row[k].mode)},
        vol \in {Lots} \cup {v \in {2 * Lots} : "volume" \in FaultsOf(row[k].mode)} :
       pos' = [pos EXCEPT ![p] = [st |-> st, mapex |-> TRUE, mode |-> row[k].mode, key |-> k,
                                  vol |-> vol, legs |-> "rel"]]

ServeCreate ==
  /\ Awaiting({"create"})
  /\ \/ /\ \E p \in Pids : Fill(Cur, p)
        /\ Answer("ok") \/ Failure({"nopid", "transport"})
        /\ UNCHANGED inflight
     \/ /\ Failure({"range", "tool", "auth", "transport"})
        /\ UNCHANGED <<pos, inflight>>
     \/ /\ "late" \in FaultsOf(Mode) /\ Failure({"transport"})
        /\ inflight' = inflight \cup {Cur}
        /\ UNCHANGED pos

\* Every reader treats the three exception types alike: one failure stands for them.
Listing == [p \in Pids |-> IF pos[p].st = "listed" /\ pos[p].mode = Mode THEN pos[p] ELSE NoPos]
ServeRead ==
  /\ Awaiting(Reads)
  /\ \/ conv' = IF conv.pc = "list" THEN [conv EXCEPT !.reply = "ok", !.seen = Listing]
                ELSE [conv EXCEPT !.reply = "ok", !.read = Listing]
     \/ Failure({"transport"})
  /\ UNCHANGED <<pos, inflight>>

\* A close is of tp1_close_pct (50 %) of the volume at TP1, else of all of it.
Half(v) == v \div 2
ClosesPlanned(p) == [p EXCEPT !.st = "closed", !.vol = @ - Lots, !.legs = "none"]   \* mutant
Closed(p) == [p EXCEPT !.st = "closed", !.vol = 0, !.legs = "none"]
Changed(p) ==
  CASE conv.pc = "amend" -> [p EXCEPT !.legs = "exact"]
    [] conv.pc = "be"    -> [p EXCEPT !.legs = "be"]
    [] conv.pc = "half"  -> [p EXCEPT !.vol = @ - Half(@)]
    [] OTHER             -> Closed(p)

ServeChange ==
  /\ Awaiting(Amends \cup Closes)
  /\ \/ /\ OpenAt(Target)
        /\ Answer("ok") \/ Failure({"transport"})
        /\ pos' = [pos EXCEPT ![Target] = Changed(@)]
     \/ /\ Failure({"tool", "auth", "transport"}) \/ (~OpenAt(Target) /\ Answer("tool"))
        /\ UNCHANGED pos
  /\ UNCHANGED inflight

\* Closing deals exist only for a closed position, and may show up late.
ServeDeals ==
  /\ Awaiting({"deals"})
  /\ Answer("ok") \/ Failure({"transport"}) \/ (~OpenAt(Target) /\ Answer("deals"))
  /\ UNCHANGED <<pos, inflight>>

Serve == (ServeCreate \/ ServeRead \/ ServeChange \/ ServeDeals) /\ UNCHANGED <<row, kill, venue, booked, crashes>>
-----------------------------------------------------------------------------
(* _execute, _send and reconcile_sending.                                   *)
Adopted(k, p) == [row[k] EXCEPT !.st = "OPEN", !.pid = p, !.late = FALSE]
Failed(k) == [row[k] EXCEPT !.st = "FAILED", !.late = FALSE]

Created ==
  /\ Answered("create")
  /\ \/ /\ conv.reply = "ok"
        /\ \E p \in Pids : pos[p].key = Cur /\ SetRow(Cur, Adopted(Cur, p))
        /\ Step("pread", 0)
     \/ /\ conv.reply = "nopid"
        /\ SetRow(Cur, Adopted(Cur, None))
        /\ Step("poll", 0)
     \/ /\ conv.reply = "transport"
        /\ Step("poll", 0) /\ UNCHANGED row
     \/ /\ conv.reply = "range" /\ conv.try = 0   \* the one MARKET fallback
        /\ Step("create", 1) /\ UNCHANGED row
     \/ /\ conv.reply \in {"tool", "auth"} \/ (conv.reply = "range" /\ conv.try > 0)
        /\ SetRow(Cur, Failed(Cur))
        /\ Abort

AnyPosition(listing, k) == {p \in Pids : listing[p].mapex}                 \* mutant
ByComment(listing, k) == {p \in Pids : listing[p].mapex /\ listing[p].key = k}

PollsLeft == conv.try + 1 < Polls
Polled ==
  /\ Answered("poll")
  /\ LET found == ByComment(conv.read, Cur)     \* nothing was read when the call failed
     IN \/ \E p \in found : SetRow(Cur, Adopted(Cur, p)) /\ Step("pread", 0)
        \/ found = {} /\ PollsLeft /\ Step("poll", conv.try + 1) /\ UNCHANGED row
        \/ found = {} /\ ~PollsLeft /\ SetRow(Cur, Failed(Cur)) /\ Step("trip", 0)

\* guards.trip is a transaction of its own, after the row's update.
TripsNothing == conv.pc = "trip" /\ Continue /\ UNCHANGED <<row, kill, booked>>   \* mutant
Trip == conv.pc = "trip" /\ kill' = TRUE /\ Continue /\ UNCHANGED <<row, booked>>
-----------------------------------------------------------------------------
(* protect: first-fill volume proof, exact SL/TP, read-back.                *)
Visible == conv.read[Target].st = "listed"
TrustsAmend == conv.read[Target].vol = Lots                                 \* mutant
ReadBackOk == conv.read[Target].legs = "exact" /\ conv.read[Target].vol = Lots

FirstRead ==
  /\ Answered("pread") /\ UNCHANGED row
  /\ \/ conv.reply = "transport" /\ Abort
     \/ conv.reply = "ok" /\ ~Visible /\ conv.try < Retries /\ Step("pread", conv.try + 1)
     \/ conv.reply = "ok" /\ ~Visible /\ conv.try >= Retries /\ Continue
     \/ conv.reply = "ok" /\ Visible /\ Step(IF conv.read[Target].vol # Lots THEN "pclose" ELSE "amend", 0)

ForgetsAttempt ==                                                           \* mutant
  Answered("amend") /\ SetRow(Cur, [row[Cur] EXCEPT !.fresh = TRUE]) /\ Step("verify", 0)
AmendSent ==
  /\ Answered("amend")
  /\ \/ conv.reply = "auth" /\ Abort /\ UNCHANGED row
     \/ /\ conv.reply # "auth"         \* ToolError and TransportError are swallowed
        /\ SetRow(Cur, [row[Cur] EXCEPT !.fresh = TRUE])
        /\ Step("verify", conv.try)

Verified ==
  /\ Answered("verify")
  /\ \/ conv.reply = "transport" /\ Abort /\ UNCHANGED row
     \/ conv.reply = "ok" /\ ReadBackOk /\ SetRow(Cur, [row[Cur] EXCEPT !.told = TRUE]) /\ Continue
     \/ conv.reply = "ok" /\ ~Visible /\ Continue /\ UNCHANGED row
     \/ /\ conv.reply = "ok" /\ Visible /\ ~ReadBackOk /\ UNCHANGED row
        /\ IF conv.try = 0 THEN Step("amend", 1) ELSE Step("pclose", 0)

\* An exception of close_position leaves protect() before both writes.
ProtectClosed ==
  /\ Answered("pclose")
  /\ \/ conv.reply # "ok" /\ Abort /\ UNCHANGED row
     \/ /\ conv.reply = "ok"
        /\ SetRow(Cur, [row[Cur] EXCEPT !.st = "CLOSING", !.late = FALSE])
        /\ Step("trip", 0)
-----------------------------------------------------------------------------
(* The listing that opens _manage, _reconcile and _flat.                    *)
EveryPosition == {p \in Pids : conv.seen[p].st = "listed"}                  \* mutant
Mapex == {p \in Pids : conv.seen[p].st = "listed" /\ conv.seen[p].mapex}
Matching(k) == IF row[k].pid \in Mapex THEN {row[k].pid} ELSE ByComment(conv.seen, k)

Listed ==
  /\ Answered("list") /\ UNCHANGED row
  /\ \/ conv.reply = "transport" /\ Abort
     \/ /\ conv.reply = "ok"
        /\ conv' = [conv EXCEPT !.pc = "next", !.reply = "none",
             !.todo = IF conv.op = "flat" THEN {} ELSE Mine,
             !.extra = CASE conv.op = "manage" -> {}
                         [] conv.op = "flat" -> Mapex
                         [] OTHER -> Mapex \ UNION {Matching(k) : k \in Mine}]

\* handle_closed up to its request: the clock is read before it (try = 1 when the
\* deadline is over), and int(None) raises when the row has no pid.
IgnoresLag(k) == TRUE                                                       \* mutant
NeverExpires(k) == FALSE                                                    \* mutant
Expired(k) == row[k].late
HandleClosed(k) ==
  LET closing == [row[k] EXCEPT !.st = "CLOSING", !.late = row[k].st = "CLOSING" /\ @]
  IN /\ SetRow(k, closing)
     /\ \/ row[k].pid = None /\ Abort
        \/ /\ row[k].pid # None
           /\ conv' = [conv EXCEPT !.pc = "deals", !.cur = k, !.todo = @ \ {k},
                                   !.try = IF row[k].st = "CLOSING" /\ Expired(k) THEN 1 ELSE 0]

\* ... and from the answer on.  An orphan's row has no risk, so its deals give no
\* result; a price that does not decode gives none either, and is not waited for.
DealsRead ==
  /\ Answered("deals")
  /\ LET deals == conv.reply = "deals" /\ Cur \in Setups
         closed == [row[Cur] EXCEPT !.st = "CLOSED", !.late = FALSE]
     IN \/ deals /\ SetRow(Cur, closed) /\ Step("record", 0)
        \/ (deals \/ conv.try = 1) /\ SetRow(Cur, closed) /\ Continue
        \/ ~deals /\ conv.try = 0 /\ Continue /\ UNCHANGED row

\* guards.record_result: the loss counters may trip the kill switch.
Record ==
  /\ conv.pc = "record"
  /\ booked' = [booked EXCEPT ![Cur] = @ + 1]
  /\ kill' \in {kill, TRUE}
  /\ Continue /\ UNCHANGED row
-----------------------------------------------------------------------------
(* _manage and _manage_one, one open row at a time.                         *)
Looping(op) == conv.op = op /\ conv.pc = "next"
OwnLegs(k) == IF row[k].be THEN "be" ELSE "exact"

FightsOwner(k) == ~row[k].be                                                \* mutant
Managed(k) == ~row[k].manual /\ ~row[k].be
ManageRow(k) ==
  /\ Looping("manage") /\ k \in conv.todo
  /\ LET seen == row[k].pid \in Mapex
         p == conv.seen[row[k].pid]
         takeover == seen /\ ~row[k].manual /\ p.legs # OwnLegs(k) /\ ~row[k].fresh
         skip == Skip(conv.todo \ {k}, {})
     IN \/ row[k].st = "SENDING" /\ skip /\ UNCHANGED row
        \/ row[k].st # "SENDING" /\ ~seen /\ HandleClosed(k)
        \/ row[k].st # "SENDING" /\ takeover /\ skip /\ SetRow(k, [row[k] EXCEPT !.manual = TRUE])
        \/ row[k].st # "SENDING" /\ seen /\ ~takeover /\ skip /\ UNCHANGED row
        \/ /\ row[k].st # "SENDING" /\ seen /\ ~takeover      \* the quote has reached TP1
           /\ Managed(k) /\ UNCHANGED row
           /\ StepFor(IF Half(p.vol) > 0 THEN "half" ELSE "be", k, conv.todo \ {k}, {})

HalfClosed ==
  /\ Answered("half") /\ UNCHANGED row
  /\ IF conv.reply = "ok" THEN Step("be", 0) ELSE Abort

BreakevenSet ==
  /\ Answered("be")
  /\ \/ conv.reply # "ok" /\ Abort /\ UNCHANGED row
     \/ /\ conv.reply = "ok"
        /\ SetRow(Cur, [row[Cur] EXCEPT !.be = TRUE, !.st = "BE", !.fresh = TRUE])
        /\ Continue
-----------------------------------------------------------------------------
(* _reconcile: the open rows first, then the positions no row matched.      *)
ReconcileRow(k) ==
  /\ Looping("reconcile") /\ k \in conv.todo
  /\ LET skip == Skip(conv.todo \ {k}, conv.extra)
         sending == row[k].st = "SENDING"
     IN \/ \E p \in Matching(k) :
             \/ (sending \/ row[k].pid # p) /\ SetRow(k, Adopted(k, p))
                  /\ StepFor("pread", k, conv.todo \ {k}, conv.extra)
             \/ ~sending /\ row[k].pid = p /\ skip /\ UNCHANGED row
        \/ Matching(k) = {} /\ sending /\ Expired(k) /\ skip /\ SetRow(k, Failed(k))
        \/ Matching(k) = {} /\ sending /\ ~Expired(k) /\ skip /\ UNCHANGED row
        \/ Matching(k) = {} /\ ~sending /\ HandleClosed(k)

KnownByComment(p) == \E k \in RowIds : row[k].pid = p \/ (row[k].st # "none" /\ conv.seen[p].key = k)   \* mutant
Known(p) == \E k \in RowIds : row[k].pid = p
ReconcilePosition(p) ==
  /\ Looping("reconcile") /\ conv.todo = {} /\ p \in conv.extra
  /\ LET key == conv.seen[p].key
         lateFill == key \in Setups /\ row[key].st = "FAILED"
         rest == conv.extra \ {p}
     IN \/ Known(p) /\ Skip({}, rest) /\ UNCHANGED row
        \/ ~Known(p) /\ lateFill /\ SetRow(key, Adopted(key, p)) /\ StepFor("pread", key, {}, rest)
        \/ ~Known(p) /\ ~lateFill /\ Skip({}, rest)
             /\ SetRow(p, [NoRow EXCEPT !.st = "OPEN", !.pid = p, !.mode = Mode, !.manual = TRUE])
-----------------------------------------------------------------------------
(* _flat, and the end of a loop.                                            *)
FlatPosition(p) ==
  /\ Looping("flat") /\ p \in conv.extra /\ UNCHANGED row
  /\ StepFor("fclose", p, {}, conv.extra \ {p})

FlatClosed ==
  /\ Answered("fclose") /\ UNCHANGED row
  /\ IF conv.reply = "ok" THEN Continue ELSE Abort

EndLoop == conv.pc = "next" /\ conv.todo = {} /\ conv.extra = {} /\ conv' = Idle /\ UNCHANGED row

Converse ==
  \/ Created \/ Polled \/ FirstRead \/ AmendSent \/ Verified \/ ProtectClosed
  \/ Listed \/ DealsRead \/ HalfClosed \/ BreakevenSet \/ FlatClosed \/ EndLoop
  \/ \E k \in RowIds : ManageRow(k) \/ ReconcileRow(k)
  \/ \E p \in Pids : ReconcilePosition(p) \/ FlatPosition(p)

Advance ==
  /\ \/ Converse /\ UNCHANGED <<kill, booked>>
     \/ Trip
     \/ Record
  /\ UNCHANGED <<venue, pos, inflight, crashes>>
-----------------------------------------------------------------------------
(* The other actors: the broker on its own, the owner, the clock, a crash,  *)
(* and App, which learns its account only when it is connected.             *)
LateFill(k) ==
  /\ k \in inflight
  /\ inflight' = inflight \ {k}
  /\ UNCHANGED pos \/ \E p \in Pids : Fill(k, p)

BecomesListed(p) == pos[p].st = "hidden" /\ pos' = [pos EXCEPT ![p].st = "listed"] /\ UNCHANGED inflight

\* SL or TP is hit, or the owner closes the position.
PositionExits(p) == OpenAt(p) /\ pos' = [pos EXCEPT ![p] = Closed(@)] /\ UNCHANGED inflight

OwnerAmends(p) ==
  /\ "owner" \in FaultsOf(pos[p].mode) /\ pos[p].st = "listed"
  /\ pos' = [pos EXCEPT ![p].legs = "owner"]
  /\ UNCHANGED inflight

Stop == ~kill /\ kill' = TRUE
Resume == "resume" \in Faults /\ kill /\ kill' = FALSE

GraceEnds(k) == row[k].fresh /\ SetRow(k, [row[k] EXCEPT !.fresh = FALSE])

\* Assumption: the broker lists a filled position so soon that neither it nor a loop
\* whose listing missed it lasts until the deadline (150 s, DEALS_LAG_S) of its row.
Missed(p) == conv.op \in {"manage", "reconcile"} /\ pos[p].mode = Mode /\ conv.seen[p].st # "listed"
DeadlinePasses(k) ==
  /\ row[k].st \in {"SENDING", "CLOSING"} /\ ~row[k].late
  /\ \A p \in Pids : pos[p].key = k /\ OpenAt(p) => pos[p].st = "listed" /\ ~Missed(p)
  /\ SetRow(k, [row[k] EXCEPT !.late = TRUE])

\* The process is killed, in a conversation or between two, and a new one starts; an
\* order not yet served is lost or still on its way.
Crash ==
  /\ crashes < MaxCrashes
  /\ conv' = Idle
  /\ venue' \in Boots
  /\ crashes' = crashes + 1
  /\ \/ UNCHANGED inflight
     \/ "late" \in FaultsOf(Mode) /\ Awaiting({"create"}) /\ inflight' = inflight \cup {Cur}

\* App.apply_env, once per process, when an account that trades live is connected:
\* with open rows the venue stays PaperVenue as long as the process lives.
ApplyEnv ==
  /\ venue = "boot" /\ conv.pc = "idle"
  /\ \/ OpenRows = {} /\ venue' = "live" /\ UNCHANGED kill
     \/ OpenRows # {} /\ venue' = "paper" /\ kill' = TRUE
  /\ UNCHANGED <<row, pos, inflight, conv, booked, crashes>>

BrokerMoves ==
  /\ \/ \E k \in Setups : LateFill(k)
     \/ \E p \in Pids : BecomesListed(p) \/ PositionExits(p) \/ OwnerAmends(p)
  /\ UNCHANGED <<row, kill, venue, conv, booked, crashes>>
TimePasses ==
  /\ \E k \in RowIds : GraceEnds(k) \/ DeadlinePasses(k)
  /\ UNCHANGED <<kill, venue, pos, inflight, conv, booked, crashes>>

Environment ==
  \/ BrokerMoves
  \/ TimePasses
  \/ (Stop \/ Resume) /\ UNCHANGED <<row, venue, pos, inflight, conv, booked, crashes>>
  \/ Crash /\ UNCHANGED <<row, kill, pos, booked>>
  \/ ApplyEnv

Next ==
  \/ \E k \in Setups : Execute(k)
  \/ \E op \in {"manage", "reconcile", "flat"} : Begin(op)
  \/ Serve \/ Advance \/ Environment

Spec == Init /\ [][Next]_vars
=============================================================================
