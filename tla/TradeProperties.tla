-------------------------- MODULE TradeProperties ---------------------------
(* What must be true of the order flow of TradeManager. *)
EXTENDS TradeManager

\* Type invariant of the order flow.
TypeOK ==
  /\ row \in [RowIds -> Row]
  /\ kill \in BOOLEAN
  /\ venue \in {"live", "paper", "boot"}
  /\ pos \in [Pids -> Position]
  /\ inflight \subseteq Setups
  /\ conv \in Conv
  /\ booked \in [RowIds -> Nat]
  /\ crashes \in 0 .. MaxCrashes

\* A setup never gets a second position, through timeouts, late fills, the MARKET
\* fallback, crashes and restarts (broker.py: "create_order is sent once").
OnePositionPerSetup ==
  \A p, q \in Pids : pos[p].key \in Setups /\ pos[p].key = pos[q].key => p = q

\* The argument behind it, strong enough to be inductive: a setup with a position or an
\* order on its way is claimed, an order on its way has no position yet, and while
\* create_order can still be sent or served its setup has neither.
HasPosition(k) == \E p \in Pids : pos[p].key = k
OrderInv ==
  /\ OnePositionPerSetup
  /\ \A k \in Setups : HasPosition(k) => row[k].st # "none"
  /\ \A k \in inflight : row[k].st # "none" /\ ~HasPosition(k)
  /\ conv.pc = "create" =>
       /\ Cur \in Setups /\ row[Cur].st # "none"
       /\ conv.reply \in {"none", "range", "tool", "auth"} => Cur \notin inflight /\ ~HasPosition(Cur)

\* A position belongs to at most one row of the trades table, so that one exit is
\* never booked twice (adoption by comment, late fills and orphans in _reconcile).
OneRowPerPosition ==
  \A k, j \in RowIds : row[k].pid \in Pids /\ row[k].pid = row[j].pid => k = j

\* A row is CLOSED only when its position has left the broker: nothing the book
\* calls closed is still exposed (handle_closed and its DEALS_LAG_S wait).
ClosedMeansGone ==
  \A k \in RowIds : row[k].st = "CLOSED" => row[k].pid \in Pids /\ pos[row[k].pid].st = "closed"

\* The owner is told of an entry only when the position has the planned volume and
\* SL/TP the broker showed back; the legs of the order are not taken on trust (protect).
EntryToldIsProtected ==
  \A k \in RowIds : row[k].told /\ row[k].pid \in Pids /\ OpenAt(row[k].pid) =>
    pos[row[k].pid].legs # "rel" /\ pos[row[k].pid].vol <= Lots

\* Each trade's result enters the loss counters at most once (record_result).
BookedOnce == \A k \in RowIds : booked[k] <= 1

\* Once a trade is the owner's (manual) no bot call changes its legs or takes a
\* part of it, only a whole close may still come (D-32: "never fights the owner").
OwnerIsNotFought ==
  [][\A k \in RowIds :
       (row[k].manual /\ row[k].pid \in Pids /\ OpenAt(row[k].pid)) =>
         \/ pos'[row[k].pid].st = "closed"
         \/ /\ pos'[row[k].pid].legs \in {pos[row[k].pid].legs, "owner"}
            /\ pos'[row[k].pid].vol = pos[row[k].pid].vol]_vars

\* A position without the MAPEX label, or of the venue the service is not on, is changed
\* by nobody but the market and the owner, whatever /flat, manage or reconcile do, also
\* when a restart changes the venue (steps of theirs change conv).
Foreign(p) == ~pos[p].mapex \/ pos[p].mode # Mode
ForeignIsUntouched ==
  [][\A p \in Pids : OpenAt(p) /\ Foreign(p) /\ conv' # conv => pos'[p] = pos[p]]_vars

\* The order flow implements the ledger of its setups.
Stage(k) ==
  LET mine == {p \in Pids : pos[p].key = k}
  IN CASE row[k].st = "none" -> "new"
       [] row[k].st = "CLOSED" -> "settled"
       [] row[k].st \notin {"none", "CLOSED"} /\ mine = {} -> "claimed"
       [] row[k].st \notin {"none", "CLOSED"} /\ mine # {} /\ (\E p \in mine : OpenAt(p)) -> "open"
       [] OTHER -> "exited"
Ledger == INSTANCE SetupLedger WITH stage <- [k \in Setups |-> Stage(k)]
LedgerSpec == Ledger!Spec
-----------------------------------------------------------------------------
\* At most max_open_per_symbol positions of a symbol and max_open_total in all are
\* exposed at the broker, counting what the broker has and not what the rows say
\* (check_entry).  It needs that no position was there first, and that nobody crashes or
\* resumes trading over an order that was written off.
WithinCaps ==
  LET live == {p \in Pids : OpenAt(p)}
  IN /\ Cardinality(live) <= MaxOpenTotal
     /\ \A p \in live :
          Cardinality({q \in live : SymbolOf[pos[q].key] = SymbolOf[pos[p].key]}) <= MaxOpenPerSymbol

\* A position nobody manages because its order was written off as FAILED exists only
\* with the kill switch on, or about to be (reconcile_sending: "adopt or fail + kill").
WrittenOffMeansStopped ==
  \A p \in Pids : pos[p].key \in Setups /\ OpenAt(p) /\ row[pos[p].key].st = "FAILED" =>
    kill \/ conv.pc = "trip"

\* A failed verification ends the conversation only by tripping the kill switch
\* (broker.py: "any verification failure closes the position and trips the kill switch").
FailedVerificationTrips ==
  [][conv.pc = "pclose" /\ conv'.pc # "pclose" => conv'.pc = "trip"]_vars

\* At TP1 half of the position is closed, once: half of the lots stay for TP2
\* (docs/RULES_SQ.md: at TP1 50 % is closed).
HalfRemains == \A p \in Pids : OpenAt(p) => 2 * pos[p].vol >= Lots
-----------------------------------------------------------------------------
(* Fairness: App's loop runs reconcile for ever and the lock is first come    *)
(* first served; every broker call is answered, at the latest by its timeout; *)
(* reconcile's listing, asked for ever, does not fail for ever; connecting,   *)
(* retried for ever, succeeds; time passes; a filled position is listed.      *)
(* Crashes are bounded by MaxCrashes.                                         *)
ReconcileLists == Serve /\ conv.op = "reconcile" /\ conv.pc = "list" /\ conv'.reply = "ok"
BrokerLists == (\E p \in Pids : BecomesListed(p)) /\ UNCHANGED <<row, kill, venue, conv, booked, crashes>>

Fairness ==
  /\ WF_vars(Serve) /\ WF_vars(Advance) /\ WF_vars(TimePasses) /\ WF_vars(BrokerLists)
  /\ SF_vars(Begin("reconcile")) /\ SF_vars(ReconcileLists) /\ SF_vars(ApplyEnv)
FairSpec == Spec /\ Fairness

\* The lock is always released: no poll, retry or loop of a conversation is endless.
LockIsReleased == (conv.pc # "idle") ~> (conv.pc = "idle")

\* The other venue's rows are skipped by manage and reconcile (broker.py:352, 433), for
\* ever when apply_env left a service with open live rows on paper (main.py:195-198).
\* What follows is promised only as long as the service is on the row's venue.
Elsewhere(mode) == mode # Mode

\* A claimed row does not stay SENDING, even when the process died under the order.
ClaimIsResolved ==
  \A k \in Setups : (row[k].st = "SENDING") ~> (row[k].st # "SENDING" \/ Elsewhere(row[k].mode))

\* Every MAPEX position gets a row that carries its id, or is gone first: a fill that
\* surfaces late is adopted, a stray becomes an orphan (D-65: reconciliation
\* "adopts, or flags as orphan, any MAPEX position it did not expect").
PositionIsAdopted ==
  \A p \in Pids :
    (OpenAt(p) /\ pos[p].mapex)
      ~> (~OpenAt(p) \/ (\E k \in RowIds : row[k].pid = p) \/ Elsewhere(pos[p].mode))

\* An exit is eventually recorded: a row whose position is gone becomes CLOSED.
ExitIsRecorded ==
  \A k \in RowIds :
    (row[k].st \in OpenStates /\ row[k].pid \in Pids /\ pos[row[k].pid].st = "closed")
      ~> (row[k].st = "CLOSED" \/ Elsewhere(row[k].mode))
=============================================================================
