--------------------------- MODULE TradeBookProofs ----------------------------
(* The book and the broker agree: proofs about the rows of the order flow, for  *)
(* every value of the constants.                                                *)
EXTENDS TradeManagerProofs, FiniteSetTheorems

\* A position's label and setup go together; one that was never opened has neither.
PositionInv ==
  \A p \in Pids :
    /\ pos[p].st = "free" => pos[p] = NoPos
    /\ pos[p].key \in Setups => pos[p].mapex

\* The row of a setup: from the moment its order is known to have gone through.
Through == {"OPEN", "BE", "CLOSING", "CLOSED"}
SetupRow(k) ==
  LET r == row[k]
  IN /\ r.pid \in Pids => pos[r.pid].key = k /\ r.st \in Through
     /\ r.st \in Through => HasPosition(k)
     /\ r.st = "CLOSED" => r.pid \in Pids /\ pos[r.pid].st = "closed"
     /\ r.manual \/ r.told => r.pid \in Pids
     /\ r.told => pos[r.pid].legs # "rel" /\ pos[r.pid].vol <= Lots
     /\ booked[k] > 0 => booked[k] = 1 /\ r.st = "CLOSED"

\* The row of an orphan: a MAPEX position that is no setup's.
OrphanRow(p) ==
  LET r == row[p]
  IN /\ booked[p] = 0
     /\ r.st = "none" => r.pid = None
     /\ r.st # "none" =>
          /\ r.pid = p /\ r.manual /\ ~r.told /\ r.st \in Through
          /\ pos[p].key \notin Setups /\ pos[p].mapex /\ pos[p].st \in {"listed", "closed"}
     /\ r.st = "CLOSED" => pos[p].st = "closed"

RowsInv == (\A k \in Setups : SetupRow(k)) /\ (\A p \in Pids : OrphanRow(p))

\* What a listing says of a position stays true of what it is, and bounds what it has.
Honest(l) ==
  \A p \in Pids :
    l[p] # NoPos =>
      /\ l[p].st = "listed" /\ pos[p].st \in {"listed", "closed"}
      /\ l[p].key = pos[p].key /\ l[p].mapex = pos[p].mapex
      /\ pos[p].vol <= l[p].vol /\ (pos[p].legs = "rel" => l[p].legs = "rel")
SeenInv == Honest(conv.seen) /\ Honest(conv.read)

\* What the coroutine relies on about the row it is at.
Protect == {"pread", "amend", "verify", "pclose"}
AtInv ==
  /\ conv.pc = "list" => conv.cur = None /\ conv.todo = {} /\ conv.extra = {}
  /\ conv.pc = "next" => conv.reply = "none"
  /\ conv.pc = "create" =>
       /\ conv.op = "execute" /\ row[Cur].st = "SENDING" /\ row[Cur].pid = None
       /\ conv.reply = "nopid" => HasPosition(Cur)
  /\ conv.pc = "poll" =>
       /\ conv.op = "execute" /\ Cur \in Setups
       /\ row[Cur].st \in {"SENDING", "OPEN"} /\ row[Cur].pid = None
  /\ conv.pc \in Protect =>
       /\ conv.op \in {"execute", "reconcile"} /\ Cur \in Setups
       /\ row[Cur].st = "OPEN" /\ row[Cur].pid \in Pids /\ ~row[Cur].manual
  /\ conv.pc \in {"half", "be"} =>
       /\ conv.op = "manage" /\ Cur \in Setups
       /\ row[Cur].st \in OpenStates /\ row[Cur].pid \in Pids /\ ~row[Cur].manual
  /\ conv.pc = "deals" =>
       /\ conv.op \in {"manage", "reconcile"} /\ Cur \in RowIds
       /\ row[Cur].st = "CLOSING" /\ row[Cur].pid \in Pids
       /\ conv.try = 1 \/ conv.reply = "deals" => pos[row[Cur].pid].st = "closed"
  /\ conv.pc = "record" => Cur \in Setups /\ row[Cur].st = "CLOSED" /\ booked[Cur] = 0
  /\ conv.pc = "fclose" => conv.op = "flat" /\ Cur \in Pids /\ pos[Cur].mapex

\* What a loop still has to do: rows that are open, positions that were listed and
\* that no open row had.
LoopInv ==
  /\ \A k \in conv.todo : k # Cur /\ row[k].st \in OpenStates
  /\ \A p \in conv.extra :
       /\ conv.seen[p].st = "listed" /\ conv.seen[p].mapex
       /\ conv.op = "reconcile" /\ conv.seen[p].key \in Setups =>
            row[conv.seen[p].key].st = "FAILED" \/ row[conv.seen[p].key].pid = p

\* The position of a row whose deadline is over, and of an orphan, is in the listing
\* a loop runs over, or has left the broker.
HasListing == conv.op \in {"manage", "reconcile"} /\ (conv.pc = "list" => conv.reply = "ok")
Shown(p) == OpenAt(p) => pos[p].st = "listed" /\ (HasListing /\ pos[p].mode = Mode => conv.seen[p].st = "listed")
ShownInv ==
  /\ \A k \in Setups : row[k].st = "CLOSING" /\ row[k].late => \A p \in Pids : pos[p].key = k => Shown(p)
  /\ \A p \in Pids : row[p].st # "none" => Shown(p)

BookInv == PositionInv /\ RowsInv /\ SeenInv /\ AtInv /\ LoopInv /\ ShownInv

\* A position is at the venue its row was sent to, and the coroutine only ever is at
\* rows and positions of the venue the service is on.
AtRow == {"create", "poll", "half", "be"} \cup Protect
AtVenue ==
  /\ conv.pc \in AtRow => row[Cur].mode = Mode
  /\ conv.pc = "fclose" => pos[Cur].mode = Mode
Rests == conv.pc = "idle" => conv.op = "none" /\ conv.seen = NothingSeen /\ conv.todo = {}
VenueInv ==
  /\ \A p \in Pids : pos[p].key \in Setups => pos[p].mode = row[pos[p].key].mode
  /\ \A p \in Pids : row[p].mode # "none" => pos[p].mode = row[p].mode /\ pos[p].st # "free"
  /\ \A p \in Pids : conv.seen[p].st = "listed" => pos[p].mode = Mode
  /\ \A k \in conv.todo : row[k].mode = Mode
  /\ AtVenue /\ Rests
-----------------------------------------------------------------------------
(* What the invariant gives, and that it holds at the start.                *)
LEMMA RowIdKinds ==
  /\ Setups \subseteq RowIds /\ Pids \subseteq RowIds /\ None \notin RowIds
  /\ \A k \in RowIds : k \in Setups \/ k \in Pids
  /\ \A k \in Setups : k \notin Pids
BY SetsAssumption DEF RowIds

LEMMA BookGives ==
  ASSUME TypeOK, OrderInv, BookInv
  PROVE  OneRowPerPosition /\ ClosedMeansGone /\ EntryToldIsProtected /\ BookedOnce
<1>1. ASSUME NEW k \in RowIds, NEW j \in RowIds, row[k].pid \in Pids, row[k].pid = row[j].pid PROVE k = j
  <2>1. \A s \in Setups : row[s].pid \in Pids => pos[row[s].pid].key = s
    BY DEF BookInv, RowsInv, SetupRow
  <2>2. \A p \in Pids : row[p].pid \in Pids => row[p].pid = p /\ pos[p].key \notin Setups
    BY SetsAssumption DEF BookInv, RowsInv, OrphanRow
  <2>3. QED
    BY <1>1, <2>1, <2>2, RowIdKinds
<1>2. ASSUME NEW k \in RowIds
      PROVE  /\ row[k].st = "CLOSED" => row[k].pid \in Pids /\ pos[row[k].pid].st = "closed"
             /\ row[k].told /\ row[k].pid \in Pids =>
                  pos[row[k].pid].legs # "rel" /\ pos[row[k].pid].vol <= Lots
             /\ booked[k] <= 1
  <2>1. booked[k] \in Nat
    BY DEF TypeOK
  <2>2. CASE k \in Setups
    BY <2>1, <2>2 DEF BookInv, RowsInv, SetupRow
  <2>3. CASE k \in Pids
    BY <2>3, SetsAssumption DEF BookInv, RowsInv, OrphanRow
  <2>4. QED
    BY <2>2, <2>3, RowIdKinds
<1>3. QED
  BY <1>1, <1>2 DEF OneRowPerPosition, ClosedMeansGone, EntryToldIsProtected, BookedOnce

LEMMA NothingHonest == Honest(NothingSeen)
BY DEF Honest, NothingSeen

LEMMA InitBook == Init => BookInv
<1> SUFFICES ASSUME Init PROVE BookInv
  OBVIOUS
<1>1. \A k \in RowIds : row[k] = NoRow /\ booked[k] = 0
  BY DEF Init
<1>2. conv = Idle
  BY DEF Init
<1>3. \A p \in Pids : /\ pos[p].st = "free" => pos[p] = NoPos
                      /\ pos[p].key = None
  BY DEF Init, NoPos
<1>4. PositionInv
  BY <1>3, SetsAssumption DEF PositionInv
<1>5. RowsInv
  BY <1>1, RowIdKinds, SetsAssumption DEF RowsInv, SetupRow, OrphanRow, Through, NoRow
<1>6. SeenInv
  BY <1>2, NothingHonest DEF SeenInv, Idle
<1>7. AtInv
  BY <1>2 DEF AtInv, Idle, Protect
<1>8. LoopInv
  BY <1>2 DEF LoopInv, Idle
<1>9. ShownInv
  BY <1>1, RowIdKinds DEF ShownInv, NoRow
<1>10. QED
  BY <1>4, <1>5, <1>6, <1>7, <1>8, <1>9 DEF BookInv
-----------------------------------------------------------------------------
(* A step of the coroutine: it goes on with what its loop has left, or ends, and    *)
(* shows of each row it writes that it is as good as before.                        *)
Starts == conv'.seen = NothingSeen /\ conv'.extra = {} /\ ~HasListing'
Moves ==
  /\ UNCHANGED pos /\ (HasListing' => UNCHANGED venue)
  /\ conv'.todo \subseteq conv.todo /\ conv'.cur \notin conv'.todo
  /\ conv'.extra \subseteq conv.extra
  /\ conv'.read \in {conv.read, NothingSeen}
  /\ Starts \/ (conv'.seen = conv.seen /\ conv'.op = conv.op /\ (HasListing' => HasListing))
Same(k) == row'[k] = row[k] /\ booked'[k] = booked[k]
Rewritten(k) ==
  /\ k \in Setups => SetupRow(k)' /\ (row'[k].st = "CLOSING" /\ row'[k].late => row[k].st = "CLOSING" /\ row[k].late)
  /\ k \in Pids => OrphanRow(k)' /\ (row'[k].st # "none" => Shown(k)')
  /\ k \in conv'.todo => row'[k].st \in OpenStates
  /\ conv.op = "reconcile" =>
       \A p \in conv'.extra : conv.seen[p].key = k => row'[k].st = "FAILED" \/ row'[k].pid = p

LEMMA MovesKeep ==
  ASSUME TypeOK, BookInv, Moves, \A k \in RowIds : Same(k) \/ Rewritten(k), AtInv'
  PROVE  BookInv'
<1>1. UNCHANGED pos
  BY DEF Moves
<1>2. PositionInv'
  BY <1>1 DEF BookInv, PositionInv
<1>3. RowsInv'
  <2>1. \A k : HasPosition(k)' <=> HasPosition(k)
    BY <1>1 DEF HasPosition
  <2>2. ASSUME NEW k \in Setups PROVE SetupRow(k)'
    BY <1>1, <2>1, RowIdKinds DEF BookInv, RowsInv, SetupRow, Same, Rewritten
  <2>3. ASSUME NEW p \in Pids PROVE OrphanRow(p)'
    BY <1>1, RowIdKinds DEF BookInv, RowsInv, OrphanRow, Same, Rewritten
  <2>4. QED
    BY <2>2, <2>3 DEF RowsInv
<1>4. SeenInv'
  <2>1. \A l : Honest(l) => Honest(l)'
    BY <1>1 DEF Honest
  <2>2. conv'.seen \in {conv.seen, NothingSeen} /\ conv'.read \in {conv.read, NothingSeen}
    BY DEF Moves, Starts
  <2>3. QED
    BY <2>1, <2>2, NothingHonest DEF BookInv, SeenInv, Honest
<1>5. LoopInv'
  <2>1. ASSUME NEW k \in conv'.todo PROVE k # Cur' /\ row'[k].st \in OpenStates
    BY <2>1 DEF Moves, BookInv, LoopInv, Same, Rewritten, Cur, TypeOK, Conv
  <2>2. ASSUME NEW p \in conv'.extra
        PROVE  /\ conv'.seen[p].st = "listed" /\ conv'.seen[p].mapex
               /\ conv'.op = "reconcile" /\ conv'.seen[p].key \in Setups =>
                    row'[conv'.seen[p].key].st = "FAILED" \/ row'[conv'.seen[p].key].pid = p
    <3>1. ~Starts
      BY <2>2 DEF Starts
    <3>2. p \in conv.extra /\ conv'.seen = conv.seen /\ conv'.op = conv.op
      BY <2>2, <3>1 DEF Moves
    <3>3. QED
      BY <2>2, <3>2, RowIdKinds DEF BookInv, LoopInv, Same, Rewritten
  <2>3. QED
    BY <2>1, <2>2 DEF LoopInv
<1>6. ShownInv'
  <2>1. ASSUME NEW p \in Pids, Shown(p) PROVE Shown(p)'
    BY <1>1, <2>1 DEF Shown, OpenAt, Moves, Starts, Mode
  <2>2. QED
    BY <1>1, <2>1, RowIdKinds DEF BookInv, ShownInv, Same, Rewritten
<1>7. QED
  BY <1>2, <1>3, <1>4, <1>5, <1>6 DEF BookInv

\* The moves of the coroutine are such steps.
LEMMA StepMoves ==
  ASSUME TypeOK, BookInv, UNCHANGED <<pos, venue>>, conv.pc # "list", NEW label \in Labels \ {"list"}, NEW n, Step(label, n)
  PROVE  /\ Moves /\ conv'.pc = label /\ conv'.op = conv.op /\ conv'.cur = conv.cur
         /\ conv'.try = n /\ conv'.reply = "none" /\ conv'.todo = conv.todo /\ conv'.extra = conv.extra
<1>1. /\ conv'.pc = label /\ conv'.op = conv.op /\ conv'.cur = conv.cur /\ conv'.seen = conv.seen
      /\ conv'.try = n /\ conv'.reply = "none" /\ conv'.todo = conv.todo /\ conv'.extra = conv.extra
      /\ conv'.read = NothingSeen
  BY DEF Step, TypeOK, Conv
<1>2. QED
  BY <1>1 DEF Moves, BookInv, LoopInv, Cur, HasListing

LEMMA LeaveMoves ==
  ASSUME TypeOK, BookInv, UNCHANGED <<pos, venue>>, conv.pc # "list", Continue \/ Abort
  PROVE  Moves /\ conv'.pc \in {"idle", "next"} /\ conv'.reply = "none" /\ AtInv'
<1>1. None \notin conv.todo
  BY RowIdKinds DEF TypeOK, Conv
<1>2. CASE conv' = Idle
  BY <1>2 DEF Moves, Starts, HasListing, Idle, AtInv, Protect
<1>3. CASE conv' # Idle
  <2>1. /\ conv'.pc = "next" /\ conv'.op = conv.op /\ conv'.cur = None /\ conv'.seen = conv.seen
        /\ conv'.reply = "none" /\ conv'.todo = conv.todo /\ conv'.extra = conv.extra
        /\ conv'.read = NothingSeen
    BY <1>3 DEF Continue, Abort, TypeOK, Conv
  <2>2. QED
    BY <1>1, <2>1 DEF Moves, HasListing, AtInv, Protect
<1>4. QED
  BY <1>2, <1>3

LEMMA StepForMoves ==
  ASSUME TypeOK, BookInv, UNCHANGED <<pos, venue>>, conv.pc = "next", NEW label \in Labels \ {"list"}, NEW k,
         NEW rest \in SUBSET conv.todo, NEW extra \in SUBSET conv.extra, k \notin rest, StepFor(label, k, rest, extra)
  PROVE  /\ Moves /\ conv'.pc = label /\ conv'.op = conv.op /\ conv'.cur = k /\ conv'.try = 0
         /\ conv'.reply = "none" /\ conv'.todo = rest /\ conv'.extra = extra
<1>1. /\ conv'.pc = label /\ conv'.op = conv.op /\ conv'.cur = k /\ conv'.seen = conv.seen
      /\ conv'.try = 0 /\ conv'.reply = conv.reply /\ conv'.todo = rest /\ conv'.extra = extra
      /\ conv'.read = conv.read
  BY DEF StepFor, TypeOK, Conv
<1>2. conv.reply = "none"
  BY DEF BookInv, AtInv
<1>3. QED
  BY <1>1, <1>2 DEF Moves, HasListing

LEMMA SkipMoves ==
  ASSUME TypeOK, BookInv, UNCHANGED <<pos, venue>>, conv.pc = "next",
         NEW rest \in SUBSET conv.todo, NEW extra \in SUBSET conv.extra, Skip(rest, extra)
  PROVE  Moves /\ conv'.pc = "next" /\ conv'.todo = rest /\ conv'.extra = extra /\ AtInv'
<1>1. /\ conv'.pc = "next" /\ conv'.op = conv.op /\ conv'.cur = conv.cur /\ conv'.seen = conv.seen
      /\ conv'.reply = conv.reply /\ conv'.todo = rest /\ conv'.extra = extra /\ conv'.read = conv.read
  BY DEF Skip, TypeOK, Conv
<1>2. conv.reply = "none"
  BY DEF BookInv, AtInv
<1>3. QED
  BY <1>1, <1>2 DEF Moves, BookInv, LoopInv, Cur, HasListing, AtInv, Protect

\* Of a row whose position and reach stay what they were, only the state has to be argued.
LEMMA OneRow ==
  ASSUME TypeOK, NEW k \in RowIds, NEW r, SetRow(k, r), UNCHANGED booked
  PROVE  row'[k] = r /\ \A j \in RowIds : j # k => Same(j)
BY DEF TypeOK, SetRow, Same

LEMMA ShownStays == ASSUME Moves, NEW p \in Pids, Shown(p) PROVE Shown(p)'
BY DEF Shown, OpenAt, Moves, Starts, Mode

\* A setup has one position: the one a listing shows for it is the one it has.
LEMMA TheOne == ASSUME OrderInv, NEW p \in Pids, NEW q \in Pids, pos[p].key \in Setups, pos[p].key = pos[q].key PROVE p = q
BY DEF OrderInv, OnePositionPerSetup

LEMMA SeenKey ==
  ASSUME TypeOK, BookInv, NEW p \in conv.extra
  PROVE  p \in Pids /\ conv.seen[p].key = pos[p].key /\ conv.seen[p].mapex /\ conv.seen[p].key \in Setups \cup {None}
         /\ pos[p].mapex /\ pos[p].st \in {"listed", "closed"}
<1>1. p \in Pids /\ conv.seen[p] \in Position
  BY DEF TypeOK, Conv
<1>2. conv.seen[p] # NoPos
  BY DEF BookInv, LoopInv, NoPos
<1>3. QED
  BY <1>1, <1>2 DEF BookInv, LoopInv, SeenInv, Honest, Position

\* A row is adopted by its setup's position.
LEMMA Adoption ==
  ASSUME TypeOK, OrderInv, BookInv, Moves, UNCHANGED booked, NEW k \in Setups, NEW p \in Pids,
         SetRow(k, Adopted(k, p)), pos[p].key = k, row[k].st # "CLOSED"
  PROVE  (\A j \in RowIds : Same(j) \/ Rewritten(j)) /\ row'[k] = Adopted(k, p)
<1>1. k \in RowIds /\ k \notin Pids
  BY RowIdKinds
<1>2. row'[k] = Adopted(k, p) /\ \A j \in RowIds : j # k => Same(j)
  BY <1>1, OneRow
<1>3. /\ row'[k].st = "OPEN" /\ row'[k].pid = p /\ row'[k].late = FALSE
      /\ row'[k].told = row[k].told /\ row'[k].manual = row[k].manual
  BY <1>1, <1>2 DEF Adopted, TypeOK, Row
<1>4. UNCHANGED pos /\ HasPosition(k)'
  BY DEF Moves, HasPosition
<1>5. SetupRow(k)
  BY DEF BookInv, RowsInv
<1>6. row[k].told => row[k].pid = p
  BY <1>5, TheOne DEF SetupRow
<1>7. SetupRow(k)'
  BY <1>3, <1>4, <1>5, <1>6 DEF SetupRow, Through, Moves
<1>8. \A q \in conv'.extra : conv.seen[q].key = k => row'[k].pid = q
  BY <1>3, SeenKey, TheOne DEF Moves
<1>9. Rewritten(k)
  BY <1>1, <1>3, <1>7, <1>8 DEF Rewritten, OpenStates
<1>10. QED
  BY <1>2, <1>9

\* A row that has no position yet is written off.
LEMMA WriteOff ==
  ASSUME TypeOK, BookInv, Moves, UNCHANGED booked, NEW k \in Setups,
         SetRow(k, Failed(k)), row[k].pid = None, row[k].st # "CLOSED", k \notin conv'.todo
  PROVE  \A j \in RowIds : Same(j) \/ Rewritten(j)
<1>1. k \in RowIds /\ k \notin Pids /\ None \notin Pids
  BY RowIdKinds DEF RowIds
<1>2. row'[k] = Failed(k) /\ \A j \in RowIds : j # k => Same(j)
  BY <1>1, OneRow
<1>3. row'[k].st = "FAILED" /\ row'[k].pid = None /\ row'[k].told = row[k].told /\ row'[k].manual = row[k].manual
  BY <1>1, <1>2 DEF Failed, TypeOK, Row
<1>4. SetupRow(k)
  BY DEF BookInv, RowsInv
<1>5. SetupRow(k)'
  BY <1>1, <1>3, <1>4 DEF SetupRow, Through
<1>6. QED
  BY <1>1, <1>2, <1>3, <1>5 DEF Rewritten

\* A row with a position stays open, with that position.
LEMMA Alteration ==
  ASSUME TypeOK, BookInv, Moves, UNCHANGED booked, NEW k \in RowIds, NEW r, SetRow(k, r),
         row[k].st \in Through \ {"CLOSED"}, r.st \in Through \ {"CLOSED"}, r.pid = row[k].pid,
         \/ r.told = row[k].told
         \/ k \in Setups /\ row[k].pid \in Pids /\ pos[row[k].pid].legs # "rel" /\ pos[row[k].pid].vol <= Lots,
         r.manual = row[k].manual \/ (r.manual /\ row[k].pid \in Pids),
         r.st = "CLOSING" /\ r.late => row[k].st = "CLOSING" /\ row[k].late
  PROVE  (\A j \in RowIds : Same(j) \/ Rewritten(j)) /\ row'[k] = r
<1>1. row'[k] = r /\ \A j \in RowIds : j # k => Same(j)
  BY OneRow
<1>2. UNCHANGED <<pos, booked>> /\ (HasPosition(k)' <=> HasPosition(k))
  BY DEF Moves, HasPosition
<1>3. ASSUME NEW q \in conv'.extra, conv.op = "reconcile", conv.seen[q].key = k PROVE row'[k].pid = q
  <2>1. q \in conv.extra /\ conv.seen[q].key \in Setups
    BY <1>3, SeenKey, RowIdKinds DEF Moves
  <2>2. QED
    BY <1>1, <1>3, <2>1 DEF BookInv, LoopInv, Through
<1>4. CASE k \in Setups
  <2>1. SetupRow(k)' /\ k \notin Pids
    BY <1>1, <1>2, <1>4, RowIdKinds DEF BookInv, RowsInv, SetupRow
  <2>2. QED
    BY <1>1, <1>3, <1>4, <2>1 DEF Rewritten, Through, OpenStates
<1>5. CASE k \in Pids
  <2>1. OrphanRow(k)' /\ k \notin Setups
    BY <1>1, <1>2, <1>5, RowIdKinds DEF BookInv, RowsInv, OrphanRow, Through
  <2>2. Shown(k)'
    BY <1>5, ShownStays DEF BookInv, ShownInv, Through
  <2>3. QED
    BY <1>1, <1>3, <2>1, <2>2 DEF Rewritten, Through, OpenStates
<1>6. QED
  BY <1>1, <1>4, <1>5, RowIdKinds

LEMMA UnwrittenKeeps == ASSUME TypeOK, BookInv, Moves, UNCHANGED <<row, booked>>, AtInv' PROVE BookInv'
BY MovesKeep DEF Same
\* What the coroutine relies on, request by request.
LEMMA AtProtect ==
  ASSUME NEW k \in Setups, conv'.cur = k, conv'.pc \in Protect, conv'.op \in {"execute", "reconcile"},
         row'[k].st = "OPEN", row'[k].pid \in Pids, ~row'[k].manual
  PROVE  AtInv'
BY DEF AtInv, Protect, Cur

LEMMA AtPoll ==
  ASSUME NEW k \in Setups, conv'.cur = k, conv'.pc = "poll", conv'.op = "execute",
         row'[k].st \in {"SENDING", "OPEN"}, row'[k].pid = None
  PROVE  AtInv'
BY DEF AtInv, Protect, Cur

LEMMA AtChange ==
  ASSUME NEW k \in Setups, conv'.cur = k, conv'.pc \in {"half", "be"}, conv'.op = "manage",
         row'[k].st \in OpenStates, row'[k].pid \in Pids, ~row'[k].manual
  PROVE  AtInv'
BY DEF AtInv, Protect, Cur

LEMMA AtDeals ==
  ASSUME NEW k \in RowIds, conv'.cur = k, conv'.pc = "deals", conv'.op \in {"manage", "reconcile"},
         row'[k].st = "CLOSING", row'[k].pid \in Pids,
         conv'.try = 1 \/ conv'.reply = "deals" => pos'[row'[k].pid].st = "closed"
  PROVE  AtInv'
BY DEF AtInv, Protect, Cur

LEMMA AtRest ==
  ASSUME conv'.pc \in {"idle", "trip"}
  PROVE  AtInv'
BY DEF AtInv, Protect
-----------------------------------------------------------------------------
(* execute() up to protect().                                               *)
\* A row without a position is neither the owner's nor told of.
LEMMA NotYet ==
  ASSUME BookInv, NEW k \in Setups, row[k].pid \notin Pids
  PROVE  ~row[k].manual /\ ~row[k].told
BY DEF BookInv, RowsInv, SetupRow

LEMMA CreatedBook == ASSUME TypeOK, OrderInv, BookInv, Created, UNCHANGED <<venue, pos, booked>> PROVE BookInv'
<1> USE DEF Labels, Reads, Amends, Closes
<1>1. /\ conv.pc = "create" /\ Cur \in Setups /\ Cur \in RowIds /\ conv.op = "execute"
      /\ row[Cur].st = "SENDING" /\ row[Cur].pid = None /\ None \notin Pids
      /\ conv.reply = "nopid" => HasPosition(Cur)
  BY RowIdKinds DEF Created, Answered, OrderInv, BookInv, AtInv, RowIds
<1>2. ~row[Cur].manual /\ ~row[Cur].told
  BY <1>1, NotYet
<1>3. ASSUME NEW p \in Pids, pos[p].key = Cur, SetRow(Cur, Adopted(Cur, p)), Step("pread", 0) PROVE BookInv'
  <2>1. Moves /\ conv'.pc = "pread" /\ conv'.op = "execute" /\ conv'.cur = Cur
    BY <1>1, <1>3, StepMoves DEF Cur
  <2>2. (\A j \in RowIds : Same(j) \/ Rewritten(j)) /\ row'[Cur] = Adopted(Cur, p)
    BY <1>1, <1>3, <2>1, Adoption
  <2>3. AtInv'
    <3>1. row'[Cur].st = "OPEN" /\ row'[Cur].pid = p /\ ~row'[Cur].manual
      BY <1>1, <1>2, <2>2 DEF Adopted, TypeOK, Row
    <3>2. QED
      BY <1>1, <2>1, <3>1, AtProtect DEF Protect, Cur
  <2>4. QED
    BY <2>1, <2>2, <2>3, MovesKeep
<1>4. ASSUME HasPosition(Cur), SetRow(Cur, Adopted(Cur, None)), Step("poll", 0) PROVE BookInv'
  <2>1. Moves /\ conv'.pc = "poll" /\ conv'.op = "execute" /\ conv'.cur = Cur
    BY <1>1, <1>4, StepMoves DEF Cur
  <2>2. row'[Cur] = Adopted(Cur, None) /\ \A j \in RowIds : j # Cur => Same(j)
    BY <1>1, <1>4, OneRow
  <2>3. row'[Cur].st = "OPEN" /\ row'[Cur].pid = None /\ ~row'[Cur].told /\ ~row'[Cur].manual
    BY <1>1, <1>2, <2>2 DEF Adopted, TypeOK, Row
  <2>4. HasPosition(Cur) => (\E p \in Pids : pos'[p].key = Cur)
    BY DEF HasPosition
  <2>5. \A k \in Setups : k = Cur => SetupRow(k)'
    BY <1>1, <1>4, <2>3, <2>4 DEF SetupRow, Through, BookInv, RowsInv, HasPosition
  <2>6. ASSUME NEW k \in RowIds, k = Cur PROVE Rewritten(k)
    <3>1. k \in Setups /\ k \notin Pids /\ SetupRow(k)'
      BY <1>1, <2>5, <2>6, RowIdKinds
    <3>2. conv.op # "reconcile" /\ k \notin conv'.todo
      BY <1>1, <2>1, <2>6 DEF Moves
    <3>3. row'[k].st = "OPEN"
      BY <2>3, <2>6
    <3>4. QED
      BY <3>1, <3>2, <3>3 DEF Rewritten
  <2>7. AtInv'
    BY <1>1, <2>1, <2>3 DEF AtInv, Protect, Cur
  <2>8. QED
    BY <2>1, <2>2, <2>6, <2>7, MovesKeep
<1>5. ASSUME Step("poll", 0) \/ Step("create", 1), UNCHANGED row PROVE BookInv'
  <2>1. Moves /\ conv'.pc \in {"poll", "create"} /\ conv'.op = "execute" /\ conv'.cur = Cur /\ conv'.reply = "none"
    BY <1>1, <1>5, StepMoves DEF Cur
  <2>2. AtInv'
    BY <1>1, <1>5, <2>1 DEF AtInv, Protect, Cur
  <2>3. QED
    BY <1>5, <2>1, <2>2, UnwrittenKeeps
<1>6. ASSUME SetRow(Cur, Failed(Cur)), Abort PROVE BookInv'
  <2>1. Moves /\ AtInv'
    BY <1>1, <1>6, LeaveMoves
  <2>2. Cur \notin conv'.todo
    BY <1>6 DEF Abort, Idle
  <2>3. QED
    BY <1>1, <1>6, <2>1, <2>2, WriteOff, MovesKeep
<1>7. QED
  BY <1>1, <1>3, <1>4, <1>5, <1>6 DEF Created

\* What a listing shows for a setup is its position.
LEMMA FoundKey ==
  ASSUME TypeOK, BookInv, NEW l \in {conv.seen, conv.read}, NEW k, NEW p \in ByComment(l, k)
  PROVE  p \in Pids /\ pos[p].key = k /\ l[p].st = "listed"
<1>1. l[p] # NoPos /\ p \in Pids /\ l[p].key = k
  BY DEF ByComment, NoPos
<1>2. QED
  BY <1>1 DEF BookInv, SeenInv, Honest

LEMMA PolledBook == ASSUME TypeOK, OrderInv, BookInv, Polled, UNCHANGED <<venue, pos, booked>> PROVE BookInv'
<1> USE DEF Labels, Reads, Amends, Closes
<1>1. /\ conv.pc = "poll" /\ Cur \in Setups /\ Cur \in RowIds /\ conv.op = "execute"
      /\ row[Cur].st \in {"SENDING", "OPEN"} /\ row[Cur].pid = None /\ None \notin Pids
  BY RowIdKinds DEF Polled, Answered, BookInv, AtInv, RowIds
<1>2. ~row[Cur].manual /\ ~row[Cur].told
  BY <1>1, NotYet
<1>3. ASSUME NEW p \in ByComment(conv.read, Cur), SetRow(Cur, Adopted(Cur, p)), Step("pread", 0) PROVE BookInv'
  <2>1. Moves /\ conv'.pc = "pread" /\ conv'.op = "execute" /\ conv'.cur = Cur
    BY <1>1, <1>3, StepMoves DEF Cur
  <2>2. p \in Pids /\ pos[p].key = Cur
    BY FoundKey
  <2>3. (\A j \in RowIds : Same(j) \/ Rewritten(j)) /\ row'[Cur] = Adopted(Cur, p)
    BY <1>1, <1>3, <2>1, <2>2, Adoption
  <2>4. AtInv'
    <3>1. row'[Cur].st = "OPEN" /\ row'[Cur].pid = p /\ ~row'[Cur].manual
      BY <1>1, <1>2, <2>2, <2>3 DEF Adopted, TypeOK, Row
    <3>2. QED
      BY <1>1, <2>1, <2>2, <3>1, AtProtect DEF Protect, Cur
  <2>5. QED
    BY <2>1, <2>3, <2>4, MovesKeep
<1>4. ASSUME Step("poll", conv.try + 1), UNCHANGED row PROVE BookInv'
  <2>1. Moves /\ conv'.pc = "poll" /\ conv'.op = "execute" /\ conv'.cur = Cur
    BY <1>1, <1>4, StepMoves DEF Cur
  <2>2. AtInv'
    BY <1>1, <1>4, <2>1 DEF AtInv, Protect, Cur
  <2>3. QED
    BY <1>4, <2>1, <2>2, UnwrittenKeeps
<1>5. ASSUME SetRow(Cur, Failed(Cur)), Step("trip", 0) PROVE BookInv'
  <2>1. Moves /\ conv'.pc = "trip" /\ conv'.todo = conv.todo
    BY <1>1, <1>5, StepMoves
  <2>2. Cur \notin conv'.todo
    BY <2>1 DEF BookInv, LoopInv
  <2>3. AtInv'
    BY <2>1 DEF AtInv, Protect
  <2>4. QED
    BY <1>1, <1>5, <2>1, <2>2, <2>3, WriteOff, MovesKeep
<1>6. QED
  BY <1>3, <1>4, <1>5 DEF Polled
-----------------------------------------------------------------------------
(* protect().                                                               *)
LEMMA LeavesBook ==
  ASSUME TypeOK, BookInv, conv.pc # "list", Continue \/ Abort, UNCHANGED <<row, venue, pos, booked>>
  PROVE  BookInv'
BY LeaveMoves, UnwrittenKeeps

LEMMA InProtect ==
  ASSUME TypeOK, BookInv, conv.pc \in Protect
  PROVE  /\ Cur \in Setups /\ Cur \in RowIds /\ Cur \notin conv.todo /\ conv.pc # "list"
         /\ conv.op \in {"execute", "reconcile"} /\ Target = row[Cur].pid
         /\ row[Cur].st = "OPEN" /\ row[Cur].pid \in Pids /\ ~row[Cur].manual
BY RowIdKinds DEF BookInv, AtInv, LoopInv, Protect, Target

LEMMA ProtectGoesOn ==
  ASSUME TypeOK, BookInv, conv.pc \in Protect, NEW label \in Protect, NEW n, Step(label, n), UNCHANGED <<row, venue, pos, booked>>
  PROVE  BookInv'
<1>1. label \in Labels \ {"list"}
  BY DEF Protect, Labels, Reads, Amends, Closes
<1>2. Moves /\ conv'.pc = label /\ conv'.op = conv.op /\ conv'.cur = Cur
  BY <1>1, InProtect, StepMoves DEF Cur
<1>3. AtInv'
  BY <1>2, InProtect, AtProtect
<1>4. QED
  BY <1>2, <1>3, UnwrittenKeeps

LEMMA FirstReadBook == ASSUME TypeOK, BookInv, FirstRead, UNCHANGED <<venue, pos, booked>> PROVE BookInv'
<1>1. conv.pc \in Protect /\ conv.pc # "list" /\ UNCHANGED row /\ {"pread", "pclose", "amend"} \subseteq Protect
  BY DEF FirstRead, Answered, Protect
<1>2. CASE Abort \/ Continue
  BY <1>1, <1>2, LeavesBook
<1>3. CASE Step("pread", conv.try + 1)
  BY <1>1, <1>3, ProtectGoesOn
<1>4. CASE Step("pclose", 0) \/ Step("amend", 0)
  BY <1>1, <1>4, ProtectGoesOn
<1>5. QED
  BY <1>2, <1>3, <1>4 DEF FirstRead

LEMMA AmendSentBook == ASSUME TypeOK, BookInv, AmendSent, UNCHANGED <<venue, pos, booked>> PROVE BookInv'
<1>1. conv.pc \in Protect /\ conv.pc # "list" /\ "verify" \in Labels \ {"list"}
  BY DEF AmendSent, Answered, Protect, Labels, Reads
<1>2. CASE Abort /\ UNCHANGED row
  BY <1>1, <1>2, LeavesBook
<1>3. CASE SetRow(Cur, [row[Cur] EXCEPT !.fresh = TRUE]) /\ Step("verify", conv.try)
  <2> DEFINE r == [row[Cur] EXCEPT !.fresh = TRUE]
  <2>1. Moves /\ conv'.pc = "verify" /\ conv'.op = conv.op /\ conv'.cur = Cur
    BY <1>1, <1>3, StepMoves DEF Cur
  <2>2. r.st = "OPEN" /\ r.pid = row[Cur].pid /\ r.told = row[Cur].told /\ r.manual = row[Cur].manual
    BY <1>1, InProtect DEF TypeOK, Row
  <2>3. (\A j \in RowIds : Same(j) \/ Rewritten(j)) /\ row'[Cur] = r
    <3> HIDE DEF r
    <3>1. SetRow(Cur, r)
      BY <1>3 DEF r
    <3>2. QED
      BY <1>1, <2>1, <2>2, <3>1, InProtect, Alteration DEF Through
  <2>4. AtInv'
    <3> HIDE DEF r
    <3>1. row'[Cur].st = "OPEN" /\ row'[Cur].pid \in Pids /\ ~row'[Cur].manual
      BY <1>1, <2>2, <2>3, InProtect
    <3>2. QED
      BY <1>1, <2>1, <3>1, InProtect, AtProtect DEF Protect
  <2>5. QED
    BY <2>1, <2>3, <2>4, MovesKeep
<1>4. QED
  BY <1>2, <1>3 DEF AmendSent

\* The owner is told only after the broker showed the planned volume and legs.
LEMMA VerifiedBook == ASSUME TypeOK, BookInv, Verified, UNCHANGED <<venue, pos, booked>> PROVE BookInv'
<1>1. conv.pc \in Protect /\ conv.pc # "list" /\ {"pclose", "amend"} \subseteq Protect
  BY DEF Verified, Answered, Protect
<1>2. CASE (Abort \/ Continue) /\ UNCHANGED row
  BY <1>1, <1>2, LeavesBook
<1>3. CASE (Step("amend", 1) \/ Step("pclose", 0)) /\ UNCHANGED row
  BY <1>1, <1>3, ProtectGoesOn
<1>4. CASE ReadBackOk /\ SetRow(Cur, [row[Cur] EXCEPT !.told = TRUE]) /\ Continue
  <2> DEFINE r == [row[Cur] EXCEPT !.told = TRUE]
  <2>1. Moves /\ AtInv'
    BY <1>1, <1>4, LeaveMoves
  <2>2. r.st = "OPEN" /\ r.pid = row[Cur].pid /\ r.manual = row[Cur].manual
    BY <1>1, InProtect DEF TypeOK, Row
  <2>3. pos[row[Cur].pid].legs # "rel" /\ pos[row[Cur].pid].vol <= Lots
    <3>1. conv.read[row[Cur].pid].legs = "exact" /\ conv.read[row[Cur].pid].vol = Lots
      BY <1>1, <1>4, InProtect DEF ReadBackOk
    <3>2. conv.read[row[Cur].pid] # NoPos
      BY <3>1 DEF NoPos
    <3>3. QED
      BY <1>1, <3>1, <3>2, InProtect DEF BookInv, SeenInv, Honest
  <2>4. \A j \in RowIds : Same(j) \/ Rewritten(j)
    <3> HIDE DEF r
    <3>1. SetRow(Cur, r)
      BY <1>4 DEF r
    <3>2. QED
      BY <1>1, <2>1, <2>2, <2>3, <3>1, InProtect, Alteration DEF Through
  <2>5. QED
    BY <2>1, <2>4, MovesKeep
<1>5. QED
  BY <1>2, <1>3, <1>4 DEF Verified

LEMMA ProtectClosedBook == ASSUME TypeOK, BookInv, ProtectClosed, UNCHANGED <<venue, pos, booked>> PROVE BookInv'
<1>1. conv.pc \in Protect /\ conv.pc # "list" /\ "trip" \in Labels \ {"list"}
  BY DEF ProtectClosed, Answered, Protect, Labels
<1>2. CASE Abort /\ UNCHANGED row
  BY <1>1, <1>2, LeavesBook
<1>3. CASE SetRow(Cur, [row[Cur] EXCEPT !.st = "CLOSING", !.late = FALSE]) /\ Step("trip", 0)
  <2> DEFINE r == [row[Cur] EXCEPT !.st = "CLOSING", !.late = FALSE]
  <2>1. Moves /\ conv'.pc = "trip"
    BY <1>1, <1>3, StepMoves
  <2>2. /\ r.st = "CLOSING" /\ r.late = FALSE /\ r.pid = row[Cur].pid
        /\ r.told = row[Cur].told /\ r.manual = row[Cur].manual
    BY <1>1, InProtect DEF TypeOK, Row
  <2>3. \A j \in RowIds : Same(j) \/ Rewritten(j)
    <3> HIDE DEF r
    <3>1. SetRow(Cur, r)
      BY <1>3 DEF r
    <3>2. QED
      BY <1>1, <2>1, <2>2, <3>1, InProtect, Alteration DEF Through
  <2>4. AtInv'
    BY <2>1, AtRest
  <2>5. QED
    BY <2>1, <2>3, <2>4, MovesKeep
<1>4. QED
  BY <1>2, <1>3 DEF ProtectClosed
-----------------------------------------------------------------------------
(* The loops: the listing, and one row or position at a time.               *)
LEMMA ListedExtra ==
  ASSUME TypeOK, OrderInv, BookInv, VenueInv, NEW p \in Mapex \ UNION {Matching(k) : k \in Mine},
         conv.seen[p].key \in Setups
  PROVE  row[conv.seen[p].key].st = "FAILED" \/ row[conv.seen[p].key].pid = p
<1> DEFINE k == conv.seen[p].key
<1>1. p \in Pids /\ k \in RowIds /\ pos[p].key = k
  <2>1. p \in Pids /\ conv.seen[p] # NoPos
    BY DEF Mapex, NoPos
  <2>2. QED
    BY <2>1, RowIdKinds DEF BookInv, SeenInv, Honest
<1> HIDE DEF k
<1>2. k \in Setups
  BY DEF k
<1>3. row[k].st # "none"
  BY <1>1, <1>2 DEF OrderInv, HasPosition
<1>4. row[k].pid \in Pids => row[k].pid = p
  BY <1>1, <1>2, TheOne DEF BookInv, RowsInv, SetupRow
<1>5. CASE row[k].st \in OpenStates
  <2>1. p \notin Matching(k)
    <3>1. conv.seen[p].st = "listed"
      BY DEF Mapex
    <3>2. row[k].mode = Mode
      BY <1>1, <1>2, <3>1 DEF VenueInv
    <3>3. QED
      BY <1>1, <1>5, <3>2 DEF OpenRows, Mine
  <2>2. p \in Pids /\ conv.seen[p].mapex /\ conv.seen[p].key = k
    BY <1>1 DEF Mapex, k
  <2>3. row[k].pid \in Mapex
    BY <2>1, <2>2 DEF Matching, ByComment
  <2>4. QED
    BY <1>4, <2>3 DEF Mapex, k
<1>6. CASE row[k].st = "CLOSED"
  BY <1>2, <1>4, <1>6 DEF BookInv, RowsInv, SetupRow, k
<1>7. QED
  BY <1>1, <1>3, <1>5, <1>6 DEF TypeOK, Row, k

LEMMA ListedBook == ASSUME TypeOK, OrderInv, BookInv, VenueInv, Listed, UNCHANGED <<venue, pos, booked>> PROVE BookInv'
<1>1. conv.pc = "list" /\ UNCHANGED row /\ conv.cur = None
  BY DEF Listed, Answered, BookInv, AtInv
<1>2. ASSUME Abort PROVE BookInv'
  <2>1. conv' = Idle
    BY <1>2 DEF Abort
  <2>2. Moves
    BY <2>1, <1>1 DEF Moves, Starts, HasListing, Idle
  <2>3. AtInv'
    BY <2>1, AtRest DEF Idle
  <2>4. QED
    BY <1>1, <2>2, <2>3, UnwrittenKeeps
<1>3. ASSUME conv.reply = "ok", ~Abort PROVE BookInv'
  <2> DEFINE orphans == Mapex \ UNION {Matching(k) : k \in Mine}
  <2>1. /\ conv'.pc = "next" /\ conv'.reply = "none" /\ conv'.cur = None /\ conv'.op = conv.op
        /\ conv'.seen = conv.seen /\ conv'.read = conv.read
        /\ conv'.todo \subseteq OpenRows /\ conv'.extra \subseteq Mapex
        /\ conv.op = "reconcile" => conv'.extra = orphans
    <3> DEFINE todo == IF conv.op = "flat" THEN {} ELSE Mine
               extra == CASE conv.op = "manage" -> {}
                          [] conv.op = "flat" -> Mapex
                          [] OTHER -> orphans
    <3>1. conv' = [conv EXCEPT !.pc = "next", !.reply = "none", !.todo = todo, !.extra = extra]
      BY <1>1, <1>3 DEF Listed
    <3>2. todo \subseteq OpenRows
      BY DEF Mine
    <3>3. extra \subseteq Mapex /\ (conv.op = "reconcile" => extra = orphans)
      <4> HIDE DEF orphans
      <4>1. orphans \subseteq Mapex
        BY DEF orphans
      <4>2. QED
        BY <4>1
    <3> HIDE DEF todo, extra, orphans
    <3>4. QED
      BY <1>1, <3>1, <3>2, <3>3 DEF TypeOK, Conv
  <2>2. UNCHANGED <<row, pos, booked>> /\ \A k : HasPosition(k)' <=> HasPosition(k)
    BY <1>1 DEF HasPosition
  <2>3. PositionInv'
    BY <2>2 DEF BookInv, PositionInv
  <2>4. RowsInv'
    BY <2>2 DEF BookInv, RowsInv, SetupRow, OrphanRow
  <2>5. SeenInv'
    BY <2>1, <2>2 DEF BookInv, SeenInv, Honest
  <2>6. AtInv'
    BY <2>1 DEF AtInv, Protect
  <2>7. LoopInv'
    <3>1. \A k \in conv'.todo : k # Cur' /\ row'[k].st \in OpenStates
      BY <2>1, <2>2, RowIdKinds DEF OpenRows, Cur
    <3>2. \A p \in conv'.extra : conv'.seen[p].st = "listed" /\ conv'.seen[p].mapex
      BY <2>1 DEF Mapex
    <3>3. ASSUME NEW p \in conv'.extra, conv'.op = "reconcile", conv'.seen[p].key \in Setups
          PROVE  row'[conv'.seen[p].key].st = "FAILED" \/ row'[conv'.seen[p].key].pid = p
      <4>1. p \in orphans /\ conv.seen[p].key \in Setups
        BY <2>1, <3>3
      <4>2. QED
        BY <2>1, <2>2, <4>1, ListedExtra
    <3>4. QED
      BY <3>1, <3>2, <3>3 DEF LoopInv
  <2>8. ShownInv'
    <3>1. HasListing' => HasListing
      BY <1>1, <1>3, <2>1 DEF HasListing
    <3>2. \A p \in Pids : Shown(p) => Shown(p)'
      BY <2>1, <2>2, <3>1 DEF Shown, OpenAt, Mode
    <3>3. QED
      BY <2>2, <3>2 DEF BookInv, ShownInv
  <2>9. QED
    BY <2>3, <2>4, <2>5, <2>6, <2>7, <2>8 DEF BookInv
<1>4. QED
  BY <1>2, <1>3 DEF Listed

\* Where a row is over its deadline, the position its loop's listing does not show is gone.
LEMMA UnseenIsGone ==
  ASSUME TypeOK, BookInv, VenueInv, conv.pc = "next", conv.op \in {"manage", "reconcile"}, NEW k \in conv.todo,
         row[k].st = "CLOSING", row[k].late, row[k].pid \in Pids, row[k].pid \notin Mapex
  PROVE  pos[row[k].pid].st = "closed"
<1> DEFINE p == row[k].pid
<1>0. k \in RowIds /\ row[k].mode = Mode
  BY DEF TypeOK, Conv, VenueInv
<1>1. Shown(p) /\ pos[p].mapex /\ pos[p].st # "free" /\ pos[p].mode = Mode
  <2>0. Mode # "none"
    BY DEF Mode
  <2>1. CASE k \in Setups
    <3>1. pos[p].key = k
      BY <2>1 DEF BookInv, RowsInv, SetupRow
    <3>2. Shown(p)
      BY <2>1, <3>1 DEF BookInv, ShownInv
    <3>3. pos[p].mapex /\ pos[p].st # "free"
      BY <2>1, <3>1, SetsAssumption DEF BookInv, PositionInv, NoPos
    <3>4. pos[p].mode = Mode
      BY <1>0, <2>1, <3>1 DEF VenueInv
    <3>5. QED
      BY <3>2, <3>3, <3>4
  <2>2. CASE k \in Pids
    <3>1. p = k /\ pos[p].mapex /\ pos[p].st # "free"
      BY <2>2 DEF BookInv, RowsInv, OrphanRow
    <3>2. pos[p].mode = Mode
      BY <1>0, <2>0, <2>2, <3>1 DEF VenueInv
    <3>3. QED
      BY <2>2, <3>1, <3>2 DEF BookInv, ShownInv
  <2>3. QED
    BY <1>0, <2>1, <2>2, RowIdKinds
<1>2. OpenAt(p) => p \in Mapex
  <2>1. HasListing
    BY DEF HasListing
  <2>2. ASSUME conv.seen[p].st = "listed" PROVE conv.seen[p].mapex
    BY <1>1, <2>2 DEF BookInv, SeenInv, Honest, NoPos
  <2>3. QED
    BY <1>1, <2>1, <2>2 DEF Shown, Mapex
<1>3. pos[p].st \in {"free", "hidden", "listed", "closed"}
  BY DEF TypeOK, Position
<1>4. QED
  BY <1>1, <1>2, <1>3 DEF OpenAt

LEMMA HandleClosedBook ==
  ASSUME TypeOK, BookInv, VenueInv, conv.pc = "next", conv.op \in {"manage", "reconcile"}, NEW k \in conv.todo,
         row[k].st # "SENDING", row[k].pid \notin Mapex, HandleClosed(k), UNCHANGED <<venue, pos, booked>>
  PROVE  BookInv'
<1> DEFINE r == [row[k] EXCEPT !.st = "CLOSING", !.late = row[k].st = "CLOSING" /\ @]
<1>1. k \in RowIds /\ row[k].st \in Through \ {"CLOSED"} /\ k # None
  BY RowIdKinds DEF TypeOK, Conv, BookInv, LoopInv, OpenStates, Through
<1>2. /\ r.st = "CLOSING" /\ r.pid = row[k].pid /\ r.told = row[k].told /\ r.manual = row[k].manual
      /\ r.late => row[k].st = "CLOSING" /\ row[k].late
  BY <1>1 DEF TypeOK, Row
<1>3. SetRow(k, r)
  BY DEF HandleClosed
<1> HIDE DEF r
<1>4. ASSUME Moves PROVE (\A j \in RowIds : Same(j) \/ Rewritten(j)) /\ row'[k] = r
  BY <1>1, <1>2, <1>3, <1>4, Alteration DEF Through
<1>5. CASE Abort
  BY <1>4, <1>5, LeaveMoves, MovesKeep
<1>6. CASE ~Abort
  <2>1. /\ row[k].pid # None
        /\ conv' = [conv EXCEPT !.pc = "deals", !.cur = k, !.todo = @ \ {k},
                                !.try = IF row[k].st = "CLOSING" /\ Expired(k) THEN 1 ELSE 0]
    BY <1>6 DEF HandleClosed
  <2>2. row[k].pid \in Pids
    BY <1>1, <2>1 DEF TypeOK, Row
  <2>3. /\ conv'.pc = "deals" /\ conv'.cur = k /\ conv'.todo = conv.todo \ {k} /\ conv'.op = conv.op
        /\ conv'.extra = conv.extra /\ conv'.seen = conv.seen /\ conv'.read = conv.read /\ conv'.reply = conv.reply
        /\ conv'.try = 1 => row[k].st = "CLOSING" /\ row[k].late
    BY <2>1 DEF TypeOK, Conv, Expired
  <2>4. Moves
    BY <2>3 DEF Moves, HasListing
  <2>5. (\A j \in RowIds : Same(j) \/ Rewritten(j)) /\ row'[k] = r
    BY <1>4, <2>4
  <2>6. conv'.try = 1 => pos'[row[k].pid].st = "closed"
    BY <1>1, <2>2, <2>3, UnseenIsGone
  <2>7. conv'.reply = "none"
    BY <2>3 DEF BookInv, AtInv
  <2>8. AtInv'
    BY <1>1, <1>2, <2>2, <2>3, <2>5, <2>6, <2>7, AtDeals
  <2>9. QED
    BY <2>4, <2>5, <2>8, MovesKeep
<1>7. QED
  BY <1>5, <1>6
-----------------------------------------------------------------------------
(* _manage, and what follows a closed position.                             *)
LEMMA ManageRowBook == ASSUME TypeOK, BookInv, VenueInv, NEW k \in RowIds, ManageRow(k), UNCHANGED <<venue, pos, booked>> PROVE BookInv'
<1> DEFINE rest == conv.todo \ {k}
<1>1. /\ conv.pc = "next" /\ conv.op = "manage" /\ k \in conv.todo /\ k \notin rest /\ rest \in SUBSET conv.todo
      /\ {} \in SUBSET conv.extra /\ row[k].st \in OpenStates
  BY DEF ManageRow, Looping, BookInv, LoopInv
<1> HIDE DEF rest
<1>2. Mapex \subseteq Pids
  BY DEF Mapex
<1>3. CASE Skip(rest, {}) /\ UNCHANGED row
  BY <1>1, <1>3, SkipMoves, UnwrittenKeeps
<1>4. CASE row[k].st # "SENDING" /\ row[k].pid \notin Mapex /\ HandleClosed(k)
  BY <1>1, <1>4, HandleClosedBook
<1>5. CASE /\ row[k].st # "SENDING" /\ row[k].pid \in Mapex
           /\ Skip(rest, {}) /\ SetRow(k, [row[k] EXCEPT !.manual = TRUE])
  <2> DEFINE r == [row[k] EXCEPT !.manual = TRUE]
  <2>1. Moves /\ AtInv'
    BY <1>1, <1>5, SkipMoves
  <2>2. /\ r.st = row[k].st /\ r.pid = row[k].pid /\ r.told = row[k].told /\ r.manual /\ r.late = row[k].late
    BY DEF TypeOK, Row
  <2>3. SetRow(k, r)
    BY <1>5
  <2> HIDE DEF r
  <2>4. row[k].st \in Through \ {"CLOSED"}
    BY <1>1, <1>5 DEF OpenStates, Through
  <2>5. \A j \in RowIds : Same(j) \/ Rewritten(j)
    BY <1>2, <1>5, <2>1, <2>2, <2>3, <2>4, Alteration
  <2>6. QED
    BY <2>1, <2>5, MovesKeep
<1>6. ASSUME NEW label \in {"half", "be"}, row[k].pid \in Mapex, Managed(k), StepFor(label, k, rest, {}), UNCHANGED row
      PROVE  BookInv'
  <2>1. label \in Labels \ {"list"}
    BY DEF Labels, Amends, Closes
  <2>2. Moves /\ conv'.pc = label /\ conv'.op = "manage" /\ conv'.cur = k
    BY <1>1, <1>6, <2>1, StepForMoves
  <2>3. k \in Setups
    BY <1>1, <1>6, RowIdKinds DEF Managed, BookInv, RowsInv, OrphanRow, OpenStates
  <2>4. AtInv'
    BY <1>1, <1>2, <1>6, <2>2, <2>3, AtChange DEF Managed
  <2>5. QED
    BY <1>6, <2>2, <2>4, UnwrittenKeeps
<1>7. QED
  BY <1>3, <1>4, <1>5, <1>6 DEF ManageRow, rest

LEMMA InChange ==
  ASSUME TypeOK, BookInv, conv.pc \in {"half", "be"}
  PROVE  /\ Cur \in Setups /\ Cur \in RowIds /\ Cur \notin conv.todo /\ conv.op = "manage" /\ Target = row[Cur].pid
         /\ row[Cur].st \in Through \ {"CLOSED"} /\ row[Cur].pid \in Pids /\ ~row[Cur].manual
<1>1. /\ Cur \in Setups /\ Cur \notin conv.todo /\ conv.op = "manage"
      /\ row[Cur].st \in OpenStates /\ row[Cur].pid \in Pids /\ ~row[Cur].manual
  BY DEF BookInv, AtInv, LoopInv
<1>2. row[Cur].st \in Through
  BY <1>1 DEF BookInv, RowsInv, SetupRow
<1>3. QED
  BY <1>1, <1>2, RowIdKinds DEF Target, OpenStates

LEMMA HalfClosedBook == ASSUME TypeOK, BookInv, HalfClosed, UNCHANGED <<venue, pos, booked>> PROVE BookInv'
<1>1. conv.pc = "half" /\ UNCHANGED row /\ "be" \in Labels \ {"list"}
  BY DEF HalfClosed, Answered, Labels, Amends
<1>2. CASE Abort
  BY <1>1, <1>2, LeavesBook
<1>3. CASE Step("be", 0)
  <2>1. Moves /\ conv'.pc = "be" /\ conv'.op = conv.op /\ conv'.cur = Cur
    BY <1>1, <1>3, StepMoves DEF Cur
  <2>2. AtInv'
    BY <1>1, <2>1, InChange, AtChange DEF BookInv, AtInv
  <2>3. QED
    BY <1>1, <2>1, <2>2, UnwrittenKeeps
<1>4. QED
  BY <1>2, <1>3 DEF HalfClosed

LEMMA BreakevenSetBook == ASSUME TypeOK, BookInv, BreakevenSet, UNCHANGED <<venue, pos, booked>> PROVE BookInv'
<1>1. conv.pc = "be"
  BY DEF BreakevenSet, Answered
<1>2. CASE Abort /\ UNCHANGED row
  BY <1>1, <1>2, LeavesBook
<1>3. CASE SetRow(Cur, [row[Cur] EXCEPT !.be = TRUE, !.st = "BE", !.fresh = TRUE]) /\ Continue
  <2> DEFINE r == [row[Cur] EXCEPT !.be = TRUE, !.st = "BE", !.fresh = TRUE]
  <2>1. Moves /\ AtInv'
    BY <1>1, <1>3, LeaveMoves
  <2>2. r.st = "BE" /\ r.pid = row[Cur].pid /\ r.told = row[Cur].told /\ r.manual = row[Cur].manual
    BY <1>1, InChange DEF TypeOK, Row
  <2>3. SetRow(Cur, r)
    BY <1>3
  <2> HIDE DEF r
  <2>4. \A j \in RowIds : Same(j) \/ Rewritten(j)
    BY <1>1, <2>1, <2>2, <2>3, InChange, Alteration DEF Through
  <2>5. QED
    BY <2>1, <2>4, MovesKeep
<1>4. QED
  BY <1>2, <1>3 DEF BreakevenSet

LEMMA InDeals ==
  ASSUME TypeOK, BookInv, conv.pc = "deals"
  PROVE  /\ Cur \in RowIds /\ Cur \notin conv.todo /\ Target = row[Cur].pid
         /\ row[Cur].st = "CLOSING" /\ row[Cur].pid \in Pids
         /\ conv.try = 1 \/ conv.reply = "deals" => pos[row[Cur].pid].st = "closed"
         /\ Cur \in Setups => booked[Cur] = 0
<1>1. conv.op # "flat" /\ Cur \in RowIds /\ row[Cur].st = "CLOSING"
  BY DEF BookInv, AtInv
<1>2. Cur \in Setups => booked[Cur] = 0
  BY <1>1 DEF BookInv, RowsInv, SetupRow, TypeOK
<1>3. QED
  BY <1>1, <1>2 DEF BookInv, AtInv, LoopInv, Target

LEMMA DealsReadBook == ASSUME TypeOK, BookInv, DealsRead, UNCHANGED <<venue, pos, booked>> PROVE BookInv'
<1> DEFINE r == [row[Cur] EXCEPT !.st = "CLOSED", !.late = FALSE]
<1>1. conv.pc = "deals" /\ "record" \in Labels \ {"list"}
  BY DEF DealsRead, Answered, Labels
<1>2. /\ r.st = "CLOSED" /\ r.pid = row[Cur].pid /\ r.told = row[Cur].told /\ r.manual = row[Cur].manual
  BY <1>1, InDeals DEF TypeOK, Row
<1> HIDE DEF r
<1>3. ASSUME Moves, conv'.todo \subseteq conv.todo, SetRow(Cur, r), conv.try = 1 \/ conv.reply = "deals"
      PROVE  (\A j \in RowIds : Same(j) \/ Rewritten(j)) /\ row'[Cur] = r
  <2>1. row'[Cur] = r /\ \A j \in RowIds : j # Cur => Same(j)
    BY <1>1, <1>3, InDeals, OneRow
  <2>2. UNCHANGED <<pos, booked>> /\ pos[row[Cur].pid].st = "closed"
    BY <1>1, <1>3, InDeals
  <2>3. ASSUME NEW k \in RowIds, k = Cur PROVE Rewritten(k)
    <3>1. row'[k] = r /\ row[k].st = "CLOSING" /\ row[k].pid \in Pids /\ k \notin conv'.todo
      BY <1>1, <1>3, <2>1, <2>3, InDeals
    <3>2. k \in Setups => SetupRow(k)'
      BY <1>2, <2>2, <2>3, <3>1, <1>1, InDeals DEF BookInv, RowsInv, SetupRow, Through, HasPosition
    <3>3. k \in Pids => OrphanRow(k)'
      BY <1>2, <2>2, <2>3, <3>1 DEF BookInv, RowsInv, OrphanRow, Through
    <3>4. k \in Pids => Shown(k)'
      BY <1>3, <3>1, ShownStays DEF BookInv, ShownInv
    <3>5. ASSUME NEW p \in conv'.extra, conv.op = "reconcile", conv.seen[p].key = k PROVE row'[k].pid = p
      <4>1. p \in conv.extra
        BY <1>3 DEF Moves
      <4>2. k \in Setups
        BY <2>3, <3>5, <4>1, SeenKey, RowIdKinds
      <4>3. QED
        BY <1>2, <2>3, <3>1, <3>5, <4>1, <4>2 DEF BookInv, LoopInv
    <3>6. QED
      BY <1>2, <3>1, <3>2, <3>3, <3>4, <3>5 DEF Rewritten
  <2>4. QED
    BY <2>1, <2>3
<1>4. CASE Continue /\ UNCHANGED row
  BY <1>1, <1>4, LeavesBook
<1>5. CASE (conv.reply = "deals" \/ conv.try = 1) /\ SetRow(Cur, r) /\ Continue
  <2>1. Moves /\ AtInv'
    BY <1>1, <1>5, LeaveMoves
  <2>2. QED
    BY <1>3, <1>5, <2>1, MovesKeep DEF Moves
<1>6. CASE conv.reply = "deals" /\ Cur \in Setups /\ SetRow(Cur, r) /\ Step("record", 0)
  <2>1. Moves /\ conv'.pc = "record" /\ conv'.cur = Cur
    BY <1>1, <1>6, StepMoves DEF Cur
  <2>2. row'[Cur].st = "CLOSED" /\ \A j \in RowIds : Same(j) \/ Rewritten(j)
    BY <1>2, <1>3, <1>6, <2>1 DEF Moves
  <2>3. AtInv'
    BY <1>1, <1>6, <2>1, <2>2, InDeals DEF AtInv, Protect, Cur
  <2>4. QED
    BY <2>1, <2>2, <2>3, MovesKeep
<1>7. QED
  BY <1>4, <1>5, <1>6 DEF DealsRead, r

\* A result is recorded for a row that has just been closed, and for which none was.
LEMMA RecordBook == ASSUME TypeOK, BookInv, Record, UNCHANGED <<venue, pos>> PROVE BookInv'
<1>1. /\ conv.pc = "record" /\ Cur \in Setups /\ Cur \in RowIds /\ Cur \notin Pids /\ Cur \notin conv.todo
      /\ row[Cur].st = "CLOSED" /\ booked[Cur] = 0 /\ UNCHANGED row
  BY RowIdKinds DEF Record, BookInv, AtInv, LoopInv
<1>2. booked'[Cur] = 1 /\ \A j \in RowIds : j # Cur => Same(j)
  BY <1>1 DEF Record, Same, TypeOK
<1>3. Moves /\ AtInv'
  BY <1>1, LeaveMoves DEF Record
<1>4. ASSUME NEW k \in RowIds, k = Cur PROVE Rewritten(k)
  <2>1. k \in Setups /\ booked'[k] = 1 /\ UNCHANGED <<row, pos>> /\ row[k].st = "CLOSED"
    BY <1>1, <1>2, <1>4
  <2>2. SetupRow(k)'
    BY <2>1 DEF BookInv, RowsInv, SetupRow, HasPosition
  <2>3. ASSUME NEW p \in conv'.extra, conv.op = "reconcile", conv.seen[p].key = k PROVE row'[k].pid = p
    BY <1>3, <2>1, <2>3 DEF Moves, BookInv, LoopInv
  <2>4. QED
    BY <1>1, <1>3, <1>4, <2>1, <2>2, <2>3 DEF Rewritten, Moves
<1>5. QED
  BY <1>1, <1>2, <1>3, <1>4, MovesKeep

LEMMA TripBook == ASSUME TypeOK, BookInv, Trip, UNCHANGED <<venue, pos>> PROVE BookInv'
BY LeavesBook DEF Trip
-----------------------------------------------------------------------------
(* _reconcile and _flat.                                                    *)

\* An open row that a position matches and that is not its own has none yet, and the
\* position is its setup's.
LEMMA Matched ==
  ASSUME TypeOK, OrderInv, BookInv, NEW k \in RowIds, row[k].st \in OpenStates, NEW p \in Matching(k),
         row[k].st = "SENDING" \/ row[k].pid # p
  PROVE  k \in Setups /\ p \in Pids /\ pos[p].key = k /\ row[k].pid \notin Pids
<1>1. CASE k \in Pids
  <2>1. row[k].pid = k /\ row[k].st # "SENDING"
    BY <1>1 DEF BookInv, RowsInv, OrphanRow, OpenStates, Through
  <2>2. p \in ByComment(conv.seen, k)
    BY <1>1, <2>1 DEF Matching
  <2>3. pos[p].key = k /\ p \in Pids
    BY <2>2, FoundKey
  <2>4. QED
    BY <1>1, <2>3, SetsAssumption DEF TypeOK, Position
<1>2. CASE k \in Setups
  <2>1. row[k].pid \in Pids => pos[row[k].pid].key = k /\ row[k].st # "SENDING"
    BY <1>2 DEF BookInv, RowsInv, SetupRow, Through
  <2>2. p \in ByComment(conv.seen, k)
    BY <2>1 DEF Matching, Mapex
  <2>3. pos[p].key = k /\ p \in Pids
    BY <2>2, FoundKey
  <2>4. QED
    BY <1>2, <2>1, <2>3, TheOne
<1>3. QED
  BY <1>1, <1>2, RowIdKinds

LEMMA ReconcileRowBook ==
  ASSUME TypeOK, OrderInv, BookInv, VenueInv, NEW k \in RowIds, ReconcileRow(k), UNCHANGED <<venue, pos, booked>>
  PROVE  BookInv'
<1> DEFINE rest == conv.todo \ {k}
<1>1. /\ conv.pc = "next" /\ conv.op = "reconcile" /\ k \in conv.todo /\ k \notin rest /\ rest \in SUBSET conv.todo
      /\ conv.extra \in SUBSET conv.extra /\ row[k].st \in OpenStates /\ row[k].st # "CLOSED"
  BY DEF ReconcileRow, Looping, BookInv, LoopInv, OpenStates
<1>2. "pread" \in Labels \ {"list"}
  BY DEF Labels, Reads
<1> HIDE DEF rest
<1>3. ASSUME NEW p \in Matching(k), row[k].st = "SENDING" \/ row[k].pid # p,
             SetRow(k, Adopted(k, p)), StepFor("pread", k, rest, conv.extra)
      PROVE  BookInv'
  <2>1. k \in Setups /\ p \in Pids /\ pos[p].key = k /\ row[k].pid \notin Pids
    BY <1>1, <1>3, Matched
  <2>2. Moves /\ conv'.pc = "pread" /\ conv'.op = "reconcile" /\ conv'.cur = k
    BY <1>1, <1>2, <1>3, StepForMoves
  <2>3. (\A j \in RowIds : Same(j) \/ Rewritten(j)) /\ row'[k] = Adopted(k, p)
    BY <1>1, <1>3, <2>1, <2>2, Adoption
  <2>4. ~row[k].manual
    BY <2>1, NotYet
  <2>5. row'[k].st = "OPEN" /\ row'[k].pid = p /\ ~row'[k].manual
    BY <2>3, <2>4 DEF Adopted, TypeOK, Row
  <2>6. AtInv'
    BY <2>1, <2>2, <2>5, AtProtect DEF Protect
  <2>7. QED
    BY <2>2, <2>3, <2>6, MovesKeep
<1>4. CASE Skip(rest, conv.extra) /\ UNCHANGED row
  BY <1>1, <1>4, SkipMoves, UnwrittenKeeps
<1>5. CASE row[k].st = "SENDING" /\ Skip(rest, conv.extra) /\ SetRow(k, Failed(k))
  <2>1. Moves /\ AtInv' /\ conv'.todo = rest
    BY <1>1, <1>5, SkipMoves
  <2>2. k \in Setups /\ row[k].pid = None
    BY <1>5, RowIdKinds DEF BookInv, RowsInv, SetupRow, OrphanRow, Through, TypeOK, Row
  <2>3. QED
    BY <1>1, <1>5, <2>1, <2>2, WriteOff, MovesKeep
<1>6. CASE Matching(k) = {} /\ row[k].st # "SENDING" /\ HandleClosed(k)
  <2>1. row[k].pid \notin Mapex
    BY <1>6 DEF Matching
  <2>2. QED
    BY <1>1, <1>6, <2>1, HandleClosedBook
<1>7. QED
  BY <1>3, <1>4, <1>5, <1>6 DEF ReconcileRow, rest

LEMMA ReconcilePositionBook ==
  ASSUME TypeOK, OrderInv, BookInv, NEW p \in Pids, ReconcilePosition(p), UNCHANGED <<venue, pos, booked>>
  PROVE  BookInv'
<1> DEFINE key == conv.seen[p].key
           rest == conv.extra \ {p}
           lateFill == key \in Setups /\ row[key].st = "FAILED"
<1>1. /\ conv.pc = "next" /\ conv.op = "reconcile" /\ p \in conv.extra /\ p \in RowIds
      /\ conv.todo = {} /\ {} \in SUBSET conv.todo /\ rest \in SUBSET conv.extra
  BY RowIdKinds DEF ReconcilePosition, Looping
<1>2. pos[p].key = key /\ pos[p].mapex /\ pos[p].st \in {"listed", "closed"}
  BY <1>1, SeenKey
<1>3. "pread" \in Labels \ {"list"}
  BY DEF Labels, Reads
<1> HIDE DEF key, rest
<1>4. CASE Skip({}, rest) /\ UNCHANGED row
  BY <1>1, <1>4, SkipMoves, UnwrittenKeeps
<1>5. CASE lateFill /\ SetRow(key, Adopted(key, p)) /\ StepFor("pread", key, {}, rest)
  <2>1. key \in Setups /\ row[key].st = "FAILED" /\ row[key].st # "CLOSED"
    BY <1>5
  <2>2. Moves /\ conv'.pc = "pread" /\ conv'.op = "reconcile" /\ conv'.cur = key
    BY <1>1, <1>3, <1>5, StepForMoves
  <2>3. (\A j \in RowIds : Same(j) \/ Rewritten(j)) /\ row'[key] = Adopted(key, p)
    BY <1>2, <1>5, <2>1, <2>2, Adoption
  <2>4. row[key].pid \notin Pids
    BY <2>1 DEF BookInv, RowsInv, SetupRow, Through
  <2>5. ~row[key].manual /\ key \in RowIds
    BY <2>1, <2>4, NotYet, RowIdKinds
  <2>6. row'[key].st = "OPEN" /\ row'[key].pid = p /\ ~row'[key].manual
    BY <2>3, <2>5 DEF Adopted, TypeOK, Row
  <2>7. AtInv'
    BY <2>1, <2>2, <2>6, AtProtect DEF Protect
  <2>8. QED
    BY <2>2, <2>3, <2>7, MovesKeep
<1>6. CASE /\ ~Known(p) /\ ~lateFill /\ Skip({}, rest)
           /\ SetRow(p, [NoRow EXCEPT !.st = "OPEN", !.pid = p, !.mode = Mode, !.manual = TRUE])
  <2>1. Moves /\ AtInv' /\ conv'.todo = {}
    BY <1>1, <1>6, SkipMoves
  <2>2. /\ row'[p].st = "OPEN" /\ row'[p].pid = p /\ row'[p].manual /\ ~row'[p].told
        /\ \A j \in RowIds : j # p => Same(j)
    BY <1>1, <1>6 DEF SetRow, Same, TypeOK, NoRow
  <2>3. key \notin Setups
    BY <1>1, <1>6, RowIdKinds DEF Known, BookInv, LoopInv, key
  <2>4. OrphanRow(p)'
    <3>1. booked[p] = 0
      BY DEF BookInv, RowsInv, OrphanRow
    <3>2. QED
      BY <1>2, <2>2, <2>3, <3>1 DEF OrphanRow, Through
  <2>5. Shown(p)'
    <3>1. Starts \/ conv'.seen[p].st = "listed"
      BY <1>1, <2>1 DEF Moves, BookInv, LoopInv
    <3>2. HasListing' => conv'.seen[p].st = "listed"
      BY <3>1 DEF Starts
    <3>3. QED
      BY <1>2, <3>2 DEF Shown, OpenAt
  <2>6. p \notin Setups
    BY RowIdKinds
  <2>7. \A q \in conv'.extra : conv.seen[q].key # p
    BY <1>1, <2>1, <2>6, SeenKey, SetsAssumption DEF Moves
  <2>8. Rewritten(p)
    BY <2>1, <2>2, <2>4, <2>5, <2>6, <2>7 DEF Rewritten, OpenStates
  <2>9. QED
    BY <2>1, <2>2, <2>8, MovesKeep
<1>7. QED
  BY <1>4, <1>5, <1>6 DEF ReconcilePosition, key, rest

LEMMA FlatBook ==
  ASSUME TypeOK, BookInv, FlatClosed \/ EndLoop \/ \E p \in Pids : FlatPosition(p), UNCHANGED <<venue, pos, booked>>
  PROVE  BookInv'
<1>1. CASE FlatClosed
  BY <1>1, LeavesBook DEF FlatClosed, Answered
<1>2. CASE EndLoop
  BY <1>2, LeavesBook DEF EndLoop, Abort
<1>3. ASSUME NEW p \in Pids, FlatPosition(p) PROVE BookInv'
  <2>1. /\ conv.pc = "next" /\ conv.op = "flat" /\ p \in conv.extra /\ UNCHANGED row
        /\ {} \in SUBSET conv.todo /\ conv.extra \ {p} \in SUBSET conv.extra /\ "fclose" \in Labels \ {"list"}
    BY <1>3 DEF FlatPosition, Looping, Labels, Closes
  <2>2. Moves /\ conv'.pc = "fclose" /\ conv'.op = "flat" /\ conv'.cur = p
    BY <1>3, <2>1, StepForMoves DEF FlatPosition
  <2>3. pos[p].mapex
    BY <2>1, SeenKey
  <2>4. AtInv'
    BY <2>2, <2>3 DEF AtInv, Protect, Cur
  <2>5. QED
    BY <2>1, <2>2, <2>4, UnwrittenKeeps
<1>4. QED
  BY <1>1, <1>2, <1>3

LEMMA AdvanceBook == ASSUME TypeOK, OrderInv, BookInv, VenueInv, Advance PROVE BookInv'
<1>1. UNCHANGED <<venue, pos>>
  BY DEF Advance
<1>2. CASE Converse /\ UNCHANGED <<kill, booked>>
  BY <1>1, <1>2, CreatedBook, PolledBook, FirstReadBook, AmendSentBook, VerifiedBook, ProtectClosedBook,
     ListedBook, DealsReadBook, HalfClosedBook, BreakevenSetBook, FlatBook, ManageRowBook,
     ReconcileRowBook, ReconcilePositionBook DEF Converse
<1>3. CASE Trip \/ Record
  BY <1>1, <1>3, TripBook, RecordBook
<1>4. QED
  BY <1>2, <1>3 DEF Advance
-----------------------------------------------------------------------------
(* Taking the lock.                                                         *)
LEMMA ExecuteBook == ASSUME TypeOK, OrderInv, BookInv, NEW k \in Setups, Execute(k) PROVE BookInv'
<1>1. /\ conv'.pc = "create" /\ conv'.op = "execute" /\ conv'.cur = k /\ conv'.reply = "none" /\ conv'.todo = {}
      /\ conv'.extra = {} /\ conv'.seen = NothingSeen /\ conv'.read = NothingSeen
  BY DEF Execute, Idle
<1>2. row[k].st = "none" /\ k \in RowIds /\ k \notin Pids /\ None \notin Pids
  BY RowIdKinds DEF Execute, CheckEntry, Unclaimed, RowIds
<1>3. Moves
  BY <1>1 DEF Moves, Starts, HasListing, Execute
<1>4. /\ row'[k].st = "SENDING" /\ row'[k].pid = None /\ ~row'[k].told /\ ~row'[k].manual
      /\ \A j \in RowIds : j # k => Same(j)
  BY <1>2 DEF Execute, SetRow, TypeOK, NoRow, Same
<1>5. SetupRow(k)'
  BY <1>2, <1>4 DEF Execute, BookInv, RowsInv, SetupRow, Through
<1>6. Rewritten(k)
  BY <1>1, <1>2, <1>4, <1>5 DEF Rewritten
<1>7. AtInv'
  BY <1>1, <1>4 DEF AtInv, Protect, Cur
<1>8. QED
  BY <1>3, <1>4, <1>6, <1>7, MovesKeep

LEMMA BeginBook ==
  ASSUME TypeOK, BookInv, NEW op \in {"manage", "reconcile", "flat"}, Begin(op)
  PROVE  BookInv'
<1>1. /\ conv'.pc = "list" /\ conv'.cur = None /\ conv'.reply = "none" /\ conv'.todo = {}
      /\ conv'.extra = {} /\ conv'.seen = NothingSeen /\ conv'.read = NothingSeen
  BY DEF Begin, Idle
<1>2. Moves
  BY <1>1 DEF Moves, Starts, HasListing, Begin
<1>3. AtInv'
  BY <1>1 DEF AtInv, Protect
<1>4. QED
  BY <1>2, <1>3, UnwrittenKeeps DEF Begin
-----------------------------------------------------------------------------
(* The broker: positions come to be and go on, and the coroutine hears of it.  *)
Filled(p) ==
  /\ pos[p].st = "free" /\ pos'[p].st \in {"hidden", "listed"} /\ pos'[p].mapex
  /\ pos'[p].key \in Setups /\ ~HasPosition(pos'[p].key) /\ pos'[p].mode = row[pos'[p].key].mode
GoesOn(p) ==
  /\ pos'[p].key = pos[p].key /\ pos'[p].mapex = pos[p].mapex /\ pos'[p].mode = pos[p].mode /\ pos'[p].vol <= pos[p].vol
  /\ pos'[p].legs = "rel" => pos[p].legs = "rel"
  /\ pos[p].st = "free" => pos'[p] = pos[p]
  /\ \/ pos'[p].st = pos[p].st
     \/ pos[p].st = "hidden" /\ pos'[p].st = "listed"
     \/ OpenAt(p) /\ pos'[p].st = "closed"
Ages == \A p \in Pids : Filled(p) \/ GoesOn(p)
Hears ==
  /\ conv'.op = conv.op /\ conv'.pc = conv.pc /\ conv'.cur = conv.cur /\ conv'.try = conv.try
  /\ conv'.todo = conv.todo /\ conv'.extra = conv.extra
  /\ conv.pc = "next" => conv'.reply = conv.reply
  /\ \/ conv'.seen = conv.seen /\ (HasListing' => HasListing)
     \/ conv.pc = "list" /\ conv'.seen = Listing /\ UNCHANGED pos
  /\ conv'.read = conv.read \/ (conv'.read = Listing /\ UNCHANGED pos)
  /\ conv.pc = "create" /\ conv'.reply = "nopid" => conv.reply = "nopid" \/ \E p \in Pids : pos'[p].key = Cur
  /\ conv.pc = "deals" /\ conv'.reply = "deals" => conv.reply = "deals" \/ pos[row[Cur].pid].st = "closed"

LEMMA ListingHonest ==
  ASSUME TypeOK
  PROVE  /\ Honest(Listing)
         /\ \A p \in Pids : Listing[p].st = "listed" <=> pos[p].st = "listed" /\ pos[p].mode = Mode
<1>1. \A p \in Pids : IF pos[p].st = "listed" /\ pos[p].mode = Mode
                      THEN Listing[p] = pos[p] ELSE Listing[p] = NoPos /\ NoPos.st = "free"
  BY DEF Listing, NoPos
<1>2. \A p \in Pids : pos[p].vol <= pos[p].vol
  BY DEF TypeOK, Position
<1>3. QED
  BY <1>1, <1>2 DEF Honest

LEMMA HearsBook ==
  ASSUME TypeOK, TypeOK', OrderInv, BookInv, Ages, Hears, UNCHANGED <<row, venue, booked>>
  PROVE  BookInv'
<1>1. \A p \in Pids : pos[p].st # "free" => GoesOn(p)
  BY DEF Ages, Filled
<1>2. \A p \in Pids : pos[p].key \in Setups => pos[p].st # "free"
  BY SetsAssumption DEF BookInv, PositionInv, NoPos
<1>3. \A k \in Setups : HasPosition(k) => \E p \in Pids : pos'[p].key = k
  BY <1>1, <1>2 DEF HasPosition, GoesOn
<1>4. \A p \in Pids : pos[p].st = "closed" => pos'[p].st = "closed"
  BY <1>1 DEF GoesOn, OpenAt
<1>5. PositionInv'
  BY DEF BookInv, PositionInv, Ages, Filled, GoesOn, OpenAt
<1>6. RowsInv'
  <2>1. ASSUME NEW k \in Setups PROVE SetupRow(k)'
    <3>1. SetupRow(k)
      BY DEF BookInv, RowsInv
    <3>2. row[k].pid \in Pids => GoesOn(row[k].pid)
      BY <1>1, <1>2, <3>1 DEF SetupRow
    <3>3. row[k].told => pos'[row[k].pid].legs # "rel" /\ pos'[row[k].pid].vol <= Lots
      <4>1. SUFFICES ASSUME row[k].told PROVE pos'[row[k].pid].legs # "rel" /\ pos'[row[k].pid].vol <= Lots
        OBVIOUS
      <4>2. row[k].pid \in Pids /\ pos[row[k].pid].legs # "rel" /\ pos[row[k].pid].vol <= Lots
        BY <3>1, <4>1 DEF SetupRow
      <4>3. pos[row[k].pid].vol \in Nat /\ pos'[row[k].pid].vol \in Nat
        BY <4>2 DEF TypeOK, Position
      <4>4. QED
        BY <3>2, <4>2, <4>3, NumbersAssumption DEF GoesOn
    <3>4. QED
      BY <1>3, <1>4, <3>1, <3>2, <3>3 DEF SetupRow, HasPosition, GoesOn
  <2>2. ASSUME NEW p \in Pids PROVE OrphanRow(p)'
    BY <1>1, <1>4 DEF BookInv, RowsInv, OrphanRow, GoesOn, OpenAt
  <2>3. QED
    BY <2>1, <2>2 DEF RowsInv
<1>7. SeenInv'
  <2> DEFINE StillHonest(l) ==
               \A p \in Pids :
                 l[p] # NoPos =>
                   /\ l[p].st = "listed" /\ pos'[p].st \in {"listed", "closed"}
                   /\ l[p].key = pos'[p].key /\ l[p].mapex = pos'[p].mapex
                   /\ pos'[p].vol <= l[p].vol /\ (pos'[p].legs = "rel" => l[p].legs = "rel")
  <2>1. ASSUME NEW l \in [Pids -> Position], Honest(l) PROVE StillHonest(l)
    <3> SUFFICES ASSUME NEW p \in Pids, l[p] # NoPos
                 PROVE  /\ l[p].st = "listed" /\ pos'[p].st \in {"listed", "closed"}
                        /\ l[p].key = pos'[p].key /\ l[p].mapex = pos'[p].mapex
                        /\ pos'[p].vol <= l[p].vol /\ (pos'[p].legs = "rel" => l[p].legs = "rel")
      OBVIOUS
    <3>1. /\ l[p].st = "listed" /\ pos[p].st \in {"listed", "closed"}
          /\ l[p].key = pos[p].key /\ l[p].mapex = pos[p].mapex
          /\ pos[p].vol <= l[p].vol /\ (pos[p].legs = "rel" => l[p].legs = "rel")
      BY <2>1 DEF Honest
    <3>2. GoesOn(p)
      BY <1>1, <3>1
    <3>3. pos[p].vol \in Nat /\ pos'[p].vol \in Nat /\ l[p].vol \in Nat
      BY DEF TypeOK, Position
    <3>4. pos'[p].vol <= l[p].vol
      BY <3>1, <3>2, <3>3 DEF GoesOn
    <3>5. QED
      BY <3>1, <3>2, <3>4 DEF GoesOn, OpenAt
  <2>2. Honest(conv.seen) /\ Honest(conv.read) /\ Honest(Listing) /\ Listing \in [Pids -> Position]
    BY ListingHonest, ListingType DEF BookInv, SeenInv
  <2>3. conv.seen \in [Pids -> Position] /\ conv.read \in [Pids -> Position]
    BY DEF TypeOK, Conv
  <2>4. conv'.seen \in {conv.seen, Listing} /\ conv'.read \in {conv.read, Listing}
    BY DEF Hears
  <2>5. StillHonest(conv'.seen) /\ StillHonest(conv'.read)
    <3> HIDE DEF StillHonest
    <3>1. QED
      BY <2>1, <2>2, <2>3, <2>4
  <2>6. QED
    BY <2>5 DEF SeenInv, Honest
<1>8. AtInv'
  <2>1. \A k : HasPosition(k) /\ k \in Setups => HasPosition(k)'
    BY <1>3 DEF HasPosition
  <2>2. conv.pc = "create" => conv.cur \in Setups
    BY DEF OrderInv, Cur
  <2>3. conv.pc = "fclose" => pos'[conv.cur].mapex
    BY DEF BookInv, AtInv, Ages, Filled, GoesOn, Cur
  <2>4. /\ conv'.pc = conv.pc /\ conv'.op = conv.op /\ conv'.cur = conv.cur /\ conv'.try = conv.try
        /\ conv'.todo = conv.todo /\ conv'.extra = conv.extra
        /\ conv.pc = "next" => conv'.reply = conv.reply
    BY DEF Hears
  <2>5. QED
    BY <1>4, <2>1, <2>2, <2>3, <2>4 DEF BookInv, AtInv, Hears, Cur, HasPosition
<1>9. LoopInv'
  BY DEF BookInv, LoopInv, AtInv, Hears, Cur
<1>10. ShownInv'
  <2>1. ASSUME NEW p \in Pids, Shown(p), GoesOn(p) PROVE Shown(p)'
    <3>1. CASE conv'.seen = conv.seen /\ (HasListing' => HasListing)
      BY <2>1, <3>1 DEF Shown, OpenAt, GoesOn, Mode
    <3>2. CASE conv'.seen = Listing /\ UNCHANGED pos
      BY <2>1, <3>2, ListingHonest DEF Shown, OpenAt, Mode
    <3>3. QED
      BY <3>1, <3>2 DEF Hears
  <2>2. ASSUME NEW k \in Setups, row[k].st = "CLOSING", row[k].late, NEW p \in Pids, pos'[p].key = k PROVE Shown(p)'
    <3>1. HasPosition(k)
      BY <2>2 DEF BookInv, RowsInv, SetupRow, Through
    <3>2. GoesOn(p)
      BY <2>2, <3>1 DEF Ages, Filled
    <3>3. QED
      BY <2>1, <2>2, <3>2 DEF GoesOn, BookInv, ShownInv
  <2>3. ASSUME NEW p \in Pids, row[p].st # "none" PROVE Shown(p)'
    <3>1. GoesOn(p)
      BY <1>1, <2>3 DEF BookInv, RowsInv, OrphanRow
    <3>2. QED
      BY <2>1, <2>3, <3>1 DEF BookInv, ShownInv
  <2>4. QED
    BY <2>2, <2>3 DEF ShownInv
<1>11. QED
  BY <1>5, <1>6, <1>7, <1>8, <1>9, <1>10 DEF BookInv

\* A fill for a setup without a position.
LEMMA FillAges ==
  ASSUME TypeOK, NEW k \in Setups, NEW p \in Pids, Fill(k, p), ~HasPosition(k)
  PROVE  Ages /\ \E q \in Pids : pos'[q].key = k
<1>1. PICK st \in {"listed", "hidden"}, vol \in {Lots, 2 * Lots} :
        pos' = [pos EXCEPT ![p] = [st |-> st, mapex |-> TRUE, mode |-> row[k].mode, key |-> k,
                             vol |-> vol, legs |-> "rel"]]
  BY DEF Fill
<1>2. Filled(p) /\ pos'[p].key = k
  BY <1>1 DEF Fill, Filled, TypeOK
<1>3. \A q \in Pids \ {p} : pos'[q] = pos[q] /\ pos[q].vol \in Nat
  BY <1>1 DEF TypeOK, Position
<1>4. \A q \in Pids \ {p} : GoesOn(q)
  BY <1>3 DEF GoesOn
<1>5. QED
  BY <1>2, <1>4 DEF Ages

\* A change of one position that is no fill.
LEMMA OneAges ==
  ASSUME TypeOK, NEW p \in Pids, NEW q \in Position, pos' = [pos EXCEPT ![p] = q],
         q.key = pos[p].key, q.mapex = pos[p].mapex, q.mode = pos[p].mode, q.vol <= pos[p].vol,
         q.legs = "rel" => pos[p].legs = "rel", OpenAt(p),
         q.st \in {pos[p].st, "closed"} \/ (pos[p].st = "hidden" /\ q.st = "listed")
  PROVE  Ages
<1>1. GoesOn(p)
  BY DEF GoesOn, OpenAt, TypeOK
<1>2. \A r \in Pids \ {p} : pos'[r] = pos[r] /\ pos[r].vol \in Nat
  BY DEF TypeOK, Position
<1>3. QED
  BY <1>1, <1>2 DEF Ages, GoesOn

LEMMA StillAges == ASSUME TypeOK, UNCHANGED pos PROVE Ages
<1>1. \A p \in Pids : pos[p].vol \in Nat
  BY DEF TypeOK, Position
<1>2. QED
  BY <1>1 DEF Ages, GoesOn

\* The answers a request can get.
LEMMA AnswerHears ==
  ASSUME TypeOK, NEW r, Answer(r), conv.pc # "next", conv.pc = "list" => r # "ok",
         conv.pc = "create" /\ r = "nopid" => \E p \in Pids : pos'[p].key = Cur,
         conv.pc = "deals" /\ r = "deals" => pos[row[Cur].pid].st = "closed"
  PROVE  Hears
<1>1. /\ conv'.op = conv.op /\ conv'.pc = conv.pc /\ conv'.cur = conv.cur /\ conv'.try = conv.try
      /\ conv'.todo = conv.todo /\ conv'.extra = conv.extra /\ conv'.seen = conv.seen /\ conv'.read = conv.read
      /\ conv'.reply = r
  BY DEF Answer, TypeOK, Conv
<1>2. QED
  BY <1>1 DEF Hears, HasListing

\* A row's position has been filled.
LEMMA RowHas == ASSUME BookInv, NEW k \in RowIds, row[k].pid \in Pids PROVE pos[row[k].pid].st # "free"
<1>1. CASE k \in Setups
  BY <1>1, SetsAssumption DEF BookInv, RowsInv, SetupRow, PositionInv, NoPos
<1>2. CASE k \in Pids
  BY <1>2, SetsAssumption DEF BookInv, RowsInv, OrphanRow
<1>3. QED
  BY <1>1, <1>2, RowIdKinds

\* The position a change is asked for.
LEMMA TargetIs ==
  ASSUME TypeOK, BookInv, conv.pc \in Amends \cup Closes
  PROVE  Target \in Pids /\ conv.pc \notin {"next", "list", "create", "deals"}
<1>1. CASE conv.pc \in Protect
  BY <1>1, InProtect DEF Protect
<1>2. CASE conv.pc \in {"half", "be"}
  BY <1>2, InChange
<1>3. CASE conv.pc = "fclose"
  BY <1>3 DEF BookInv, AtInv, Target
<1>4. QED
  BY <1>1, <1>2, <1>3 DEF Amends, Closes, Protect

LEMMA ClosedPosition ==
  ASSUME NEW p \in Position
  PROVE  /\ Closed(p) \in Position /\ Closed(p).key = p.key /\ Closed(p).mapex = p.mapex /\ Closed(p).mode = p.mode /\ Closed(p).vol <= p.vol
         /\ Closed(p).legs = "none" /\ Closed(p).st = "closed"
<1>1. /\ Closed(p) \in Position /\ Closed(p).key = p.key /\ Closed(p).mapex = p.mapex /\ Closed(p).mode = p.mode /\ Closed(p).vol = 0
      /\ Closed(p).legs = "none" /\ Closed(p).st = "closed"
  BY DEF Closed, Position
<1>2. p.vol \in Nat
  BY DEF Position
<1>3. QED
  BY <1>1, <1>2

LEMMA ChangedPosition ==
  ASSUME NEW p \in Position
  PROVE  /\ Changed(p) \in Position /\ Changed(p).key = p.key /\ Changed(p).mapex = p.mapex /\ Changed(p).mode = p.mode /\ Changed(p).vol <= p.vol
         /\ Changed(p).legs = "rel" => p.legs = "rel"
         /\ Changed(p).st \in {p.st, "closed"}
<1>1. p.vol \in Nat /\ p.vol - Half(p.vol) \in Nat /\ p.vol - Half(p.vol) <= p.vol
  BY DEF Position, Half
<1>2. CASE conv.pc \in {"amend", "be"}
  BY <1>1, <1>2 DEF Changed, Position
<1>3. CASE conv.pc = "half"
  <2> DEFINE v == p.vol - Half(p.vol)
  <2>1. Changed(p) = [p EXCEPT !.vol = v]
    BY <1>3 DEF Changed
  <2> HIDE DEF v
  <2>2. v \in Nat /\ v <= p.vol
    BY <1>1 DEF v
  <2>3. QED
    BY <2>1, <2>2 DEF Position
<1>4. CASE conv.pc \notin {"amend", "be", "half"}
  <2>1. Changed(p) = Closed(p)
    BY <1>4 DEF Changed
  <2>2. QED
    BY <2>1, ClosedPosition
<1>5. QED
  BY <1>2, <1>3, <1>4

\* The venue's step is one of these, and the coroutine hears of it.
LEMMA ServeHears == ASSUME TypeOK, OrderInv, BookInv, Serve PROVE Ages /\ Hears
<1> USE DEF Awaiting
<1>1. CASE ServeCreate
  <2>1. conv.pc = "create" /\ conv.reply = "none" /\ Cur \in Setups /\ ~HasPosition(Cur)
    BY <1>1 DEF ServeCreate, OrderInv
  <2>2. ASSUME NEW p \in Pids, Fill(Cur, p), Answer("ok") \/ Failure({"nopid", "transport"}) PROVE Ages /\ Hears
    <3>1. Ages /\ \E q \in Pids : pos'[q].key = Cur
      BY <2>1, <2>2, FillAges
    <3>2. PICK r : Answer(r)
      BY <2>2 DEF Failure
    <3>3. Hears
      BY <2>1, <3>1, <3>2, AnswerHears
    <3>4. QED
      BY <3>1, <3>3
  <2>3. ASSUME Failure({"range", "tool", "auth", "transport"}), UNCHANGED pos PROVE Ages /\ Hears
    <3>1. PICK r \in {"range", "tool", "auth", "transport"} : Answer(r)
      BY <2>3 DEF Failure
    <3>2. QED
      BY <2>1, <2>3, <3>1, AnswerHears, StillAges
  <2>4. ASSUME Failure({"transport"}), UNCHANGED pos PROVE Ages /\ Hears
    <3>1. Answer("transport")
      BY <2>4 DEF Failure
    <3>2. QED
      BY <2>1, <2>4, <3>1, AnswerHears, StillAges
  <2>5. QED
    BY <1>1, <2>2, <2>3, <2>4 DEF ServeCreate
<1>2. CASE ServeRead
  <2>1. UNCHANGED pos /\ conv.pc \notin {"next", "create", "deals"} /\ conv.reply = "none"
    BY <1>2 DEF ServeRead, Reads
  <2>2. ASSUME conv.pc = "list", conv' = [conv EXCEPT !.reply = "ok", !.seen = Listing] PROVE Hears
    BY <2>1, <2>2 DEF Hears, TypeOK, Conv
  <2>3. ASSUME conv.pc # "list", conv' = [conv EXCEPT !.reply = "ok", !.read = Listing] PROVE Hears
    BY <2>1, <2>3 DEF Hears, HasListing, TypeOK, Conv
  <2>4. ASSUME Failure({"transport"}) PROVE Hears
    <3>1. Answer("transport")
      BY <2>4 DEF Failure
    <3>2. QED
      BY <2>1, <3>1, AnswerHears
  <2>5. Hears
    BY <1>2, <2>2, <2>3, <2>4 DEF ServeRead
  <2>6. QED
    BY <2>1, <2>5, StillAges
<1>3. CASE ServeChange
  <2>1. Target \in Pids /\ conv.pc \notin {"next", "list", "create", "deals"}
    BY <1>3, TargetIs DEF ServeChange
  <2>2. PICK r : Answer(r)
    BY <1>3 DEF ServeChange, Failure
  <2>3. Hears
    BY <2>1, <2>2, AnswerHears
  <2>4. ASSUME OpenAt(Target), pos' = [pos EXCEPT ![Target] = Changed(@)] PROVE Ages
    <3> DEFINE q == Changed(pos[Target])
    <3>1. pos[Target] \in Position
      BY <2>1 DEF TypeOK
    <3>3. /\ q \in Position /\ q.key = pos[Target].key /\ q.mapex = pos[Target].mapex /\ q.mode = pos[Target].mode /\ q.vol <= pos[Target].vol
          /\ q.legs = "rel" => pos[Target].legs = "rel"
          /\ q.st \in {pos[Target].st, "closed"}
      BY <3>1, ChangedPosition
    <3>4. pos' = [pos EXCEPT ![Target] = q]
      BY <2>4
    <3> HIDE DEF q
    <3>5. QED
      BY <2>1, <2>4, <3>3, <3>4, OneAges
  <2>5. Ages
    BY <1>3, <2>4, StillAges DEF ServeChange
  <2>6. QED
    BY <2>3, <2>5
<1>4. CASE ServeDeals
  <2>1. conv.pc = "deals" /\ UNCHANGED pos
    BY <1>4 DEF ServeDeals
  <2>2. ~OpenAt(Target) => pos[row[Cur].pid].st = "closed"
    <3>1. Target = row[Cur].pid /\ row[Cur].pid \in Pids /\ Cur \in RowIds
      BY <2>1, InDeals
    <3>2. pos[row[Cur].pid].st \in {"free", "hidden", "listed", "closed"}
      BY <3>1 DEF TypeOK, Position
    <3>3. QED
      BY <3>1, <3>2, RowHas DEF OpenAt
  <2>3. PICK r : Answer(r) /\ (r = "deals" => ~OpenAt(Target))
    BY <1>4 DEF ServeDeals, Failure
  <2>4. Hears
    BY <2>1, <2>2, <2>3, AnswerHears
  <2>5. QED
    BY <2>1, <2>4, StillAges
<1>5. QED
  BY <1>1, <1>2, <1>3, <1>4 DEF Serve
-----------------------------------------------------------------------------
(* The other actors.                                                        *)
LEMMA BrokerMovesHears == ASSUME TypeOK, OrderInv, BookInv, BrokerMoves PROVE Ages /\ Hears
<1>1. UNCHANGED <<row, conv>>
  BY DEF BrokerMoves
<1>2. Hears
  BY <1>1 DEF Hears, HasListing
<1>3. ASSUME NEW k \in Setups, LateFill(k) PROVE Ages
  <2>1. ~HasPosition(k)
    BY <1>3 DEF LateFill, OrderInv
  <2>2. QED
    BY <1>3, <2>1, FillAges, StillAges DEF LateFill
<1>4. ASSUME NEW p \in Pids, BecomesListed(p) \/ PositionExits(p) \/ OwnerAmends(p) PROVE Ages
  <2>1. pos[p] \in Position /\ pos[p].vol \in Nat
    BY DEF TypeOK, Position
  <2>2. PICK q \in Position :
          /\ pos' = [pos EXCEPT ![p] = q] /\ q.key = pos[p].key /\ q.mapex = pos[p].mapex /\ q.mode = pos[p].mode /\ q.vol <= pos[p].vol
          /\ q.legs = "rel" => pos[p].legs = "rel"
          /\ q.st \in {pos[p].st, "closed"} \/ (pos[p].st = "hidden" /\ q.st = "listed")
    <3>1. CASE BecomesListed(p)
      <4> DEFINE q == [pos[p] EXCEPT !.st = "listed"]
      <4>1. q \in Position /\ q.key = pos[p].key /\ q.mapex = pos[p].mapex /\ q.mode = pos[p].mode /\ q.vol <= pos[p].vol
            /\ q.legs = pos[p].legs /\ q.st = "listed"
        BY <2>1 DEF Position
      <4>2. pos' = [pos EXCEPT ![p] = q] /\ pos[p].st = "hidden"
        BY <3>1 DEF BecomesListed
      <4> HIDE DEF q
      <4>3. QED
        BY <4>1, <4>2
    <3>2. CASE PositionExits(p)
      <4> DEFINE q == Closed(pos[p])
      <4>1. q \in Position /\ q.key = pos[p].key /\ q.mapex = pos[p].mapex /\ q.mode = pos[p].mode /\ q.vol <= pos[p].vol
            /\ q.legs = "none" /\ q.st = "closed"
        BY <2>1, ClosedPosition
      <4>2. pos' = [pos EXCEPT ![p] = q]
        BY <3>2 DEF PositionExits
      <4> HIDE DEF q
      <4>3. QED
        BY <4>1, <4>2
    <3>3. CASE OwnerAmends(p)
      <4> DEFINE q == [pos[p] EXCEPT !.legs = "owner"]
      <4>1. q \in Position /\ q.key = pos[p].key /\ q.mapex = pos[p].mapex /\ q.mode = pos[p].mode /\ q.vol <= pos[p].vol
            /\ q.legs = "owner" /\ q.st = pos[p].st
        BY <2>1 DEF Position
      <4>2. pos' = [pos EXCEPT ![p] = q]
        BY <2>1, <3>3 DEF OwnerAmends
      <4> HIDE DEF q
      <4>3. QED
        BY <4>1, <4>2
    <3>4. QED
      BY <1>4, <3>1, <3>2, <3>3
  <2>3. OpenAt(p)
    BY <1>4 DEF BecomesListed, PositionExits, OwnerAmends, OpenAt
  <2>4. QED
    BY <2>2, <2>3, OneAges
<1>5. Ages
  BY <1>3, <1>4 DEF BrokerMoves
<1>6. QED
  BY <1>2, <1>5

LEMMA TimePassesBook == ASSUME TypeOK, OrderInv, BookInv, TimePasses PROVE BookInv'
<1>1. UNCHANGED <<venue, pos, conv, booked>>
  BY DEF TimePasses
<1>2. PICK k \in RowIds : GraceEnds(k) \/ DeadlinePasses(k)
  BY DEF TimePasses
<1>3. \A j \in RowIds :
        /\ row'[j].st = row[j].st /\ row'[j].pid = row[j].pid
        /\ row'[j].manual = row[j].manual /\ row'[j].told = row[j].told
        /\ row'[j].late => row[j].late \/ (j = k /\ DeadlinePasses(k))
  <2>1. row[k] \in Row
    BY DEF TypeOK
  <2>2. CASE GraceEnds(k)
    BY <2>1, <2>2 DEF GraceEnds, SetRow, TypeOK, Row
  <2>3. CASE DeadlinePasses(k)
    BY <2>1, <2>3 DEF DeadlinePasses, SetRow, TypeOK, Row
  <2>4. QED
    BY <1>2, <2>2, <2>3
<1>4. PositionInv' /\ SeenInv'
  BY <1>1 DEF BookInv, PositionInv, SeenInv, Honest
<1>5. RowsInv'
  <2>1. ASSUME NEW j \in Setups PROVE SetupRow(j)'
    BY <1>1, <1>3, RowIdKinds DEF BookInv, RowsInv, SetupRow, HasPosition
  <2>2. ASSUME NEW p \in Pids PROVE OrphanRow(p)'
    BY <1>1, <1>3, RowIdKinds DEF BookInv, RowsInv, OrphanRow
  <2>3. QED
    BY <2>1, <2>2 DEF RowsInv
<1>6. Cur \in RowIds => row'[Cur].st = row[Cur].st /\ row'[Cur].pid = row[Cur].pid /\ row'[Cur].manual = row[Cur].manual
  BY <1>3
<1>7. AtInv'
  <2>1. conv.pc = "create" => Cur \in Setups
    BY DEF OrderInv
  <2>2. AtInv
    BY DEF BookInv
  <2>3. UNCHANGED <<conv, pos, booked, Cur>>
    BY <1>1 DEF Cur
  <2>4. HasPosition(Cur)' <=> HasPosition(Cur)
    BY <2>3 DEF HasPosition
  <2>5. QED
    BY <1>6, <2>1, <2>2, <2>3, <2>4, RowIdKinds DEF AtInv, Protect
<1>8. LoopInv'
  BY <1>1, <1>3, RowIdKinds DEF BookInv, LoopInv, Cur, TypeOK, Conv
<1>9. ShownInv'
  <2>1. ASSUME NEW p \in Pids PROVE Shown(p)' <=> Shown(p)
    BY <1>1 DEF Shown, OpenAt, HasListing, Mode
  <2>2. ASSUME DeadlinePasses(k), NEW p \in Pids, pos[p].key = k PROVE Shown(p)
    BY <2>2 DEF DeadlinePasses, Missed, Shown, HasListing
  <2>3. ASSUME NEW j \in Setups, row'[j].st = "CLOSING", row'[j].late, NEW p \in Pids, pos'[p].key = j PROVE Shown(p)'
    BY <1>1, <1>3, <2>1, <2>2, <2>3, RowIdKinds DEF BookInv, ShownInv
  <2>4. ASSUME NEW p \in Pids, row'[p].st # "none" PROVE Shown(p)'
    BY <1>3, <2>1, <2>4, RowIdKinds DEF BookInv, ShownInv
  <2>5. QED
    BY <2>3, <2>4 DEF ShownInv
<1>10. QED
  BY <1>4, <1>5, <1>7, <1>8, <1>9 DEF BookInv

LEMMA StandsBook == ASSUME BookInv, UNCHANGED <<row, pos, conv, booked>>, HasListing => UNCHANGED venue PROVE BookInv'
<1>1. PositionInv' /\ SeenInv' /\ RowsInv'
  BY DEF BookInv, PositionInv, SeenInv, Honest, RowsInv, SetupRow, OrphanRow, HasPosition
<1>2. AtInv' /\ LoopInv'
  BY DEF BookInv, AtInv, LoopInv, HasPosition, Cur
<1>3. ShownInv'
  BY DEF BookInv, ShownInv, Shown, OpenAt, HasListing, Mode
<1>4. QED
  BY <1>1, <1>2, <1>3 DEF BookInv

\* A restart forgets the conversation; what the book relies on does not need it.
LEMMA CrashBook == ASSUME TypeOK, BookInv, Crash, UNCHANGED <<row, kill, pos, booked>> PROVE BookInv'
<1>1. conv' = Idle
  BY DEF Crash
<1>2. Moves
  BY <1>1 DEF Moves, Starts, HasListing, Idle
<1>3. AtInv'
  BY <1>1, AtRest DEF Idle
<1>4. QED
  BY <1>2, <1>3, UnwrittenKeeps
-----------------------------------------------------------------------------
(* The venue: what is read of one venue is used on that venue only.         *)
LEMMA InitVenue == Init => VenueInv
<1> SUFFICES ASSUME Init PROVE VenueInv
  OBVIOUS
<1>1. \A k \in RowIds : row[k].mode = "none"
  BY DEF Init, NoRow
<1>2. \A p \in Pids : pos[p].key = None
  BY DEF Init, NoPos
<1>3. conv.seen = NothingSeen /\ conv.todo = {} /\ conv.pc = "idle" /\ conv.op = "none"
  BY DEF Init, Idle
<1>4. QED
  BY <1>1, <1>2, <1>3, RowIdKinds, SetsAssumption DEF VenueInv, NothingSeen, NoPos, AtVenue, AtRow, Protect, Rests

\* A position is filled at its row's venue and stays there.
LEMMA HearsVenue ==
  ASSUME TypeOK, BookInv, VenueInv, Ages, Hears, UNCHANGED <<row, venue>>
  PROVE  VenueInv'
<1>1. \A p \in Pids : pos[p].st # "free" => GoesOn(p) /\ pos'[p].mode = pos[p].mode /\ pos'[p].st # "free"
  BY DEF Ages, Filled, GoesOn, OpenAt
<1>2. Mode' = Mode
  BY DEF Mode
<1>3. \A p \in Pids : pos'[p].key \in Setups => pos'[p].mode = row[pos'[p].key].mode
  BY DEF Ages, Filled, GoesOn, VenueInv
<1>4. \A p \in Pids : row[p].mode # "none" => pos'[p].mode = row[p].mode /\ pos'[p].st # "free"
  BY <1>1 DEF VenueInv
<1>5. \A p \in Pids : conv'.seen[p].st = "listed" => pos'[p].mode = Mode
  <2>1. CASE conv'.seen = conv.seen
    <3>1. \A p \in Pids : conv.seen[p].st = "listed" => pos[p].st # "free" /\ pos[p].mode = Mode
      BY DEF BookInv, SeenInv, Honest, NoPos, VenueInv
    <3>2. QED
      BY <1>1, <2>1, <3>1
  <2>2. CASE conv'.seen = Listing /\ UNCHANGED pos
    BY <2>2, ListingHonest
  <2>3. QED
    BY <2>1, <2>2 DEF Hears
<1>6. AtVenue'
  <2>1. conv'.pc = conv.pc /\ conv'.cur = conv.cur
    BY DEF Hears
  <2>2. conv.pc = "fclose" => Cur \in Pids /\ pos[Cur].st # "free"
    BY DEF BookInv, AtInv, PositionInv, NoPos
  <2>3. QED
    BY <1>1, <1>2, <2>1, <2>2 DEF VenueInv, AtVenue, Cur
<1>7. conv'.todo = conv.todo /\ Rests'
  BY DEF Hears, VenueInv, Rests
<1>8. QED
  BY <1>2, <1>3, <1>4, <1>5, <1>6, <1>7 DEF VenueInv

\* No row changes its venue; an orphan's is the one it was listed at.
ModesKept == \A k \in RowIds : row'[k].mode = row[k].mode
Orphaned(p) ==
  /\ p \in conv.extra /\ row'[p].mode = Mode
  /\ \A k \in RowIds \ {p} : row'[k].mode = row[k].mode

LEMMA ModeKept ==
  ASSUME TypeOK, NEW k, NEW r, SetRow(k, r), k \in RowIds => r.mode = row[k].mode
  PROVE  ModesKept
BY DEF ModesKept, SetRow, TypeOK

LEMMA ConverseModes ==
  ASSUME TypeOK, Converse
  PROVE  ModesKept \/ \E p \in Pids : Orphaned(p)
<1>1. UNCHANGED row => ModesKept
  BY DEF ModesKept
<1>2. ASSUME NEW k \in RowIds
      PROVE  /\ \A p : Adopted(k, p).mode = row[k].mode
             /\ Failed(k).mode = row[k].mode
             /\ [row[k] EXCEPT !.fresh = TRUE].mode = row[k].mode
             /\ [row[k] EXCEPT !.told = TRUE].mode = row[k].mode
             /\ [row[k] EXCEPT !.manual = TRUE].mode = row[k].mode
             /\ [row[k] EXCEPT !.be = TRUE, !.st = "BE", !.fresh = TRUE].mode = row[k].mode
             /\ \A late : [row[k] EXCEPT !.st = "CLOSING", !.late = late].mode = row[k].mode
             /\ [row[k] EXCEPT !.st = "CLOSED", !.late = FALSE].mode = row[k].mode
  <2>1. row[k] \in Row
    BY DEF TypeOK
  <2>2. QED
    BY <2>1 DEF Row, Adopted, Failed
<1>3. CASE Created \/ Polled \/ AmendSent \/ Verified \/ ProtectClosed \/ DealsRead \/ BreakevenSet
  <2>1. CASE Created \/ Polled
    <3>1. \/ UNCHANGED row
          \/ \E p : SetRow(Cur, Adopted(Cur, p))
          \/ SetRow(Cur, Failed(Cur))
      BY <2>1 DEF Created, Polled
    <3>2. QED
      BY <1>1, <1>2, <3>1, ModeKept
  <2>2. CASE AmendSent \/ Verified \/ ProtectClosed
    <3>1. \/ UNCHANGED row
          \/ SetRow(Cur, [row[Cur] EXCEPT !.fresh = TRUE])
          \/ SetRow(Cur, [row[Cur] EXCEPT !.told = TRUE])
          \/ SetRow(Cur, [row[Cur] EXCEPT !.st = "CLOSING", !.late = FALSE])
      BY <2>2 DEF AmendSent, Verified, ProtectClosed
    <3>2. QED
      BY <1>1, <1>2, <3>1, ModeKept
  <2>3. CASE DealsRead \/ BreakevenSet
    <3>1. \/ UNCHANGED row
          \/ SetRow(Cur, [row[Cur] EXCEPT !.be = TRUE, !.st = "BE", !.fresh = TRUE])
          \/ SetRow(Cur, [row[Cur] EXCEPT !.st = "CLOSED", !.late = FALSE])
      BY <2>3 DEF DealsRead, BreakevenSet
    <3>2. QED
      BY <1>1, <1>2, <3>1, ModeKept
  <2>4. QED
    BY <1>3, <2>1, <2>2, <2>3
<1>4. ASSUME NEW k \in RowIds, ManageRow(k) \/ ReconcileRow(k) PROVE ModesKept
  <2>1. /\ \A p : Adopted(k, p).mode = row[k].mode
        /\ Failed(k).mode = row[k].mode
        /\ [row[k] EXCEPT !.manual = TRUE].mode = row[k].mode
        /\ \A late : [row[k] EXCEPT !.st = "CLOSING", !.late = late].mode = row[k].mode
    BY <1>2
  <2>2. PICK r : (SetRow(k, r) /\ r.mode = row[k].mode) \/ UNCHANGED row
    BY <1>4, <2>1 DEF ManageRow, ReconcileRow, HandleClosed
  <2>3. QED
    BY <1>1, <2>2, ModeKept
<1>5. ASSUME NEW p \in Pids, ReconcilePosition(p) PROVE ModesKept \/ Orphaned(p)
  <2> DEFINE key == conv.seen[p].key
  <2>1. CASE SetRow(key, Adopted(key, p))
    BY <1>2, <2>1, ModeKept
  <2>2. CASE SetRow(p, [NoRow EXCEPT !.st = "OPEN", !.pid = p, !.mode = Mode, !.manual = TRUE])
    <3>1. p \in conv.extra
      BY <1>5 DEF ReconcilePosition
    <3>2. QED
      BY <2>2, <3>1, RowIdKinds DEF Orphaned, SetRow, TypeOK, NoRow
  <2>3. QED
    BY <1>1, <1>5, <2>1, <2>2 DEF ReconcilePosition
<1>6. QED
  BY <1>1, <1>3, <1>4, <1>5 DEF Converse, FirstRead, Listed, HalfClosed, FlatClosed, EndLoop, FlatPosition

\* Where the coroutine can be next: at the row it is at, one its loop has left, or one
\* of a listed position.
Goes ==
  /\ conv'.seen \in {conv.seen, NothingSeen}
  /\ conv'.todo \subseteq conv.todo \cup Mine
  /\ conv'.pc \in AtRow =>
       \/ conv.pc \in AtRow /\ conv'.cur = conv.cur
       \/ conv'.cur \in conv.todo
       \/ \E p \in conv.extra : conv'.cur = conv.seen[p].key /\ conv'.cur \in Setups
  /\ conv'.pc = "fclose" => conv'.cur \in conv.extra
  /\ conv'.pc = "idle" => conv' = Idle

LEMMA StepGoes ==
  ASSUME TypeOK, NEW label, NEW n, Step(label, n), conv.pc \in AtRow \/ label \notin AtRow, label \notin {"fclose", "idle"}
  PROVE  Goes
BY DEF Step, TypeOK, Conv, Goes

LEMMA LeaveGoes == ASSUME TypeOK, Continue \/ Abort PROVE Goes
<1>1. CASE conv' = Idle
  BY <1>1 DEF Goes, Idle, AtRow, Protect
<1>2. CASE conv' # Idle
  <2>1. conv'.pc = "next" /\ conv'.seen = conv.seen /\ conv'.todo = conv.todo
    BY <1>2 DEF Continue, Abort, TypeOK, Conv
  <2>2. QED
    BY <2>1 DEF Goes, AtRow, Protect
<1>3. QED
  BY <1>1, <1>2

LEMMA SkipGoes ==
  ASSUME TypeOK, conv.pc = "next", NEW rest \in SUBSET conv.todo, NEW extra, Skip(rest, extra)
  PROVE  Goes
BY DEF Skip, TypeOK, Conv, Goes, AtRow, Protect

LEMMA StepForGoes ==
  ASSUME TypeOK, NEW label, NEW k, NEW rest \in SUBSET conv.todo, NEW extra, StepFor(label, k, rest, extra),
         label \in AtRow => k \in conv.todo \/ \E p \in conv.extra : k = conv.seen[p].key /\ k \in Setups,
         label = "fclose" => k \in conv.extra, label # "idle"
  PROVE  Goes
BY DEF StepFor, TypeOK, Conv, Goes

LEMMA ConverseGoes == ASSUME TypeOK, Converse PROVE Goes
<1> USE DEF Answered
<1>0. /\ {"create", "poll", "pread", "amend", "verify", "pclose", "half", "be"} = AtRow
      /\ "trip" \notin AtRow /\ "record" \notin AtRow /\ "fclose" \notin AtRow /\ "next" \notin AtRow /\ "deals" \notin AtRow
  BY DEF AtRow, Protect
<1>1. CASE Created \/ Polled \/ FirstRead \/ AmendSent \/ Verified \/ ProtectClosed
  <2>1. PICK label, n : (Step(label, n) /\ label \notin {"fclose", "idle"}) \/ Continue \/ Abort
    BY <1>1 DEF Created, Polled, FirstRead, AmendSent, Verified, ProtectClosed
  <2>2. conv.pc \in AtRow
    BY <1>0, <1>1 DEF Created, Polled, FirstRead, AmendSent, Verified, ProtectClosed
  <2>3. QED
    BY <2>1, <2>2, StepGoes, LeaveGoes
<1>2. CASE HalfClosed \/ BreakevenSet \/ FlatClosed
  <2>1. (Step("be", 0) /\ conv.pc \in AtRow) \/ Continue \/ Abort
    BY <1>0, <1>2 DEF HalfClosed, BreakevenSet, FlatClosed
  <2>2. QED
    BY <2>1, StepGoes, LeaveGoes
<1>3. CASE DealsRead \/ EndLoop
  <2>1. Step("record", 0) \/ Continue \/ Abort
    BY <1>3 DEF DealsRead, EndLoop, Abort
  <2>2. QED
    BY <1>0, <2>1, StepGoes, LeaveGoes
<1>4. CASE Listed
  <2>1. CASE Abort
    BY <2>1, LeaveGoes
  <2>2. CASE ~Abort
    <3> DEFINE todo == IF conv.op = "flat" THEN {} ELSE Mine
               extra == CASE conv.op = "manage" -> {}
                          [] conv.op = "flat" -> Mapex
                          [] OTHER -> Mapex \ UNION {Matching(k) : k \in Mine}
    <3>1. conv' = [conv EXCEPT !.pc = "next", !.reply = "none", !.todo = todo, !.extra = extra]
      BY <1>4, <2>2 DEF Listed
    <3>2. todo \subseteq Mine
      OBVIOUS
    <3> HIDE DEF todo, extra
    <3>3. conv'.pc = "next" /\ conv'.seen = conv.seen /\ conv'.todo = todo
      BY <3>1 DEF TypeOK, Conv
    <3>4. QED
      BY <1>0, <3>2, <3>3 DEF Goes
  <2>3. QED
    BY <2>1, <2>2
<1>5. ASSUME NEW k \in RowIds, ManageRow(k) \/ ReconcileRow(k) PROVE Goes
  <2> DEFINE rest == conv.todo \ {k}
  <2>1. conv.pc = "next" /\ k \in conv.todo /\ rest \in SUBSET conv.todo
    BY <1>5 DEF ManageRow, ReconcileRow, Looping
  <2> HIDE DEF rest
  <2>2. ASSUME HandleClosed(k) PROVE Goes
    <3>1. CASE Abort
      BY <3>1, LeaveGoes
    <3>2. CASE ~Abort
      <4>1. conv'.pc = "deals" /\ conv'.seen = conv.seen /\ conv'.todo = rest
        BY <2>2, <3>2 DEF HandleClosed, TypeOK, Conv, rest
      <4>2. QED
        BY <1>0, <2>1, <4>1 DEF Goes
    <3>3. QED
      BY <3>1, <3>2
  <2>3. PICK label, extra : \/ Skip(rest, extra)
                            \/ StepFor(label, k, rest, extra) /\ label \notin {"fclose", "idle"}
                            \/ HandleClosed(k)
    BY <1>5 DEF ManageRow, ReconcileRow, rest
  <2>4. QED
    BY <2>1, <2>2, <2>3, SkipGoes, StepForGoes
<1>6. ASSUME NEW p \in Pids, ReconcilePosition(p) \/ FlatPosition(p) PROVE Goes
  <2> DEFINE key == conv.seen[p].key
  <2>1. conv.pc = "next" /\ p \in conv.extra /\ {} \in SUBSET conv.todo
    BY <1>6 DEF ReconcilePosition, FlatPosition, Looping
  <2>2. PICK extra : \/ Skip({}, extra)
                     \/ key \in Setups /\ StepFor("pread", key, {}, extra)
                     \/ StepFor("fclose", p, {}, extra)
    BY <1>6 DEF ReconcilePosition, FlatPosition
  <2>3. QED
    BY <1>0, <2>1, <2>2, SkipGoes, StepForGoes
<1>7. QED
  BY <1>1, <1>2, <1>3, <1>4, <1>5, <1>6 DEF Converse

LEMMA AdvanceVenue == ASSUME TypeOK, OrderInv, BookInv, VenueInv, Advance PROVE VenueInv'
<1>1. UNCHANGED <<venue, pos>> /\ Mode' = Mode
  BY DEF Advance, Mode
<1>2. Goes
  <2>1. CASE Converse
    BY <2>1, ConverseGoes
  <2>2. CASE Trip \/ Record
    BY <2>2, LeaveGoes DEF Trip, Record
  <2>3. QED
    BY <2>1, <2>2 DEF Advance
<1>3. ModesKept \/ \E p \in Pids : Orphaned(p)
  <2>1. UNCHANGED row => ModesKept
    BY DEF ModesKept
  <2>2. QED
    BY <2>1, ConverseModes DEF Advance, Trip, Record
<1>4. \A p \in conv.extra : p \in Pids /\ pos[p].mode = Mode /\ pos[p].st # "free" /\ conv.seen[p].key = pos[p].key
  BY SeenKey DEF TypeOK, Conv, BookInv, LoopInv, VenueInv
<1>5. \A k \in RowIds : row'[k].mode = row[k].mode \/ (k \in conv.extra /\ row'[k].mode = Mode)
  BY <1>3 DEF ModesKept, Orphaned
<1>6. \A k \in Setups : row'[k].mode = row[k].mode
  <2>1. \A k \in Setups : k \notin conv.extra
    BY <1>4, RowIdKinds
  <2>2. QED
    BY <1>5, <2>1, RowIdKinds
<1>7. \A p \in Pids : pos'[p].key \in Setups => pos'[p].mode = row'[pos'[p].key].mode
  BY <1>1, <1>6 DEF VenueInv
<1>8. \A p \in Pids : row'[p].mode # "none" => pos'[p].mode = row'[p].mode /\ pos'[p].st # "free"
  BY <1>1, <1>4, <1>5, RowIdKinds DEF VenueInv
<1>9. \A p \in Pids : conv'.seen[p].st = "listed" => pos'[p].mode = Mode
  BY <1>1, <1>2 DEF Goes, VenueInv, NothingSeen, NoPos
<1>10. \A k \in RowIds : row[k].mode = Mode => row'[k].mode = Mode
  BY <1>5
<1>11. \A k \in conv.todo \cup Mine : k \in RowIds /\ row[k].mode = Mode
  BY DEF VenueInv, TypeOK, Conv, Mine, OpenRows
<1>12. \A k \in conv'.todo : row'[k].mode = Mode
  BY <1>2, <1>10, <1>11 DEF Goes
<1>13. AtVenue'
  <2>1. ASSUME conv'.pc \in AtRow PROVE row'[conv'.cur].mode = Mode
    <3>1. conv'.cur \in RowIds
      <4>1. conv.pc \in AtRow => Cur \in RowIds
        BY InProtect, InChange, RowIdKinds DEF AtRow, BookInv, AtInv, OrderInv
      <4>2. QED
        BY <1>2, <2>1, <4>1, <1>11, RowIdKinds DEF Goes, Cur
    <3>2. row[conv'.cur].mode = Mode
      <4>1. CASE conv.pc \in AtRow /\ conv'.cur = conv.cur
        BY <4>1 DEF VenueInv, AtVenue, Cur
      <4>2. CASE conv'.cur \in conv.todo
        BY <4>2, <1>11
      <4>3. ASSUME NEW p \in conv.extra, conv'.cur = conv.seen[p].key, conv'.cur \in Setups PROVE row[conv'.cur].mode = Mode
        BY <4>3, <1>4 DEF VenueInv
      <4>4. QED
        BY <1>2, <2>1, <4>1, <4>2, <4>3 DEF Goes
    <3>3. QED
      BY <1>10, <3>1, <3>2
  <2>2. conv'.pc = "fclose" => pos'[conv'.cur].mode = Mode
    BY <1>1, <1>2, <1>4 DEF Goes
  <2>3. QED
    BY <1>1, <2>1, <2>2 DEF AtVenue, Cur
<1>14. Rests'
  BY <1>2 DEF Goes, Rests, Idle
<1>15. QED
  BY <1>1, <1>7, <1>8, <1>9, <1>12, <1>13, <1>14 DEF VenueInv

LEMMA ExecuteVenue == ASSUME TypeOK, OrderInv, VenueInv, NEW k \in Setups, Execute(k) PROVE VenueInv'
<1>1. /\ conv'.pc = "create" /\ conv'.cur = k /\ conv'.todo = {} /\ conv'.seen = NothingSeen
      /\ UNCHANGED <<venue, pos>> /\ Mode' = Mode
  BY DEF Execute, Idle, Mode
<1>2. k \in RowIds /\ ~HasPosition(k)
  BY RowIdKinds DEF Execute, CheckEntry, Unclaimed, OrderInv
<1>3. row'[k].mode = Mode /\ \A j \in RowIds \ {k} : row'[j] = row[j]
  BY <1>2 DEF Execute, SetRow, TypeOK, NoRow
<1>4. \A p \in Pids : pos[p].key # k
  BY <1>2 DEF HasPosition
<1>5. \A p \in Pids : pos'[p].key \in Setups => pos'[p].mode = row'[pos'[p].key].mode
  BY <1>1, <1>3, <1>4, RowIdKinds DEF VenueInv
<1>6. \A p \in Pids : row'[p] = row[p]
  BY <1>3, RowIdKinds
<1>7. AtVenue' /\ Rests'
  BY <1>1, <1>3 DEF AtVenue, AtRow, Cur, Rests
<1>8. QED
  BY <1>1, <1>5, <1>6, <1>7 DEF VenueInv, NothingSeen, NoPos

\* The venue may change only while the coroutine is at no row and has seen nothing.
LEMMA RestVenue ==
  ASSUME VenueInv, UNCHANGED pos, \A k \in RowIds : row'[k].mode = row[k].mode,
         conv'.pc \notin AtRow \cup {"fclose"}, conv'.seen = NothingSeen, conv'.todo = {},
         conv'.pc = "idle" => conv'.op = "none"
  PROVE  VenueInv'
<1>1. \A p \in Pids : pos'[p].key \in Setups => pos'[p].mode = row'[pos'[p].key].mode
  BY RowIdKinds DEF VenueInv
<1>2. \A p \in Pids : row'[p].mode # "none" => pos'[p].mode = row'[p].mode /\ pos'[p].st # "free"
  BY RowIdKinds DEF VenueInv
<1>3. AtVenue' /\ Rests'
  BY DEF AtVenue, Rests
<1>4. QED
  BY <1>1, <1>2, <1>3 DEF VenueInv, NothingSeen, NoPos

LEMMA StandsVenue ==
  ASSUME TypeOK, OrderInv, BookInv, VenueInv, UNCHANGED <<venue, conv, pos>>,
         \A k \in RowIds : row'[k].mode = row[k].mode
  PROVE  VenueInv'
<1>1. Mode' = Mode /\ Cur' = Cur
  BY DEF Mode, Cur
<1>2. \A p \in Pids : pos'[p].key \in Setups => pos'[p].mode = row'[pos'[p].key].mode
  BY RowIdKinds DEF VenueInv
<1>3. \A p \in Pids : row'[p].mode # "none" => pos'[p].mode = row'[p].mode /\ pos'[p].st # "free"
  BY RowIdKinds DEF VenueInv
<1>4. conv.pc \in AtRow => Cur \in RowIds
  BY InProtect, InChange, RowIdKinds DEF AtRow, BookInv, AtInv, OrderInv
<1>5. \A k \in conv'.todo : row'[k].mode = Mode
  BY DEF VenueInv, TypeOK, Conv
<1>6. AtVenue' /\ Rests'
  BY <1>1, <1>4 DEF VenueInv, AtVenue, Rests
<1>7. QED
  BY <1>1, <1>2, <1>3, <1>5, <1>6 DEF VenueInv

LEMMA EnvVenue == ASSUME VenueInv, ApplyEnv PROVE VenueInv' /\ ~HasListing
<1>1. UNCHANGED <<row, conv, pos>> /\ conv.pc = "idle" /\ Rests
  BY DEF ApplyEnv, VenueInv
<1>2. QED
  BY <1>1, RestVenue DEF Rests, AtRow, Protect, HasListing
-----------------------------------------------------------------------------
(* The theorems.                                                            *)
AllInv == Inv /\ BookInv /\ VenueInv

LEMMA AllStep == AllInv /\ [Next]_vars => AllInv'
<1> SUFFICES ASSUME AllInv, [Next]_vars PROVE AllInv'
  OBVIOUS
<1>1. TypeOK /\ OrderInv /\ BookInv /\ VenueInv
  BY DEF AllInv, Inv
<1>2. Inv' /\ TypeOK' /\ OrderInv'
  BY InvStep DEF AllInv, Inv
<1>3. ASSUME NEW k \in Setups, Execute(k) PROVE BookInv' /\ VenueInv'
  BY <1>1, <1>3, ExecuteBook, ExecuteVenue
<1>4. ASSUME NEW op \in {"manage", "reconcile", "flat"}, Begin(op) PROVE BookInv' /\ VenueInv'
  <2>1. VenueInv'
    BY <1>1, <1>4, RestVenue DEF Begin, Idle, AtRow, Protect
  <2>2. QED
    BY <1>1, <1>4, <2>1, BeginBook
<1>5. CASE Serve
  <2>1. Ages /\ Hears /\ UNCHANGED <<row, venue, booked>>
    BY <1>1, <1>5, ServeHears DEF Serve
  <2>2. QED
    BY <1>1, <1>2, <2>1, HearsBook, HearsVenue DEF AllInv
<1>6. CASE Advance
  BY <1>1, <1>2, <1>6, AdvanceBook, AdvanceVenue DEF AllInv
<1>7. CASE BrokerMoves
  <2>1. Ages /\ Hears /\ UNCHANGED <<row, venue, booked>>
    BY <1>1, <1>7, BrokerMovesHears DEF BrokerMoves
  <2>2. QED
    BY <1>1, <1>2, <2>1, HearsBook, HearsVenue DEF AllInv
<1>8. CASE TimePasses
  <2>1. \A k \in RowIds : row'[k].mode = row[k].mode
    <3>1. ASSUME NEW k \in RowIds PROVE /\ [row[k] EXCEPT !.fresh = FALSE].mode = row[k].mode
                                        /\ [row[k] EXCEPT !.late = TRUE].mode = row[k].mode
      <4>1. row[k] \in Row
        BY <1>1 DEF TypeOK
      <4>2. QED
        BY <4>1 DEF Row
    <3>2. QED
      BY <1>1, <1>8, <3>1 DEF TimePasses, GraceEnds, DeadlinePasses, SetRow, TypeOK
  <2>2. VenueInv'
    BY <1>1, <1>8, <2>1, StandsVenue DEF TimePasses
  <2>3. QED
    BY <1>1, <1>2, <1>8, <2>2, TimePassesBook DEF AllInv
<1>9. CASE (Stop \/ Resume) /\ UNCHANGED <<row, venue, pos, inflight, conv, booked, crashes>>
  BY <1>1, <1>2, <1>9, StandsBook, StandsVenue DEF AllInv
<1>10. CASE Crash /\ UNCHANGED <<row, kill, pos, booked>>
  <2>1. VenueInv'
    BY <1>1, <1>10, RestVenue DEF Crash, Idle, AtRow, Protect
  <2>2. QED
    BY <1>1, <1>2, <1>10, <2>1, CrashBook DEF AllInv
<1>11. CASE ApplyEnv
  <2>1. VenueInv' /\ ~HasListing
    BY <1>1, <1>11, EnvVenue
  <2>2. QED
    BY <1>1, <1>2, <1>11, <2>1, StandsBook DEF ApplyEnv, AllInv
<1>12. CASE UNCHANGED vars
  BY <1>1, <1>2, <1>12, StandsBook, StandsVenue DEF vars, AllInv
<1>13. QED
  BY <1>2, <1>3, <1>4, <1>5, <1>6, <1>7, <1>8, <1>9, <1>10, <1>11, <1>12 DEF AllInv, Next, Environment

LEMMA AllHolds == Spec => []AllInv
<1>1. Init => AllInv
  BY InitType, OrderInit, InitBook, InitVenue DEF AllInv, Inv
<1>2. QED
  BY <1>1, AllStep, PTL DEF Spec

LEMMA AllGives == AllInv => OneRowPerPosition /\ ClosedMeansGone /\ EntryToldIsProtected /\ BookedOnce
BY BookGives DEF AllInv, Inv

\* One exit is never booked through two rows: whatever adoption by comment, late fills,
\* orphans, restarts and the owner do, no position is the position of two rows.
THEOREM OneRowHolds == Spec => []OneRowPerPosition
BY AllHolds, AllGives, PTL

\* A row is CLOSED only when the broker has nothing left of its position: a listing that
\* misses it, a restart, or deals that are late never close the book on a live position.
THEOREM ClosedHolds == Spec => []ClosedMeansGone
BY AllHolds, AllGives, PTL

\* No entry is told to the owner whose position still has the legs of the order alone, or
\* more than the planned volume, whatever happens to the position afterwards.
THEOREM ToldHolds == Spec => []EntryToldIsProtected
BY AllHolds, AllGives, PTL

\* A trade's result enters the loss counters at most once, through retries of the deals,
\* exceptions between the two transactions and restarts.
THEOREM BookedHolds == Spec => []BookedOnce
BY AllHolds, AllGives, PTL
-----------------------------------------------------------------------------
(* What a step may never do to a position.                                  *)

\* A fill leaves every position alone that is at the broker already.
LEMMA FillSpares ==
  ASSUME TypeOK, NEW k, NEW p \in Pids, Fill(k, p), NEW q \in Pids, OpenAt(q)
  PROVE  pos'[q] = pos[q]
BY DEF Fill, OpenAt, TypeOK

\* The bot's changes reach MAPEX positions of the venue it is on only, and other than
\* by closing it none that a row holds as the owner's.
LEMMA TargetMay ==
  ASSUME AllInv, conv.pc \in Amends \cup Closes
  PROVE  /\ Target \in Pids /\ pos[Target].mapex /\ pos[Target].mode = Mode
         /\ conv.pc \in {"amend", "be", "half"} => \A k \in RowIds : row[k].pid = Target => ~row[k].manual
<1>1. TypeOK /\ BookInv /\ OneRowPerPosition /\ VenueInv
  BY AllGives DEF AllInv, Inv
<1>2. CASE conv.pc \in Protect \cup {"half", "be"}
  <2>1. Cur \in Setups /\ Cur \in RowIds /\ Target = row[Cur].pid /\ row[Cur].pid \in Pids /\ ~row[Cur].manual
    BY <1>1, <1>2, InProtect, InChange
  <2>2. pos[Target].mapex /\ pos[Target].key = Cur
    BY <1>1, <2>1 DEF BookInv, PositionInv, RowsInv, SetupRow
  <2>3. pos[Target].mode = Mode
    BY <1>1, <1>2, <2>1, <2>2 DEF VenueInv, AtVenue, AtRow
  <2>4. QED
    BY <1>1, <2>1, <2>2, <2>3 DEF OneRowPerPosition
<1>3. CASE conv.pc = "fclose"
  BY <1>1, <1>3 DEF BookInv, AtInv, VenueInv, AtVenue, Target
<1>4. QED
  BY <1>2, <1>3 DEF Amends, Closes, Protect

\* A step changes the broker's positions by a fill, by the coroutine's request, or
\* without the coroutine.
LEMMA WhoMoves ==
  ASSUME AllInv, [Next]_vars, NEW q \in Pids, OpenAt(q)
  PROVE  \/ pos'[q] = pos[q]
         \/ conv.pc \in Amends \cup Closes /\ q = Target /\ pos'[q] = Changed(pos[q])
         \/ UNCHANGED conv /\ (BecomesListed(q) \/ PositionExits(q) \/ OwnerAmends(q))
<1>1. TypeOK /\ BookInv
  BY DEF AllInv, Inv
<1>2. CASE ServeCreate
  BY <1>1, <1>2, FillSpares DEF ServeCreate
<1>3. CASE ServeChange
  BY <1>1, <1>3, TargetIs DEF ServeChange, Awaiting, TypeOK
<1>4. CASE BrokerMoves
  <2>1. ASSUME NEW k \in Setups, LateFill(k) PROVE pos'[q] = pos[q]
    BY <1>1, <2>1, FillSpares DEF LateFill
  <2>2. ASSUME NEW p \in Pids, p # q, BecomesListed(p) \/ PositionExits(p) \/ OwnerAmends(p) PROVE pos'[q] = pos[q]
    BY <1>1, <2>2 DEF BecomesListed, PositionExits, OwnerAmends, TypeOK
  <2>3. QED
    BY <1>4, <2>1, <2>2 DEF BrokerMoves
<1>5. CASE UNCHANGED pos
  BY <1>5
<1>6. QED
  BY <1>2, <1>3, <1>4, <1>5 DEF Next, Environment, Execute, Begin, Serve, ServeRead, ServeDeals, Advance, TimePasses, ApplyEnv, vars

LEMMA OwnerStep ==
  ASSUME AllInv, [Next]_vars, NEW k \in RowIds, row[k].manual, row[k].pid \in Pids, OpenAt(row[k].pid)
  PROVE  \/ pos'[row[k].pid].st = "closed"
         \/ /\ pos'[row[k].pid].legs \in {pos[row[k].pid].legs, "owner"}
            /\ pos'[row[k].pid].vol = pos[row[k].pid].vol
<1> DEFINE q == row[k].pid
<1>1. q \in Pids /\ pos[q] \in Position /\ pos \in [Pids -> Position]
  BY DEF AllInv, Inv, TypeOK
<1>2. CASE conv.pc \in Amends \cup Closes /\ q = Target /\ pos'[q] = Changed(pos[q])
  <2>1. conv.pc \notin {"amend", "be", "half"}
    BY <1>2, TargetMay
  <2>2. Changed(pos[q]).st = "closed"
    BY <1>1, <2>1, ClosedPosition DEF Changed
  <2>3. QED
    BY <1>2, <2>2
<1>3. CASE BecomesListed(q)
  BY <1>1, <1>3 DEF BecomesListed, Position
<1>4. CASE PositionExits(q)
  BY <1>1, <1>4, ClosedPosition DEF PositionExits
<1>5. CASE OwnerAmends(q)
  BY <1>1, <1>5 DEF OwnerAmends, Position
<1>6. QED
  BY <1>1, <1>2, <1>3, <1>4, <1>5, WhoMoves

LEMMA ForeignStep ==
  ASSUME AllInv, [Next]_vars, NEW p \in Pids, OpenAt(p), Foreign(p), conv' # conv
  PROVE  pos'[p] = pos[p]
BY WhoMoves, TargetMay DEF Foreign

\* Once the owner has taken a trade over, no call of the bot moves its stops or takes a
\* part of it, in whatever state a conversation was when the owner did.
THEOREM OwnerHolds == Spec => OwnerIsNotFought
<1>1. AllInv /\ [Next]_vars =>
        [\A k \in RowIds :
           (row[k].manual /\ row[k].pid \in Pids /\ OpenAt(row[k].pid)) =>
             \/ pos'[row[k].pid].st = "closed"
             \/ /\ pos'[row[k].pid].legs \in {pos[row[k].pid].legs, "owner"}
                /\ pos'[row[k].pid].vol = pos[row[k].pid].vol]_vars
  BY OwnerStep
<1>2. QED
  BY <1>1, AllHolds, PTL DEF Spec, OwnerIsNotFought

\* A position that does not carry the MAPEX label, or is at the other venue than the one
\* the service is on, is never touched by a step of the bot, whichever venue the service
\* was started on or has moved to with its trades open.
THEOREM ForeignHolds == Spec => ForeignIsUntouched
<1>1. AllInv /\ [Next]_vars => [\A p \in Pids : OpenAt(p) /\ Foreign(p) /\ conv' # conv => pos'[p] = pos[p]]_vars
  BY ForeignStep
<1>2. QED
  BY <1>1, AllHolds, PTL DEF Spec, ForeignIsUntouched
-----------------------------------------------------------------------------
(* The order flow implements the ledger of its setups.                      *)
HasOpen(k) == \E p \in Pids : pos[p].key = k /\ OpenAt(p)
StagesOf(k) ==
  /\ row[k].st = "none" => Stage(k) = "new"
  /\ row[k].st = "CLOSED" => Stage(k) = "settled"
  /\ row[k].st \notin {"none", "CLOSED"} =>
       /\ ~HasPosition(k) => Stage(k) = "claimed"
       /\ HasOpen(k) => Stage(k) = "open"
       /\ HasPosition(k) /\ ~HasOpen(k) => Stage(k) = "exited"

StagesAre == \A k \in Setups : StagesOf(k)

LEMMA StageIs == StagesAre
<1> SUFFICES ASSUME NEW k \in Setups PROVE StagesOf(k)
  BY DEF StagesAre
<1> DEFINE mine == {p \in Pids : pos[p].key = k}
<1>1. HasPosition(k) <=> mine # {}
  BY DEF HasPosition
<1>2. HasOpen(k) <=> \E p \in mine : OpenAt(p)
  BY DEF HasOpen
<1>3. Stage(k) = CASE row[k].st = "none" -> "new"
       [] row[k].st = "CLOSED" -> "settled"
       [] row[k].st \notin {"none", "CLOSED"} /\ mine = {} -> "claimed"
       [] row[k].st \notin {"none", "CLOSED"} /\ mine # {} /\ (\E p \in mine : OpenAt(p)) -> "open"
       [] OTHER -> "exited"
  BY DEF Stage
<1> HIDE DEF mine
<1>4. HasOpen(k) => HasPosition(k)
  BY DEF HasOpen, HasPosition
<1>5. QED
  BY <1>1, <1>2, <1>3, <1>4 DEF StagesOf

LEMMA StageWas == StagesAre'
BY StageIs, PTL

\* What leaves the stage of a setup as it is.
SameKind(k) ==
  /\ row'[k].st = "none" <=> row[k].st = "none"
  /\ row'[k].st = "CLOSED" <=> row[k].st = "CLOSED"
SameReach(k) == (HasPosition(k)' <=> HasPosition(k)) /\ (HasOpen(k)' <=> HasOpen(k))

LEMMA StageKept == ASSUME NEW k \in Setups, SameKind(k), SameReach(k) PROVE Stage(k)' = Stage(k)
BY StageIs, StageWas DEF StagesAre, StagesOf, SameKind, SameReach

KindKept == \A k \in Setups : SameKind(k)
ReachKept == \A k \in Setups : SameReach(k)

LEMMA ReachStands == ASSUME UNCHANGED pos PROVE ReachKept
BY DEF ReachKept, SameReach, HasPosition, HasOpen, OpenAt

\* How a step of the coroutine other than reading the deals writes a row's state.
WritesOff(k) ==
  \/ k = Cur /\ conv.pc = "create" /\ conv.reply \in {"range", "tool", "auth"} /\ conv'.pc = "idle"
  \/ k = Cur /\ conv.pc = "poll" /\ conv'.pc = "trip"
  \/ conv.pc = "next" /\ row[k].st = "SENDING"
Alters(k, st) ==
  \/ st = row[k].st
  \/ row[k].st \notin {"none", "CLOSED"} /\ st \in {"OPEN", "BE", "CLOSING"}
  \/ row[k].st \in {"SENDING", "OPEN"} /\ st = "FAILED" /\ WritesOff(k)
RowsAlter == \A k \in Setups : Alters(k, row'[k].st)

LEMMA WriteAlters ==
  ASSUME TypeOK, NEW k, NEW r, SetRow(k, r), k \in Setups => Alters(k, r.st)
  PROVE  RowsAlter
BY DEF RowsAlter, Alters, SetRow, TypeOK, RowIds

LEMMA ConverseAlters == ASSUME TypeOK, OrderInv, BookInv, Converse PROVE RowsAlter \/ DealsRead
<1>1. UNCHANGED row => RowsAlter
  BY DEF RowsAlter, Alters
<1>2. CASE Created \/ Polled
  <2>1. Cur \in RowIds /\ row[Cur].st \in {"SENDING", "OPEN"}
    BY <1>2, RowIdKinds DEF Created, Polled, Answered, BookInv, AtInv, OrderInv
  <2>2. /\ \A p : Adopted(Cur, p).st = "OPEN"
        /\ Failed(Cur).st = "FAILED"
    BY <2>1 DEF Adopted, Failed, TypeOK, Row
  <2>3. Abort => conv'.pc = "idle"
    BY DEF Abort, Idle
  <2>4. Step("trip", 0) => conv'.pc = "trip"
    BY DEF Step, TypeOK, Conv
  <2>5. PICK r : (SetRow(Cur, r) /\ (r.st = "OPEN" \/ (r.st = "FAILED" /\ WritesOff(Cur)))) \/ UNCHANGED row
    BY <1>2, <2>2, <2>3, <2>4 DEF Created, Polled, Answered, WritesOff
  <2>6. QED
    BY <1>1, <2>1, <2>5, WriteAlters DEF Alters
<1>3. CASE AmendSent \/ Verified \/ ProtectClosed
  <2>1. Cur \in RowIds /\ row[Cur].st = "OPEN"
    BY <1>3, InProtect DEF AmendSent, Verified, ProtectClosed, Answered, Protect
  <2>2. /\ [row[Cur] EXCEPT !.fresh = TRUE].st = "OPEN"
        /\ [row[Cur] EXCEPT !.told = TRUE].st = "OPEN"
        /\ [row[Cur] EXCEPT !.st = "CLOSING", !.late = FALSE].st = "CLOSING"
    BY <2>1 DEF TypeOK, Row
  <2>3. PICK r : (SetRow(Cur, r) /\ r.st \in {"OPEN", "CLOSING"}) \/ UNCHANGED row
    BY <1>3, <2>2 DEF AmendSent, Verified, ProtectClosed
  <2>4. QED
    BY <1>1, <2>1, <2>3, WriteAlters DEF Alters
<1>4. CASE BreakevenSet
  <2>1. Cur \in RowIds /\ row[Cur].st \notin {"none", "CLOSED"}
    BY <1>4, InChange DEF BreakevenSet, Answered, Through
  <2>2. [row[Cur] EXCEPT !.be = TRUE, !.st = "BE", !.fresh = TRUE].st = "BE"
    BY <2>1 DEF TypeOK, Row
  <2>3. PICK r : (SetRow(Cur, r) /\ r.st = "BE") \/ UNCHANGED row
    BY <1>4, <2>2 DEF BreakevenSet
  <2>4. QED
    BY <1>1, <2>1, <2>3, WriteAlters DEF Alters
<1>5. ASSUME NEW k \in RowIds, ManageRow(k) \/ ReconcileRow(k) PROVE RowsAlter
  <2>1. row[k].st \notin {"none", "CLOSED"} /\ conv.pc = "next"
    BY <1>5 DEF ManageRow, ReconcileRow, Looping, BookInv, LoopInv, OpenStates
  <2>2. /\ \A p : Adopted(k, p).st = "OPEN"
        /\ Failed(k).st = "FAILED"
        /\ [row[k] EXCEPT !.manual = TRUE].st = row[k].st
        /\ \A late : [row[k] EXCEPT !.st = "CLOSING", !.late = late].st = "CLOSING"
    BY DEF Adopted, Failed, TypeOK, Row
  <2>3. PICK r : \/ SetRow(k, r) /\ r.st \in {row[k].st, "OPEN", "CLOSING"}
                 \/ SetRow(k, r) /\ r.st = "FAILED" /\ row[k].st = "SENDING"
                 \/ UNCHANGED row
    BY <1>5, <2>2 DEF ManageRow, ReconcileRow, HandleClosed
  <2>4. QED
    BY <1>1, <2>1, <2>3, WriteAlters DEF Alters, WritesOff
<1>6. ASSUME NEW p \in Pids, ReconcilePosition(p) PROVE RowsAlter
  <2> DEFINE key == conv.seen[p].key
  <2>1. CASE key \in Setups /\ row[key].st = "FAILED" /\ SetRow(key, Adopted(key, p))
    <3>1. Adopted(key, p).st = "OPEN"
      BY <2>1, RowIdKinds DEF Adopted, TypeOK, Row
    <3>2. QED
      BY <2>1, <3>1, WriteAlters DEF Alters
  <2>2. CASE SetRow(p, [NoRow EXCEPT !.st = "OPEN", !.pid = p, !.mode = Mode, !.manual = TRUE])
    BY <2>2, RowIdKinds, WriteAlters
  <2>3. QED
    BY <1>1, <1>6, <2>1, <2>2 DEF ReconcilePosition
<1>7. QED
  BY <1>1, <1>2, <1>3, <1>4, <1>5, <1>6
     DEF Converse, FirstRead, Listed, HalfClosed, FlatClosed, EndLoop, FlatPosition

\* Reading the deals closes a row whose position is gone, or none.
LEMMA DealsRow ==
  ASSUME TypeOK, OrderInv, BookInv, DealsRead
  PROVE  \/ \A k \in Setups : row'[k].st = row[k].st
         \/ \E k \in Setups :
              /\ row[k].st = "CLOSING" /\ row'[k].st = "CLOSED" /\ HasPosition(k) /\ ~HasOpen(k)
              /\ \A j \in Setups \ {k} : row'[j].st = row[j].st
<1> DEFINE r == [row[Cur] EXCEPT !.st = "CLOSED", !.late = FALSE]
<1>1. CASE UNCHANGED row
  BY <1>1
<1>2. CASE Cur \in Pids
  BY <1>1, <1>2, RowIdKinds DEF DealsRead, SetRow, TypeOK
<1>3. CASE Cur \in Setups /\ (conv.reply = "deals" \/ conv.try = 1) /\ SetRow(Cur, r)
  <2>1. row[Cur].st = "CLOSING" /\ row[Cur].pid \in Pids /\ pos[row[Cur].pid].st = "closed" /\ Cur \in RowIds
    BY <1>3, InDeals DEF DealsRead, Answered
  <2>2. r.st = "CLOSED"
    BY <2>1 DEF TypeOK, Row
  <2>3. PICK k \in Setups : k = Cur
    BY <1>3
  <2>4. row'[k].st = "CLOSED" /\ \A j \in Setups \ {k} : row'[j].st = row[j].st
    BY <1>3, <2>1, <2>2, <2>3 DEF SetRow, TypeOK, RowIds
  <2>5. pos[row[k].pid].key = k
    BY <2>1, <2>3 DEF BookInv, RowsInv, SetupRow
  <2>6. HasPosition(k) /\ ~HasOpen(k)
    BY <2>1, <2>3, <2>5, TheOne DEF HasPosition, HasOpen, OpenAt
  <2>7. QED
    BY <2>1, <2>3, <2>4, <2>6
<1>4. Cur \in Setups \/ Cur \in Pids
  BY InDeals, RowIdKinds DEF DealsRead, Answered
<1>5. QED
  BY <1>1, <1>2, <1>3, <1>4 DEF DealsRead

\* One setup's stage moves and the others' stay.
LEMMA OneStage ==
  ASSUME NEW k \in Setups, NEW from, NEW to, Stage(k) = from, Stage(k)' = to,
         \A j \in Setups \ {k} : SameKind(j) /\ SameReach(j)
  PROVE  Ledger!Move(k, from, to)
<1>1. \A j \in Setups \ {k} : Stage(j)' = Stage(j)
  BY StageKept
<1>2. QED
  BY <1>1 DEF Ledger!Move

LEMMA StagesStand ==
  ASSUME KindKept, ReachKept
  PROVE  UNCHANGED [k \in Setups |-> Stage(k)]
BY StageKept DEF KindKept, ReachKept

\* Taking the lock for a setup claims it.
LEMMA ExecuteClaims ==
  ASSUME TypeOK, OrderInv, NEW k \in Setups, Execute(k)
  PROVE  Ledger!Claim(k)
<1>1. row[k].st = "none" /\ ~HasPosition(k) /\ k \in RowIds
  BY RowIdKinds DEF Execute, CheckEntry, Unclaimed, OrderInv
<1>2. row'[k].st = "SENDING" /\ \A j \in Setups \ {k} : SameKind(j)
  BY <1>1 DEF Execute, SetRow, TypeOK, NoRow, RowIds, SameKind
<1>3. \A j \in Setups : SameReach(j)
  BY ReachStands DEF Execute, ReachKept
<1>4. Stage(k) = "new" /\ Stage(k)' = "claimed"
  BY <1>1, <1>2, <1>3, StageIs, StageWas DEF StagesAre, StagesOf, SameReach
<1>5. QED
  BY <1>2, <1>3, <1>4, OneStage DEF Ledger!Claim

\* Between its claim and the day its deals are read a setup's row stays what it is in the
\* ledger's eyes, however often it is adopted, written off or taken over; the deals settle it.
LEMMA ConverseSettles ==
  ASSUME TypeOK, OrderInv, BookInv, Converse, UNCHANGED pos
  PROVE  KindKept \/ \E k \in Setups : Ledger!Settle(k)
<1>1. CASE RowsAlter
  BY <1>1 DEF RowsAlter, Alters, KindKept, SameKind
<1>2. CASE \A k \in Setups : row'[k].st = row[k].st
  BY <1>2 DEF KindKept, SameKind
<1>3. ASSUME NEW k \in Setups, row[k].st = "CLOSING", row'[k].st = "CLOSED", HasPosition(k), ~HasOpen(k),
             \A j \in Setups \ {k} : row'[j].st = row[j].st
      PROVE  Ledger!Settle(k)
  <2>1. \A j \in Setups : SameReach(j)
    BY ReachStands DEF ReachKept
  <2>2. Stage(k) = "exited" /\ Stage(k)' = "settled"
    BY <1>3, StageIs, StageWas DEF StagesAre, StagesOf
  <2>3. QED
    BY <1>3, <2>1, <2>2, OneStage DEF Ledger!Settle, SameKind
<1>4. QED
  BY <1>1, <1>2, <1>3, ConverseAlters, DealsRow

\* A fill opens a claimed setup that has no position.
LEMMA FillOpens ==
  ASSUME TypeOK, BookInv, UNCHANGED row, NEW k \in Setups, NEW p \in Pids, Fill(k, p), ~HasPosition(k), row[k].st # "none"
  PROVE  Ledger!FillOnce(k)
<1>1. pos[p].key \notin Setups /\ ~OpenAt(p)
  BY SetsAssumption DEF Fill, BookInv, PositionInv, NoPos, OpenAt
<1>2. PICK st \in {"listed", "hidden"}, vol \in {Lots, 2 * Lots} :
        pos' = [pos EXCEPT ![p] = [st |-> st, mapex |-> TRUE, mode |-> row[k].mode, key |-> k,
                             vol |-> vol, legs |-> "rel"]]
  BY DEF Fill
<1>3. pos'[p].key = k /\ pos'[p].st \in {"listed", "hidden"} /\ \A q \in Pids \ {p} : pos'[q] = pos[q]
  BY <1>2 DEF TypeOK
<1>4. HasPosition(k)' /\ HasOpen(k)'
  BY <1>3 DEF HasPosition, HasOpen, OpenAt
<1>5. ASSUME NEW j \in Setups \ {k} PROVE SameReach(j)
  BY <1>1, <1>3 DEF SameReach, HasPosition, HasOpen, OpenAt
<1>6. row[k].st # "CLOSED"
  BY DEF BookInv, RowsInv, SetupRow, Through
<1>7. Stage(k) = "claimed" /\ Stage(k)' = "open"
  BY <1>4, <1>6, StageIs, StageWas DEF StagesAre, StagesOf
<1>8. QED
  BY <1>5, <1>7, OneStage DEF Ledger!FillOnce, SameKind

\* Any other change of a position at the broker leaves the stages, or exits its setup.
LEMMA OneExits ==
  ASSUME TypeOK, OrderInv, BookInv, UNCHANGED row, NEW p \in Pids, OpenAt(p), NEW q,
         pos' = [pos EXCEPT ![p] = q], q.key = pos[p].key, q.st \in {"hidden", "listed", "closed"}
  PROVE  (KindKept /\ ReachKept) \/ \E k \in Setups : Ledger!Exit(k)
<1>1. pos'[p] = q /\ \A o \in Pids \ {p} : pos'[o] = pos[o]
  BY DEF TypeOK
<1>2. KindKept
  BY DEF KindKept, SameKind
<1>3. ASSUME NEW j \in Setups PROVE HasPosition(j)' <=> HasPosition(j)
  BY <1>1 DEF HasPosition
<1>4. ASSUME NEW j \in Setups, q.st # "closed" \/ pos[p].key # j PROVE HasOpen(j)' <=> HasOpen(j)
  BY <1>1, <1>4 DEF HasOpen, OpenAt
<1>5. CASE q.st # "closed" \/ pos[p].key \notin Setups
  BY <1>2, <1>3, <1>4, <1>5 DEF ReachKept, SameReach
<1>6. CASE q.st = "closed" /\ pos[p].key \in Setups
  <2>1. PICK k \in Setups : k = pos[p].key
    BY <1>6
  <2>2. HasPosition(k) /\ HasPosition(k)' /\ HasOpen(k)
    BY <1>3, <2>1 DEF HasPosition, HasOpen
  <2>3. \A o \in Pids : pos[o].key = k => o = p
    BY <2>1, TheOne
  <2>4. ~HasOpen(k)'
    BY <1>1, <1>6, <2>3 DEF HasOpen, OpenAt
  <2>5. row[k].st \notin {"none", "CLOSED"}
    BY <2>2, <2>3 DEF OrderInv, BookInv, RowsInv, SetupRow, OpenAt
  <2>6. Stage(k) = "open" /\ Stage(k)' = "exited"
    BY <2>2, <2>4, <2>5, StageIs, StageWas DEF StagesAre, StagesOf
  <2>7. \A j \in Setups \ {k} : SameKind(j) /\ SameReach(j)
    BY <1>2, <1>3, <1>4, <2>1 DEF KindKept, SameReach
  <2>8. Ledger!Exit(k)
    BY <2>6, <2>7, OneStage DEF Ledger!Exit
  <2>9. QED
    BY <2>8
<1>7. QED
  BY <1>5, <1>6


\* Every step of the order flow moves one setup along the ledger, or none.
LedgerMoves ==
  \/ KindKept /\ ReachKept
  \/ \E k \in Setups : Ledger!Claim(k) \/ Ledger!FillOnce(k) \/ Ledger!Exit(k) \/ Ledger!Settle(k)

LEMMA ServeMoves == ASSUME TypeOK, OrderInv, BookInv, Serve PROVE LedgerMoves
<1>1. UNCHANGED row /\ KindKept
  BY DEF Serve, KindKept, SameKind
<1>2. CASE UNCHANGED pos
  BY <1>1, <1>2, ReachStands DEF LedgerMoves
<1>3. CASE ServeCreate
  <2>1. Cur \in Setups /\ row[Cur].st # "none" /\ ~HasPosition(Cur)
    BY <1>3 DEF ServeCreate, Awaiting, OrderInv
  <2>2. PICK k \in Setups : k = Cur
    BY <2>1
  <2>3. ASSUME NEW p \in Pids, Fill(Cur, p) PROVE LedgerMoves
    BY <1>1, <1>1, <2>1, <2>2, <2>3, FillOpens DEF LedgerMoves
  <2>4. QED
    BY <1>2, <1>3, <2>3 DEF ServeCreate
<1>4. CASE ServeChange
  <2>1. Target \in Pids
    BY <1>4, TargetIs DEF ServeChange, Awaiting
  <2>2. ASSUME OpenAt(Target), pos' = [pos EXCEPT ![Target] = Changed(@)] PROVE LedgerMoves
    <3> DEFINE q == Changed(pos[Target])
    <3>1. pos[Target] \in Position
      BY <2>1 DEF TypeOK
    <3>2. q.key = pos[Target].key /\ q.st \in {"hidden", "listed", "closed"}
      BY <2>2, <3>1, ChangedPosition DEF OpenAt
    <3>3. pos' = [pos EXCEPT ![Target] = q]
      BY <2>2
    <3> HIDE DEF q
    <3>4. QED
      BY <1>1, <2>1, <2>2, <3>2, <3>3, OneExits DEF LedgerMoves
  <2>3. QED
    BY <1>2, <1>4, <2>2 DEF ServeChange
<1>5. QED
  BY <1>2, <1>3, <1>4 DEF Serve, ServeRead, ServeDeals

LEMMA BrokerMovesMoves == ASSUME TypeOK, OrderInv, BookInv, BrokerMoves PROVE LedgerMoves
<1>1. UNCHANGED row /\ KindKept
  BY DEF BrokerMoves, KindKept, SameKind
<1>2. ASSUME NEW k \in Setups, LateFill(k) PROVE LedgerMoves
  <2>1. ~HasPosition(k) /\ row[k].st # "none"
    BY <1>2 DEF LateFill, OrderInv
  <2>2. CASE UNCHANGED pos
    BY <1>1, <2>2, ReachStands DEF LedgerMoves
  <2>3. CASE \E p \in Pids : Fill(k, p)
    BY <1>1, <2>1, <2>3, FillOpens DEF LedgerMoves
  <2>4. QED
    BY <1>2, <2>2, <2>3 DEF LateFill
<1>3. ASSUME NEW p \in Pids, BecomesListed(p) \/ PositionExits(p) \/ OwnerAmends(p) PROVE LedgerMoves
  <2>1. pos[p] \in Position /\ OpenAt(p)
    BY <1>3 DEF TypeOK, BecomesListed, PositionExits, OwnerAmends, OpenAt
  <2>2. PICK q : pos' = [pos EXCEPT ![p] = q] /\ q.key = pos[p].key /\ q.st \in {"hidden", "listed", "closed"}
    <3>1. /\ [pos[p] EXCEPT !.st = "listed"].key = pos[p].key
          /\ [pos[p] EXCEPT !.st = "listed"].st = "listed"
          /\ [pos[p] EXCEPT !.legs = "owner"].key = pos[p].key
          /\ [pos[p] EXCEPT !.legs = "owner"].st = pos[p].st
          /\ Closed(pos[p]).key = pos[p].key /\ Closed(pos[p]).st = "closed"
      BY <2>1 DEF Position, Closed
    <3>2. QED
      BY <1>3, <2>1, <3>1 DEF BecomesListed, PositionExits, OwnerAmends
  <2>3. QED
    BY <1>1, <2>1, <2>2, OneExits DEF LedgerMoves
<1>4. QED
  BY <1>2, <1>3 DEF BrokerMoves

LEMMA LedgerStep == ASSUME AllInv, [Next]_vars PROVE [Ledger!Next]_[k \in Setups |-> Stage(k)]
<1>1. TypeOK /\ OrderInv /\ BookInv
  BY DEF AllInv, Inv
<1>2. UNCHANGED row => KindKept
  BY DEF KindKept, SameKind
<1>3. UNCHANGED pos => ReachKept
  BY ReachStands
<1>4. ASSUME NEW k \in Setups, Execute(k) PROVE LedgerMoves
  BY <1>1, <1>4, ExecuteClaims DEF LedgerMoves
<1>5. ASSUME Advance PROVE LedgerMoves
  <2>1. UNCHANGED pos
    BY <1>5 DEF Advance
  <2>2. CASE Converse
    BY <1>1, <1>3, <2>1, <2>2, ConverseSettles DEF LedgerMoves
  <2>3. CASE Trip \/ Record
    BY <1>2, <1>3, <2>1, <2>3 DEF Trip, Record, LedgerMoves
  <2>4. QED
    BY <1>5, <2>2, <2>3 DEF Advance
<1>6. ASSUME TimePasses PROVE LedgerMoves
  <2>1. KindKept
    BY <1>6 DEF TimePasses, GraceEnds, DeadlinePasses, SetRow, TypeOK, Row, KindKept, SameKind, RowIds, AllInv, Inv
  <2>2. QED
    BY <1>3, <1>6, <2>1 DEF TimePasses, LedgerMoves
<1>7. LedgerMoves
  BY <1>1, <1>2, <1>3, <1>4, <1>5, <1>6, ServeMoves, BrokerMovesMoves
     DEF Next, Environment, Begin, Crash, ApplyEnv, vars, LedgerMoves
<1>8. QED
  BY <1>7, StagesStand DEF LedgerMoves, Ledger!Next

\* The order flow implements the ledger: whatever fails, every setup is claimed once,
\* ordered at most once and settled only after its position has left the broker.
THEOREM Refinement == Spec => LedgerSpec
<1>1. Init => Ledger!Init
  <2> SUFFICES ASSUME Init PROVE \A k \in Setups : Stage(k) = "new"
    BY DEF Ledger!Init
  <2>1. \A k \in Setups : row[k].st = "none"
    BY RowIdKinds DEF Init, NoRow
  <2>2. QED
    BY <2>1, StageIs DEF StagesAre, StagesOf
<1>2. AllInv /\ [Next]_vars => [Ledger!Next]_[k \in Setups |-> Stage(k)]
  BY LedgerStep
<1>3. QED
  BY <1>1, <1>2, AllHolds, PTL DEF Spec, LedgerSpec, Ledger!Spec
-----------------------------------------------------------------------------
(* As long as the process is not killed and the owner does not resume trading.  *)
NoRestart == MaxCrashes = 0 /\ "resume" \notin Faults

\* The kill switch is off and not about to be set.
Quiet == ~kill /\ conv.pc # "trip"

\* An order that is being sent is the conversation's own, and while trading goes on one
\* that was written off has no position and none on its way.
StoppedInv ==
  /\ \A k \in Setups : row[k].st = "SENDING" => conv.pc \in {"create", "poll"} /\ Cur = k
  /\ Quiet => \A k \in Setups : row[k].st = "FAILED" => ~HasPosition(k) /\ k \notin inflight

\* The setups that have a position at the broker, or may still get one.
Busy == {k \in Setups : HasOpen(k) \/ k \in inflight \/ (conv.pc = "create" /\ Cur = k)}
SameSymbol(S, s) == {k \in S : SymbolOf[k] = SymbolOf[s]}
NoStray == \A p \in Pids : pos[p].st # "free" => pos[p].key \in Setups
CapsInv ==
  /\ Cardinality(Busy) <= MaxOpenTotal
  /\ \A s \in Setups : Cardinality(SameSymbol(Busy, s)) <= MaxOpenPerSymbol
  /\ Quiet => Busy \subseteq OpenRows
  /\ NoStray

\* Nothing but the owner switches trading on again.
LEMMA QuietWas == ASSUME NoRestart, TypeOK, [Next]_vars, Quiet' PROVE Quiet
<1>1. ~kill
  BY DEF Quiet, NoRestart, Next, Environment, Execute, Begin, Serve, Advance, Trip, Record, BrokerMoves,
         TimePasses, Stop, Resume, Crash, ApplyEnv, TypeOK, vars
<1>2. ASSUME conv.pc = "trip" PROVE FALSE
  <2>1. ~Converse
    BY <1>2 DEF Converse, Created, Polled, FirstRead, AmendSent, Verified, ProtectClosed, Listed, DealsRead,
                HalfClosed, BreakevenSet, FlatClosed, EndLoop, ManageRow, ReconcileRow, ReconcilePosition,
                FlatPosition, Answered, Looping
  <2>2. ~Trip
    BY DEF Trip, Quiet
  <2>3. ~Serve
    BY <1>2 DEF Serve, ServeCreate, ServeRead, ServeChange, ServeDeals, Awaiting, Reads, Amends, Closes
  <2>4. ~Crash
    BY DEF Crash, NoRestart, TypeOK
  <2>5. QED
    BY <1>2, <2>1, <2>2, <2>3, <2>4 DEF Next, Environment, Execute, Begin, Advance, Record, BrokerMoves, TimePasses, ApplyEnv, Quiet, vars
<1>3. QED
  BY <1>1, <1>2 DEF Quiet

\* The state of the setups' rows is what it was.
SameStates == \A k \in Setups : row'[k].st = row[k].st

LEMMA StoppedKept ==
  ASSUME StoppedInv, SameStates, Quiet' => Quiet,
         conv.pc \in {"create", "poll"} => conv'.pc = conv.pc /\ conv'.cur = conv.cur,
         \A k \in Setups : row[k].st = "FAILED" /\ ~HasPosition(k) /\ k \notin inflight => ~HasPosition(k)' /\ k \notin inflight'
  PROVE  StoppedInv'
BY DEF StoppedInv, SameStates, Cur

\* A fill is for a setup whose order has not been written off, or was on its way.
LEMMA FillFor ==
  ASSUME TypeOK, NEW k \in Setups, NEW p \in Pids, Fill(k, p), NEW j \in Setups, j # k, ~HasPosition(j)
  PROVE  ~HasPosition(j)'
<1>1. pos'[p].key = k /\ \A q \in Pids \ {p} : pos'[q] = pos[q]
  BY DEF Fill, TypeOK
<1>2. QED
  BY <1>1 DEF HasPosition

LEMMA ServeStopped == ASSUME NoRestart, AllInv, StoppedInv, Serve PROVE StoppedInv'
<1> USE DEF Awaiting
<1>1. TypeOK /\ OrderInv /\ BookInv /\ UNCHANGED <<row, kill>>
  BY DEF AllInv, Inv, Serve
<1>2. conv'.pc = conv.pc /\ conv'.cur = conv.cur
  <2>1. \A r : Answer(r) => conv'.pc = conv.pc /\ conv'.cur = conv.cur
    BY <1>1 DEF Answer, TypeOK, Conv
  <2>2. ServeRead => conv'.pc = conv.pc /\ conv'.cur = conv.cur
    BY <1>1, <2>1 DEF ServeRead, Failure, TypeOK, Conv
  <2>3. QED
    BY <2>1, <2>2 DEF Serve, ServeCreate, ServeChange, ServeDeals, Failure
<1>3. ASSUME NEW k \in Setups, row[k].st = "FAILED", ~HasPosition(k), k \notin inflight
      PROVE  ~HasPosition(k)' /\ k \notin inflight'
  <2>1. CASE ServeCreate
    <3>1. Cur \in Setups /\ row[Cur].st = "SENDING"
      BY <1>1, <2>1 DEF ServeCreate, BookInv, AtInv, OrderInv
    <3>2. k # Cur
      BY <1>3, <3>1
    <3>3. CASE UNCHANGED pos
      BY <1>3, <2>1, <3>2, <3>3 DEF ServeCreate, HasPosition
    <3>4. ASSUME NEW p \in Pids, Fill(Cur, p), UNCHANGED inflight PROVE ~HasPosition(k)' /\ k \notin inflight'
      BY <1>1, <1>3, <3>1, <3>2, <3>4, FillFor
    <3>5. QED
      BY <2>1, <3>3, <3>4 DEF ServeCreate
  <2>2. CASE ServeRead \/ ServeDeals
    BY <1>3, <2>2 DEF ServeRead, ServeDeals, HasPosition
  <2>3. CASE ServeChange
    <3>1. Target \in Pids
      BY <1>1, <2>3, TargetIs DEF ServeChange
    <3>2. Changed(pos[Target]).key = pos[Target].key
      BY <1>1, <3>1, ChangedPosition DEF TypeOK
    <3>3. QED
      BY <1>1, <1>3, <2>3, <3>1, <3>2 DEF ServeChange, HasPosition, TypeOK
  <2>4. QED
    BY <2>1, <2>2, <2>3 DEF Serve
<1>4. Quiet' => Quiet
  BY <1>1, <1>2 DEF Quiet
<1>5. QED
  BY <1>1, <1>2, <1>3, <1>4, StoppedKept DEF SameStates

LEMMA BrokerStopped == ASSUME NoRestart, AllInv, StoppedInv, BrokerMoves PROVE StoppedInv'
<1>1. TypeOK /\ OrderInv /\ BookInv /\ UNCHANGED <<row, kill, conv>>
  BY DEF AllInv, Inv, BrokerMoves
<1>2. ASSUME NEW k \in Setups, ~HasPosition(k), k \notin inflight
      PROVE  ~HasPosition(k)' /\ k \notin inflight'
  <2>1. ASSUME NEW j \in Setups, LateFill(j) PROVE ~HasPosition(k)' /\ k \notin inflight'
    <3>1. j # k /\ inflight' \subseteq inflight
      BY <1>2, <2>1 DEF LateFill
    <3>2. CASE UNCHANGED pos
      BY <1>2, <3>1, <3>2 DEF HasPosition
    <3>3. CASE \E p \in Pids : Fill(j, p)
      BY <1>1, <1>2, <3>1, <3>3, FillFor
    <3>4. QED
      BY <2>1, <3>2, <3>3 DEF LateFill
  <2>2. ASSUME NEW p \in Pids, BecomesListed(p) \/ PositionExits(p) \/ OwnerAmends(p) PROVE ~HasPosition(k)' /\ k \notin inflight'
    <3>1. pos[p] \in Position
      BY <1>1 DEF TypeOK
    <3>2. /\ [pos[p] EXCEPT !.st = "listed"].key = pos[p].key
          /\ [pos[p] EXCEPT !.legs = "owner"].key = pos[p].key
          /\ Closed(pos[p]).key = pos[p].key
      BY <3>1 DEF Position, Closed
    <3>3. QED
      BY <1>1, <1>2, <2>2, <3>2 DEF BecomesListed, PositionExits, OwnerAmends, HasPosition, TypeOK
  <2>3. QED
    BY <2>1, <2>2 DEF BrokerMoves
<1>3. QED
  BY <1>1, <1>2, StoppedKept DEF SameStates, Quiet

LEMMA ConverseStopped ==
  ASSUME AllInv, StoppedInv, Converse, UNCHANGED <<kill, pos, inflight>>
  PROVE  StoppedInv'
<1>1. TypeOK /\ OrderInv /\ BookInv
  BY DEF AllInv, Inv
<1>2. \A k \in Setups : row'[k].st = "SENDING" => row[k].st = "SENDING"
  BY <1>1, ConverseAlters, DealsRow DEF RowsAlter, Alters
<1>3. ASSUME NEW k \in Setups, row'[k].st = "SENDING" PROVE conv'.pc \in {"create", "poll"} /\ Cur' = k
  <2>1. row[k].st = "SENDING" /\ conv.pc \in {"create", "poll"} /\ Cur = k
    BY <1>2, <1>3 DEF StoppedInv
  <2>2. Created \/ Polled
    BY <2>1 DEF Converse, FirstRead, AmendSent, Verified, ProtectClosed, Listed, DealsRead,
                HalfClosed, BreakevenSet, FlatClosed, EndLoop, ManageRow, ReconcileRow, ReconcilePosition,
                FlatPosition, Answered, Looping
  <2>3. \A r : SetRow(k, r) => row'[k] = r
    BY <1>1, <2>1 DEF SetRow, TypeOK, RowIds
  <2>4. (\A p : Adopted(k, p).st = "OPEN") /\ Failed(k).st = "FAILED"
    BY <1>1, RowIdKinds DEF Adopted, Failed, TypeOK, Row
  <2>5. \/ \E n : Step("poll", n)
        \/ \E n : Step("create", n)
    BY <1>3, <2>1, <2>2, <2>3, <2>4 DEF Created, Polled
  <2>6. QED
    BY <1>1, <2>1, <2>5 DEF Step, TypeOK, Conv, Cur
<1>4. ASSUME Quiet', NEW k \in Setups, row'[k].st = "FAILED" PROVE ~HasPosition(k)' /\ k \notin inflight'
  <2>1. Quiet
    <3>1. conv.pc # "trip"
      BY DEF Converse, Created, Polled, FirstRead, AmendSent, Verified, ProtectClosed, Listed, DealsRead,
             HalfClosed, BreakevenSet, FlatClosed, EndLoop, ManageRow, ReconcileRow, ReconcilePosition,
             FlatPosition, Answered, Looping
    <3>2. QED
      BY <1>4, <3>1 DEF Quiet
  <2>2. CASE row[k].st = "FAILED"
    BY <2>1, <2>2 DEF StoppedInv, HasPosition
  <2>3. CASE row[k].st # "FAILED"
    <3>1. WritesOff(k)
      BY <1>1, <1>4, <2>3, ConverseAlters, DealsRow DEF RowsAlter, Alters
    <3>2. k = Cur /\ conv.pc = "create" /\ conv.reply \in {"range", "tool", "auth"}
      BY <1>4, <3>1 DEF WritesOff, StoppedInv, Quiet
    <3>3. QED
      BY <1>1, <3>2 DEF OrderInv, HasPosition
  <2>4. QED
    BY <2>2, <2>3
<1>5. QED
  BY <1>3, <1>4 DEF StoppedInv

LEMMA StoppedStep == ASSUME NoRestart, AllInv, StoppedInv, [Next]_vars PROVE StoppedInv'
<1>1. TypeOK /\ OrderInv /\ BookInv
  BY DEF AllInv, Inv
<1>2. Quiet' => Quiet
  BY <1>1, QuietWas
<1>3. ASSUME UNCHANGED <<pos, inflight>>, SameStates,
             conv.pc \in {"create", "poll"} => conv'.pc = conv.pc /\ conv'.cur = conv.cur
      PROVE  StoppedInv'
  BY <1>2, <1>3, StoppedKept DEF HasPosition
<1>4. ASSUME NEW k \in Setups, Execute(k) PROVE StoppedInv'
  <2>1. /\ row'[k].st = "SENDING" /\ \A j \in Setups \ {k} : row'[j].st = row[j].st
        /\ conv'.pc = "create" /\ conv'.cur = k /\ conv.pc = "idle"
        /\ UNCHANGED <<pos, inflight>>
    BY <1>1, <1>4 DEF Execute, SetRow, TypeOK, NoRow, RowIds, Idle
  <2>2. \A j \in Setups : row[j].st # "SENDING"
    BY <2>1 DEF StoppedInv
  <2>3. QED
    BY <1>2, <2>1, <2>2 DEF StoppedInv, Cur, HasPosition
<1>5. ASSUME NEW op, Begin(op) PROVE StoppedInv'
  BY <1>3, <1>5 DEF Begin, SameStates
<1>6. CASE Advance
  <2>1. CASE Converse /\ UNCHANGED <<kill, booked>>
    BY <1>6, <2>1, ConverseStopped DEF Advance
  <2>2. CASE Trip \/ Record
    BY <1>3, <1>6, <2>2 DEF Advance, Trip, Record, SameStates
  <2>3. QED
    BY <1>6, <2>1, <2>2 DEF Advance
<1>7. CASE TimePasses
  <2>1. ASSUME NEW k \in RowIds, GraceEnds(k) \/ DeadlinePasses(k) PROVE SameStates
    <3>1. /\ [row[k] EXCEPT !.fresh = FALSE].st = row[k].st
          /\ [row[k] EXCEPT !.late = TRUE].st = row[k].st
      BY <1>1 DEF TypeOK, Row
    <3>2. QED
      BY <1>1, <2>1, <3>1 DEF GraceEnds, DeadlinePasses, SetRow, SameStates, TypeOK, RowIds
  <2>2. QED
    BY <1>3, <1>7, <2>1 DEF TimePasses
<1>8. CASE (Stop \/ Resume) /\ UNCHANGED <<row, venue, pos, inflight, conv, booked, crashes>>
  BY <1>3, <1>8 DEF SameStates
<1>9. CASE Crash
  BY <1>1, <1>9 DEF Crash, NoRestart, TypeOK
<1>10. CASE UNCHANGED vars
  BY <1>3, <1>10 DEF SameStates, vars
<1>11. CASE ApplyEnv
  BY <1>3, <1>11 DEF ApplyEnv, SameStates
<1>12. QED
  BY <1>4, <1>5, <1>6, <1>7, <1>8, <1>9, <1>10, <1>11, ServeStopped, BrokerStopped DEF Next, Environment

LEMMA StoppedHolds == NoRestart /\ Spec => []StoppedInv
<1> SUFFICES ASSUME NoRestart PROVE Spec => []StoppedInv
  OBVIOUS
<1>1. Init => StoppedInv
  BY RowIdKinds DEF Init, StoppedInv, NoRow
<1>2. AllInv /\ StoppedInv /\ [Next]_vars => StoppedInv'
  BY StoppedStep
<1>3. QED
  BY <1>1, <1>2, AllHolds, PTL DEF Spec

\* As long as the process is not killed and the owner does not resume, a position whose
\* order was written off as FAILED stands only with the kill switch on or about to be:
\* every way to FAILED that can still get a fill goes through the trip.
THEOREM WrittenOffHolds ==
  ASSUME NoRestart
  PROVE  Spec => []WrittenOffMeansStopped
<1>1. StoppedInv => WrittenOffMeansStopped
  BY DEF StoppedInv, WrittenOffMeansStopped, Quiet, HasPosition
<1>2. QED
  BY <1>1, StoppedHolds, PTL
-----------------------------------------------------------------------------
(* ... and no position without a row was there before: the caps.            *)
LEMMA InitCaps == ASSUME Strays = {}, Init PROVE CapsInv
<1>1. \A p \in Pids : pos[p] = NoPos
  BY DEF Init
<1>2. NoStray
  BY <1>1 DEF NoStray, NoPos
<1>3. Busy = {}
  BY <1>1, SetsAssumption DEF Busy, HasOpen, OpenAt, NoPos, Init, Idle
<1>4. SameSymbol({}, None) = {} /\ \A s : SameSymbol({}, s) = {}
  BY DEF SameSymbol
<1>5. QED
  BY <1>2, <1>3, <1>4, FS_EmptySet, NumbersAssumption DEF CapsInv

\* A step after which no other setup is busy.
LEMMA CapsKept ==
  ASSUME CapsInv, Busy' \subseteq Busy, NoStray', Quiet' => Quiet,
         Quiet' => \A k \in Setups : k \in Busy' /\ row[k].st \in OpenStates => row'[k].st \in OpenStates
  PROVE  CapsInv'
<1>1. IsFiniteSet(Busy) /\ \A s : IsFiniteSet(SameSymbol(Busy, s)) /\ SameSymbol(Busy', s) \subseteq SameSymbol(Busy, s)
  BY SetsAssumption, FS_Subset DEF Busy, SameSymbol
<1>2. /\ Cardinality(Busy) \in Nat /\ Cardinality(Busy') \in Nat
      /\ Cardinality(Busy') <= Cardinality(Busy)
  BY <1>1, FS_Subset, FS_CardinalityType
<1>3. ASSUME NEW s \in Setups PROVE Cardinality(SameSymbol(Busy', s)) <= MaxOpenPerSymbol
  <2>1. /\ Cardinality(SameSymbol(Busy, s)) \in Nat /\ Cardinality(SameSymbol(Busy', s)) \in Nat
        /\ Cardinality(SameSymbol(Busy', s)) <= Cardinality(SameSymbol(Busy, s))
    BY <1>1, FS_Subset, FS_CardinalityType
  <2>2. QED
    BY <2>1, NumbersAssumption DEF CapsInv
<1>4. Quiet' => Busy' \subseteq OpenRows'
  BY RowIdKinds DEF CapsInv, OpenRows, Busy, RowIds
<1>5. (\A s \in Setups : Cardinality(SameSymbol(Busy, s)) <= MaxOpenPerSymbol)'
  BY <1>3 DEF SameSymbol
<1>6. QED
  BY <1>2, <1>4, <1>5, NumbersAssumption DEF CapsInv

\* Taking the lock for one more setup, with fewer than the maximum of open rows.
LEMMA ExecuteCaps ==
  ASSUME TypeOK, OrderInv, CapsInv, NEW k \in Setups, Execute(k)
  PROVE  CapsInv'
<1>1. Quiet /\ Busy \subseteq OpenRows
  BY DEF Execute, CheckEntry, Quiet, CapsInv
<1>2. /\ row'[k].st = "SENDING" /\ \A j \in Setups \ {k} : row'[j].st = row[j].st
      /\ conv.pc = "idle" /\ conv'.cur = k /\ conv'.pc = "create"
      /\ UNCHANGED <<pos, inflight>>
  BY DEF Execute, SetRow, TypeOK, NoRow, RowIds, Idle
<1>3. Busy' = Busy \cup {k}
  BY <1>2 DEF Busy, HasOpen, OpenAt, Cur
<1>4. IsFiniteSet(OpenRows) /\ IsFiniteSet(Busy)
  BY SetsAssumption, FS_Union, FS_Subset DEF OpenRows, RowIds, Busy
<1>5. ASSUME NEW A \in SUBSET OpenRows, NEW B \in SUBSET A, NEW m \in Nat, Cardinality(A) < m
      PROVE  Cardinality(B \cup {k}) <= m
  <2>1. IsFiniteSet(A) /\ IsFiniteSet(B) /\ Cardinality(B) <= Cardinality(A)
    BY <1>4, FS_Subset
  <2>2. Cardinality(A) \in Nat /\ Cardinality(B) \in Nat
    BY <2>1, FS_CardinalityType
  <2>3. Cardinality(B \cup {k}) = IF k \in B THEN Cardinality(B) ELSE Cardinality(B) + 1
    BY <2>1, FS_AddElement
  <2>4. QED
    BY <1>5, <2>1, <2>2, <2>3
<1>6. Cardinality(Busy') <= MaxOpenTotal
  BY <1>1, <1>3, <1>5, NumbersAssumption DEF Execute, CheckEntry
<1>7. ASSUME NEW s \in Setups PROVE Cardinality(SameSymbol(Busy \cup {k}, s)) <= MaxOpenPerSymbol
  <2>1. CASE SymbolOf[k] = SymbolOf[s]
    <3> DEFINE A == {r \in OpenRows : SymbolOf[r] = SymbolOf[k]}
    <3>1. SameSymbol(Busy, s) \in SUBSET A /\ A \in SUBSET OpenRows
      BY <1>1, <2>1 DEF SameSymbol
    <3>2. SameSymbol(Busy \cup {k}, s) = SameSymbol(Busy, s) \cup {k}
      BY <2>1 DEF SameSymbol
    <3>3. Cardinality(A) < MaxOpenPerSymbol
      BY DEF Execute, CheckEntry
    <3>4. QED
      BY <1>5, <3>1, <3>2, <3>3, NumbersAssumption
  <2>2. CASE SymbolOf[k] # SymbolOf[s]
    <3>1. SameSymbol(Busy \cup {k}, s) = SameSymbol(Busy, s)
      BY <2>2 DEF SameSymbol
    <3>2. QED
      BY <3>1 DEF CapsInv
  <2>3. QED
    BY <2>1, <2>2
<1>8. (\A s \in Setups : Cardinality(SameSymbol(Busy, s)) <= MaxOpenPerSymbol)'
  BY <1>3, <1>7 DEF SameSymbol
<1>9. Busy' \subseteq OpenRows'
  BY <1>1, <1>2, <1>3, RowIdKinds DEF Busy, OpenRows, OpenStates
<1>10. NoStray'
  BY <1>2 DEF CapsInv, NoStray
<1>11. QED
  BY <1>6, <1>8, <1>9, <1>10 DEF CapsInv

\* What a step of the broker does to the positions: a fill, or a change of one that is open.
LEMMA FillBusy ==
  ASSUME TypeOK, NoStray, NEW k \in Setups, NEW p \in Pids, Fill(k, p)
  PROVE  NoStray' /\ \A j \in Setups : HasOpen(j)' => HasOpen(j) \/ j = k
<1>1. pos'[p].key = k /\ \A q \in Pids \ {p} : pos'[q] = pos[q]
  BY DEF Fill, TypeOK
<1>2. QED
  BY <1>1 DEF NoStray, HasOpen, OpenAt

LEMMA ChangeBusy ==
  ASSUME TypeOK, NoStray, NEW p \in Pids, NEW r, OpenAt(p), r.key = pos[p].key,
         pos' = [pos EXCEPT ![p] = r]
  PROVE  NoStray' /\ \A j \in Setups : HasOpen(j)' => HasOpen(j)
<1>1. pos'[p].key = pos[p].key /\ \A q \in Pids \ {p} : pos'[q] = pos[q]
  BY DEF TypeOK
<1>2. QED
  BY <1>1 DEF NoStray, HasOpen, OpenAt

LEMMA StandBusy ==
  ASSUME NoStray, UNCHANGED pos
  PROVE  NoStray' /\ \A j \in Setups : HasOpen(j)' => HasOpen(j)
BY DEF NoStray, HasOpen, OpenAt

LEMMA ServeCaps == ASSUME AllInv, CapsInv, Serve PROVE CapsInv'
<1> USE DEF Awaiting
<1>1. TypeOK /\ OrderInv /\ BookInv /\ NoStray /\ UNCHANGED <<row, kill>>
  BY DEF AllInv, Inv, Serve, CapsInv
<1>2. conv'.pc = conv.pc /\ conv'.cur = conv.cur
  <2>1. \A r : Answer(r) => conv'.pc = conv.pc /\ conv'.cur = conv.cur
    BY <1>1 DEF Answer, TypeOK, Conv
  <2>2. ServeRead => conv'.pc = conv.pc /\ conv'.cur = conv.cur
    BY <1>1, <2>1 DEF ServeRead, Failure, TypeOK, Conv
  <2>3. QED
    BY <2>1, <2>2 DEF Serve, ServeCreate, ServeChange, ServeDeals, Failure
<1>3. NoStray' /\ Busy' \subseteq Busy
  <2>1. CASE ServeCreate
    <3>1. Cur \in Setups /\ conv.pc = "create" /\ inflight' \subseteq inflight \cup {Cur}
      BY <1>1, <2>1 DEF ServeCreate, OrderInv
    <3>2. NoStray' /\ \A j \in Setups : HasOpen(j)' => HasOpen(j) \/ j = Cur
      BY <1>1, <2>1, <3>1, FillBusy, StandBusy DEF ServeCreate
    <3>3. QED
      BY <1>2, <3>1, <3>2 DEF Busy, Cur
  <2>2. CASE ServeRead \/ ServeDeals
    BY <1>1, <1>2, <2>2, StandBusy DEF ServeRead, ServeDeals, Busy, Cur
  <2>3. CASE ServeChange
    <3>1. Target \in Pids /\ Changed(pos[Target]).key = pos[Target].key
      BY <1>1, <2>3, TargetIs, ChangedPosition DEF ServeChange, TypeOK
    <3>2. NoStray' /\ \A j \in Setups : HasOpen(j)' => HasOpen(j)
      BY <1>1, <2>3, <3>1, ChangeBusy, StandBusy DEF ServeChange
    <3>3. QED
      BY <1>2, <2>3, <3>2 DEF ServeChange, Busy, Cur
  <2>4. QED
    BY <2>1, <2>2, <2>3 DEF Serve
<1>4. QED
  BY <1>1, <1>2, <1>3, CapsKept DEF Quiet

LEMMA BrokerCaps == ASSUME AllInv, CapsInv, BrokerMoves PROVE CapsInv'
<1>1. TypeOK /\ NoStray /\ UNCHANGED <<row, kill, conv>>
  BY DEF AllInv, Inv, BrokerMoves, CapsInv
<1>2. NoStray' /\ Busy' \subseteq Busy
  <2>1. ASSUME NEW k \in Setups, LateFill(k) PROVE NoStray' /\ Busy' \subseteq Busy
    <3>1. NoStray' /\ \A j \in Setups : HasOpen(j)' => HasOpen(j) \/ j = k
      BY <1>1, <2>1, FillBusy, StandBusy DEF LateFill
    <3>2. QED
      BY <1>1, <2>1, <3>1 DEF LateFill, Busy, Cur
  <2>2. ASSUME NEW p \in Pids, BecomesListed(p) \/ PositionExits(p) \/ OwnerAmends(p) PROVE NoStray' /\ Busy' \subseteq Busy
    <3>1. pos[p] \in Position
      BY <1>1 DEF TypeOK
    <3>2. /\ [pos[p] EXCEPT !.st = "listed"].key = pos[p].key
          /\ [pos[p] EXCEPT !.legs = "owner"].key = pos[p].key
          /\ Closed(pos[p]).key = pos[p].key
      BY <3>1 DEF Position, Closed
    <3>3. PICK r : OpenAt(p) /\ r.key = pos[p].key /\ pos' = [pos EXCEPT ![p] = r]
      <4>1. CASE BecomesListed(p)
        BY <1>1, <3>2, <4>1 DEF BecomesListed, OpenAt, TypeOK
      <4>2. CASE PositionExits(p)
        BY <3>2, <4>2 DEF PositionExits
      <4>3. CASE OwnerAmends(p)
        BY <1>1, <3>2, <4>3 DEF OwnerAmends, OpenAt, TypeOK
      <4>4. QED
        BY <2>2, <4>1, <4>2, <4>3
    <3>4. UNCHANGED inflight
      BY <2>2 DEF BecomesListed, PositionExits, OwnerAmends
    <3>5. QED
      BY <1>1, <3>3, <3>4, ChangeBusy DEF Busy, Cur
  <2>3. QED
    BY <2>1, <2>2 DEF BrokerMoves
<1>3. QED
  BY <1>1, <1>2, CapsKept DEF Quiet

\* A row leaves the open states only when its setup can have no position any more.
LEMMA ConverseCaps ==
  ASSUME AllInv, StoppedInv, CapsInv, Quiet' => Quiet, Converse, UNCHANGED <<kill, pos, inflight>>
  PROVE  CapsInv'
<1>1. TypeOK /\ OrderInv /\ BookInv
  BY DEF AllInv, Inv
<1>2. NoStray' /\ \A j \in Setups : HasOpen(j)' <=> HasOpen(j)
  BY StandBusy DEF CapsInv, NoStray, HasOpen, OpenAt
<1>3. conv'.pc = "create" => conv.pc = "create" /\ conv'.cur = conv.cur /\ conv.reply = "range"
  <2>1. \A label, n : Step(label, n) => conv'.pc = label /\ conv'.cur = conv.cur
    BY <1>1 DEF Step, TypeOK, Conv
  <2>2. (Continue \/ Abort) => conv'.pc # "create"
    <3>1. Idle.pc = "idle"
      BY DEF Idle
    <3>2. [conv EXCEPT !.pc = "next", !.cur = None, !.try = 0, !.reply = "none", !.read = NothingSeen].pc = "next"
      BY <1>1 DEF TypeOK, Conv
    <3>3. QED
      BY <3>1, <3>2 DEF Continue, Abort
  <2>3. \A label, k, rest, extra : StepFor(label, k, rest, extra) => conv'.pc = label
    BY <1>1 DEF StepFor, TypeOK, Conv
  <2>4. \A rest, extra : Skip(rest, extra) => conv'.pc = conv.pc
    BY <1>1 DEF Skip, TypeOK, Conv
  <2>5. CASE Created
    BY <2>1, <2>2, <2>5 DEF Created, Answered
  <2>6. CASE Polled \/ FirstRead \/ AmendSent \/ Verified \/ ProtectClosed
    BY <2>1, <2>2, <2>6 DEF Polled, FirstRead, AmendSent, Verified, ProtectClosed
  <2>7. CASE Listed
    BY <1>1, <2>2, <2>7 DEF Listed, TypeOK, Conv
  <2>8. CASE DealsRead \/ HalfClosed \/ BreakevenSet \/ FlatClosed
    BY <2>1, <2>2, <2>8 DEF DealsRead, HalfClosed, BreakevenSet, FlatClosed
  <2>9. CASE EndLoop
    BY <2>9 DEF EndLoop, Idle
  <2>10. \A k : HandleClosed(k) => conv'.pc # "create"
    BY <1>1, <2>2 DEF HandleClosed, TypeOK, Conv
  <2>11. ASSUME NEW k, ManageRow(k) \/ ReconcileRow(k) PROVE conv'.pc # "create"
    BY <2>3, <2>4, <2>10, <2>11 DEF ManageRow, ReconcileRow, Looping
  <2>12. ASSUME NEW p, ReconcilePosition(p) \/ FlatPosition(p) PROVE conv'.pc # "create"
    BY <2>3, <2>4, <2>12 DEF ReconcilePosition, FlatPosition, Looping
  <2>13. QED
    BY <2>5, <2>6, <2>7, <2>8, <2>9, <2>11, <2>12 DEF Converse
<1>4. Busy' \subseteq Busy
  BY <1>2, <1>3 DEF Busy, Cur
<1>5. ASSUME Quiet', NEW k \in Setups, k \in Busy', row[k].st \in OpenStates PROVE row'[k].st \in OpenStates
  <2>1. CASE RowsAlter
    <3>1. row'[k].st \in OpenStates \/ (row'[k].st = "FAILED" /\ WritesOff(k))
      BY <1>5, <2>1 DEF RowsAlter, Alters, OpenStates
    <3>2. WritesOff(k) => conv.pc = "create" /\ k = Cur /\ conv.reply \in {"range", "tool", "auth"} /\ conv'.pc = "idle"
      BY <1>5 DEF WritesOff, Quiet, StoppedInv
    <3>3. WritesOff(k) => ~HasPosition(k) /\ k \notin inflight /\ conv'.pc = "idle"
      BY <1>1, <3>2 DEF OrderInv
    <3>4. WritesOff(k) => k \notin Busy'
      BY <1>2, <3>3 DEF Busy, HasOpen, HasPosition
    <3>5. QED
      BY <1>5, <3>1, <3>4
  <2>2. CASE DealsRead
    <3>1. conv.pc = "deals"
      BY <2>2 DEF DealsRead, Answered
    <3>2. CASE row[k].st = "CLOSING" /\ row'[k].st = "CLOSED" /\ HasPosition(k) /\ ~HasOpen(k)
      BY <1>1, <1>2, <1>3, <1>5, <3>1, <3>2 DEF Busy, OrderInv
    <3>3. QED
      BY <1>1, <1>5, <2>2, <3>2, DealsRow
  <2>3. QED
    BY <1>1, <2>1, <2>2, ConverseAlters
<1>6. QED
  BY <1>2, <1>4, <1>5, CapsKept

LEMMA CapsStep == ASSUME NoRestart, AllInv, StoppedInv, CapsInv, [Next]_vars PROVE CapsInv'
<1>1. TypeOK /\ OrderInv /\ BookInv
  BY DEF AllInv, Inv
<1>2. Quiet' => Quiet
  BY <1>1, QuietWas
<1>3. ASSUME UNCHANGED <<pos, inflight>>, SameStates,
             conv'.pc = "create" => conv'.pc = conv.pc /\ conv'.cur = conv.cur
      PROVE  CapsInv'
  <2>1. NoStray' /\ \A j \in Setups : HasOpen(j)' => HasOpen(j)
    BY <1>3, StandBusy DEF CapsInv
  <2>2. Busy' \subseteq Busy
    BY <1>3, <2>1 DEF Busy, Cur
  <2>3. QED
    BY <1>2, <1>3, <2>1, <2>2, CapsKept DEF SameStates
<1>4. ASSUME NEW k \in Setups, Execute(k) PROVE CapsInv'
  BY <1>1, <1>4, ExecuteCaps
<1>5. ASSUME NEW op, Begin(op) PROVE CapsInv'
  <2>1. conv'.pc = "list" /\ UNCHANGED <<row, pos, inflight>>
    BY <1>5 DEF Begin, Idle
  <2>2. QED
    BY <1>3, <2>1 DEF SameStates
<1>6. CASE Advance
  <2>1. CASE Converse /\ UNCHANGED <<kill, booked>>
    BY <1>2, <1>6, <2>1, ConverseCaps DEF Advance
  <2>2. CASE Trip \/ Record
    <3>1. [conv EXCEPT !.pc = "next", !.cur = None, !.try = 0, !.reply = "none", !.read = NothingSeen].pc = "next"
      BY <1>1 DEF TypeOK, Conv
    <3>2. Continue /\ UNCHANGED <<row, pos, inflight>>
      BY <1>6, <2>2 DEF Advance, Trip, Record
    <3>3. conv'.pc # "create"
      BY <3>1, <3>2 DEF Continue, Idle
    <3>4. QED
      BY <1>3, <3>2, <3>3 DEF SameStates
  <2>3. QED
    BY <1>6, <2>1, <2>2 DEF Advance
<1>7. CASE TimePasses
  <2>1. ASSUME NEW k \in RowIds, GraceEnds(k) \/ DeadlinePasses(k) PROVE SameStates
    <3>1. /\ [row[k] EXCEPT !.fresh = FALSE].st = row[k].st
          /\ [row[k] EXCEPT !.late = TRUE].st = row[k].st
      BY <1>1 DEF TypeOK, Row
    <3>2. QED
      BY <1>1, <2>1, <3>1 DEF GraceEnds, DeadlinePasses, SetRow, SameStates, TypeOK, RowIds
  <2>2. QED
    BY <1>3, <1>7, <2>1 DEF TimePasses
<1>8. CASE (Stop \/ Resume) /\ UNCHANGED <<row, venue, pos, inflight, conv, booked, crashes>>
  BY <1>3, <1>8 DEF SameStates
<1>9. CASE Crash
  BY <1>1, <1>9 DEF Crash, NoRestart, TypeOK
<1>10. CASE UNCHANGED vars
  BY <1>3, <1>10 DEF SameStates, vars
<1>11. CASE ApplyEnv
  BY <1>3, <1>11 DEF ApplyEnv, SameStates
<1>12. QED
  BY <1>4, <1>5, <1>6, <1>7, <1>8, <1>9, <1>10, <1>11, ServeCaps, BrokerCaps DEF Next, Environment

\* The positions that are open are no more than the setups that are busy, one each.
LEMMA CapsGive == ASSUME OrderInv, CapsInv PROVE WithinCaps
<1> DEFINE live == {p \in Pids : OpenAt(p)}
           alike(p) == {q \in live : SymbolOf[pos[q].key] = SymbolOf[pos[p].key]}
<1>1. IsFiniteSet(Busy) /\ \A s : IsFiniteSet(SameSymbol(Busy, s))
  BY SetsAssumption, FS_Subset DEF Busy, SameSymbol
<1>2. ASSUME NEW p \in live PROVE pos[p].key \in Busy
  BY DEF CapsInv, NoStray, Busy, HasOpen, OpenAt
<1>3. ASSUME NEW A \in SUBSET live, NEW B, IsFiniteSet(B), \A p \in A : pos[p].key \in B
      PROVE  Cardinality(A) <= Cardinality(B) /\ Cardinality(A) \in Nat /\ Cardinality(B) \in Nat
  <2> DEFINE f == [p \in A |-> pos[p].key]
  <2>1. f \in [A -> B]
    BY <1>3
  <2>2. \A p, q \in A : f[p] = f[q] => p = q
    BY <1>2 DEF OrderInv, OnePositionPerSetup, Busy
  <2>3. f \in Injection(A, B)
    BY <2>1, <2>2 DEF Injection, IsInjective
  <2>4. QED
    BY <1>3, <2>3, FS_Injection, FS_CardinalityType
<1>4. Cardinality(live) <= MaxOpenTotal
  <2>1. Cardinality(live) <= Cardinality(Busy) /\ Cardinality(live) \in Nat /\ Cardinality(Busy) \in Nat
    BY <1>1, <1>2, <1>3
  <2>2. QED
    BY <2>1, NumbersAssumption DEF CapsInv
<1>5. ASSUME NEW p \in live PROVE Cardinality(alike(p)) <= MaxOpenPerSymbol
  <2>1. pos[p].key \in Setups /\ Cardinality(SameSymbol(Busy, pos[p].key)) <= MaxOpenPerSymbol
    BY <1>2 DEF CapsInv, Busy
  <2>2. \A q \in alike(p) : pos[q].key \in SameSymbol(Busy, pos[p].key)
    BY <1>2 DEF SameSymbol
  <2>3. alike(p) \in SUBSET live
    OBVIOUS
  <2> HIDE DEF alike, live
  <2>4. /\ Cardinality(alike(p)) <= Cardinality(SameSymbol(Busy, pos[p].key))
        /\ Cardinality(alike(p)) \in Nat /\ Cardinality(SameSymbol(Busy, pos[p].key)) \in Nat
    BY <1>1, <1>3, <2>2, <2>3
  <2>5. QED
    BY <2>1, <2>4, NumbersAssumption
<1>6. QED
  BY <1>4, <1>5 DEF WithinCaps

\* What the broker has of the bot's positions never exceeds the caps, per symbol and in
\* all, although check_entry counts rows and awaits come between its count and the fill:
\* as long as no position was there first, the process is not killed under an order that
\* may still fill, and the owner does not resume after one that was written off.
THEOREM CapsHold ==
  ASSUME NoRestart, Strays = {}
  PROVE  Spec => []WithinCaps
<1>1. Init => CapsInv
  BY InitCaps
<1>2. AllInv /\ StoppedInv /\ CapsInv /\ [Next]_vars => CapsInv'
  BY CapsStep
<1>3. AllInv /\ CapsInv => WithinCaps
  BY CapsGive DEF AllInv, Inv
<1>4. Spec => []StoppedInv
  BY StoppedHolds
<1>5. QED
  BY <1>1, <1>2, <1>3, <1>4, AllHolds, PTL DEF Spec
===============================================================================
