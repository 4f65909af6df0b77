------------------------- MODULE TradeManagerProofs -------------------------
(* Proofs about the order flow, for every value of the constants. *)
EXTENDS TradeProperties, TLAPS

-----------------------------------------------------------------------------
(* Types.  One lemma per way a step writes the table or moves the coroutine. *)

\* Writing a row keeps the trades table well typed.
LEMMA RowWrite ==
  ASSUME TypeOK, NEW k, NEW r, k \in RowIds => r \in Row, SetRow(k, r)
  PROVE  row' \in [RowIds -> Row]
  BY DEF TypeOK, SetRow

\* The records the code writes are rows.
LEMMA RowValues ==
  ASSUME TypeOK, NEW k \in RowIds, NEW p \in Pids \cup {None}
  PROVE  /\ Adopted(k, p) \in Row /\ Adopted(k, p).st # "none"
         /\ Failed(k) \in Row /\ Failed(k).st # "none"
         /\ NoRow \in Row
<1>1. row[k] \in Row
  BY DEF TypeOK
<1> QED
  BY <1>1 DEF Row, NoRow, Adopted, Failed, OpenStates

LEMMA IdleType == Idle \in Conv
  BY DEF Idle, Conv, Labels, NothingSeen, NoPos, Position

LEMMA StepType ==
  ASSUME conv \in Conv, NEW label \in Labels, NEW n \in Nat, Step(label, n)
  PROVE  conv' \in Conv
  BY DEF Step, Conv, NothingSeen, NoPos, Position

LEMMA StepForType ==
  ASSUME conv \in Conv, NEW label \in Labels, NEW k \in RowIds,
         NEW rest \in SUBSET RowIds, NEW extra \in SUBSET Pids, StepFor(label, k, rest, extra)
  PROVE  conv' \in Conv
  BY DEF StepFor, Conv

LEMMA SkipType ==
  ASSUME conv \in Conv, NEW rest \in SUBSET RowIds, NEW extra \in SUBSET Pids, Skip(rest, extra)
  PROVE  conv' \in Conv
  BY DEF Skip, Conv

LEMMA ContinueType ==
  ASSUME conv \in Conv, Continue
  PROVE  conv' \in Conv
  BY IdleType DEF Continue, Conv, Labels, NothingSeen, NoPos, Position

LEMMA InitType == Init => TypeOK
<1> SUFFICES ASSUME Init PROVE TypeOK
  OBVIOUS
<1>1. row \in [RowIds -> Row]
  BY DEF Init, NoRow, Row, OpenStates
<1>2. pos \in [Pids -> Position]
  <2>1. PICK open \in SUBSET Strays, label \in [Strays -> BOOLEAN] :
          pos = [p \in Pids |->
                   IF p \in open
                   THEN [st |-> "listed", mapex |-> label[p], mode |-> "live", key |-> None, vol |-> Lots, legs |-> "owner"]
                   ELSE NoPos]
    BY DEF Init
  <2> QED
    BY <2>1, NumbersAssumption DEF NoPos, Position
<1>3. conv \in Conv
  BY IdleType DEF Init
<1>4. crashes \in 0 .. MaxCrashes
  BY NumbersAssumption DEF Init
<1>5. venue \in {"live", "paper", "boot"}
  BY SetsAssumption DEF Init
<1> QED
  BY <1>1, <1>2, <1>3, <1>4, <1>5 DEF Init, TypeOK

LEMMA ExecuteType == ASSUME TypeOK, NEW k \in Setups, Execute(k) PROVE TypeOK'
<1>1. row' \in [RowIds -> Row]
  BY RowWrite DEF Execute, NoRow, Row, OpenStates, Mode
<1>2. conv' \in Conv
  BY IdleType DEF Execute, Conv, Labels, RowIds
<1> QED
  BY <1>1, <1>2 DEF TypeOK, Execute

LEMMA BeginType ==
  ASSUME TypeOK, NEW op \in {"manage", "reconcile", "flat"}, Begin(op)
  PROVE  TypeOK'
<1>1. conv' \in Conv
  BY IdleType DEF Begin, Conv, Labels, Reads
<1> QED
  BY <1>1 DEF TypeOK, Begin

\* A fill puts a well typed position where none was.
LEMMA FillType ==
  ASSUME TypeOK, NEW k \in Setups, NEW p \in Pids, Fill(k, p)
  PROVE  pos' \in [Pids -> Position]
<1>1. PICK st \in {"listed", "hidden"}, vol \in {Lots, 2 * Lots} :
        pos' = [pos EXCEPT ![p] = [st |-> st, mapex |-> TRUE, mode |-> row[k].mode, key |-> k,
                                   vol |-> vol, legs |-> "rel"]]
  BY DEF Fill
<1>2. vol \in Nat
  BY NumbersAssumption
<1>3. row[k].mode \in {"none", "live", "paper"}
  BY DEF TypeOK, Row, RowIds
<1> QED
  BY <1>1, <1>2, <1>3 DEF TypeOK, Position

LEMMA AnswerType ==
  ASSUME TypeOK, NEW r \in {"ok", "nopid", "deals", "tool", "range", "auth", "transport"}, Answer(r)
  PROVE  conv' \in Conv
  BY DEF TypeOK, Answer, Conv

LEMMA ListingType == TypeOK => Listing \in [Pids -> Position]
  BY DEF TypeOK, Listing, NoPos, Position

LEMMA ServeType == ASSUME TypeOK, Serve, conv.pc = "create" => Cur \in Setups PROVE TypeOK'
<1>1. ASSUME NEW kinds \in SUBSET {"nopid", "tool", "range", "auth", "transport"}, Failure(kinds)
      PROVE  conv' \in Conv
  BY <1>1, AnswerType DEF Failure
<1>2. CASE ServeCreate
  <2>1. conv' \in Conv
    BY <1>1, <1>2, AnswerType DEF ServeCreate
  <2>2. pos' \in [Pids -> Position] /\ inflight' \subseteq Setups
    BY <1>2, FillType DEF ServeCreate, Awaiting, TypeOK
  <2> QED
    BY <2>1, <2>2 DEF Serve, TypeOK
<1>3. CASE ServeRead
  <2>1. CASE conv' = [conv EXCEPT !.reply = "ok", !.seen = Listing]
    BY <2>1, <1>3, ListingType DEF ServeRead, Serve, TypeOK, Conv
  <2>2. CASE conv' = [conv EXCEPT !.reply = "ok", !.read = Listing]
    BY <2>2, <1>3, ListingType DEF ServeRead, Serve, TypeOK, Conv
  <2>3. CASE Failure({"transport"})
    BY <2>3, <1>3, <1>1 DEF ServeRead, Serve, TypeOK
  <2> QED
    BY <2>1, <2>2, <2>3, <1>3 DEF ServeRead
<1>4. CASE ServeChange
  <2>1. conv' \in Conv
    BY <1>1, <1>4, AnswerType DEF ServeChange
  <2>2. ASSUME NEW p \in Position PROVE Changed(p) \in Position
    <3>1. p.vol - Half(p.vol) \in Nat
      BY <2>2 DEF Half, Position
    <3> QED
      BY <3>1 DEF Changed, Closed, Position
  <2>3. pos' \in [Pids -> Position]
    BY <1>4, <2>2 DEF ServeChange, TypeOK
  <2> QED
    BY <1>4, <2>1, <2>3 DEF ServeChange, Serve, TypeOK
<1>5. CASE ServeDeals
  <2>1. conv' \in Conv
    BY <1>1, <1>5, AnswerType DEF ServeDeals
  <2> QED
    BY <1>5, <2>1 DEF ServeDeals, Serve, TypeOK
<1> QED
  BY <1>2, <1>3, <1>4, <1>5 DEF Serve
-----------------------------------------------------------------------------
(* The coroutine's side.  Besides the types: no row is ever deleted, and the  *)
(* only order sent again is the MARKET fallback after a "range" refusal.      *)
KeepsClaims == \A k \in RowIds : row'[k].st = "none" => row[k].st = "none"
SendsOnlyFallback ==
  conv'.pc = "create" =>
    /\ conv.pc = "create" /\ conv.reply = "range"
    /\ conv'.cur = conv.cur /\ conv'.reply = "none"
Sound ==
  /\ row' \in [RowIds -> Row] /\ conv' \in Conv
  /\ KeepsClaims /\ SendsOnlyFallback

\* Writing a row that is not "none" deletes nothing.
LEMMA ClaimKept ==
  ASSUME TypeOK, NEW k, NEW r, SetRow(k, r),
         k \in RowIds => r \in Row /\ (r.st # "none" \/ r.st = row[k].st)
  PROVE  row' \in [RowIds -> Row] /\ KeepsClaims
  BY DEF TypeOK, SetRow, KeepsClaims

LEMMA RowKept == TypeOK /\ UNCHANGED row => row' \in [RowIds -> Row] /\ KeepsClaims
  BY DEF TypeOK, KeepsClaims

\* A step to any other request is sound, and so is going on or leaving.
LEMMA StepSends ==
  ASSUME TypeOK, NEW label \in Labels \ {"create"}, NEW n \in Nat, Step(label, n)
  PROVE  conv' \in Conv /\ SendsOnlyFallback
<1>1. conv' \in Conv
  BY StepType DEF TypeOK
<1>2. conv'.pc = label
  BY DEF Step, TypeOK, Conv
<1> QED
  BY <1>1, <1>2 DEF SendsOnlyFallback

LEMMA StepForSends ==
  ASSUME TypeOK, NEW label \in Labels \ {"create"}, NEW k \in RowIds,
         NEW rest \in SUBSET RowIds, NEW extra \in SUBSET Pids, StepFor(label, k, rest, extra)
  PROVE  conv' \in Conv /\ SendsOnlyFallback
<1>1. conv' \in Conv
  BY StepForType DEF TypeOK
<1>2. conv'.pc = label
  BY DEF StepFor, TypeOK, Conv
<1> QED
  BY <1>1, <1>2 DEF SendsOnlyFallback

LEMMA SkipSends ==
  ASSUME TypeOK, conv.pc = "next",
         NEW rest \in SUBSET RowIds, NEW extra \in SUBSET Pids, Skip(rest, extra)
  PROVE  conv' \in Conv /\ SendsOnlyFallback
<1>1. conv' \in Conv
  BY SkipType DEF TypeOK
<1>2. conv'.pc = "next"
  BY DEF Skip, TypeOK, Conv
<1> QED
  BY <1>1, <1>2 DEF SendsOnlyFallback

LEMMA LeaveSends ==
  ASSUME TypeOK, Continue \/ Abort
  PROVE  conv' \in Conv /\ SendsOnlyFallback
<1>1. conv' \in Conv
  BY ContinueType, IdleType DEF TypeOK, Abort
<1>2. CASE conv' = Idle
  BY <1>1, <1>2 DEF SendsOnlyFallback, Idle
<1>3. CASE conv' # Idle
  <2>1. conv'.pc = "next"
    BY <1>3 DEF Continue, Abort, TypeOK, Conv
  <2> QED
    BY <1>1, <2>1 DEF SendsOnlyFallback
<1> QED
  BY <1>2, <1>3

LEMMA CreatedSound == ASSUME TypeOK, Created PROVE Sound
<1> USE DEF Labels, Reads, Amends, Closes
<1>1. CASE conv.reply = "ok"
  <2>1. PICK p \in Pids : SetRow(Cur, Adopted(Cur, p))
    BY <1>1 DEF Created
  <2>2. row' \in [RowIds -> Row] /\ KeepsClaims
    <3>1. Cur \in RowIds => Adopted(Cur, p) \in Row
      BY RowValues
    <3>2. Adopted(Cur, p).st # "none" \/ Cur \notin RowIds
      BY DEF Adopted, TypeOK, Row
    <3> QED
      BY <2>1, <3>1, <3>2, ClaimKept
  <2>3. Step("pread", 0)
    BY <1>1 DEF Created
  <2> QED
    BY <2>2, <2>3, StepSends DEF Sound
<1>2. CASE conv.reply = "nopid"
  <2>1. SetRow(Cur, Adopted(Cur, None)) /\ Step("poll", 0)
    BY <1>2 DEF Created
  <2>2. Cur \in RowIds => Adopted(Cur, None) \in Row /\ Adopted(Cur, None).st # "none"
    BY RowValues
  <2>3. row' \in [RowIds -> Row] /\ KeepsClaims
    BY <2>1, <2>2, ClaimKept
  <2> QED
    BY <2>1, <2>3, StepSends DEF Sound
<1>3. CASE conv.reply = "transport"
  BY <1>3, StepSends, RowKept DEF Created, Sound
<1>4. CASE conv.reply = "range" /\ conv.try = 0
  <2>1. Step("create", 1) /\ UNCHANGED row /\ conv.pc = "create"
    BY <1>4 DEF Created, Answered
  <2>2. conv' \in Conv
    BY <2>1, StepType DEF TypeOK
  <2>3. SendsOnlyFallback
    BY <2>1, <1>4 DEF SendsOnlyFallback, Step, TypeOK, Conv
  <2> QED
    BY <2>1, <2>2, <2>3, RowKept DEF Sound
<1>5. CASE SetRow(Cur, Failed(Cur)) /\ Abort
  <2>1. Cur \in RowIds => Failed(Cur) \in Row /\ Failed(Cur).st # "none"
    BY RowValues
  <2> QED
    BY <2>1, <1>5, ClaimKept, LeaveSends DEF Sound
<1> QED
  BY <1>1, <1>2, <1>3, <1>4, <1>5 DEF Created

LEMMA PolledSound == ASSUME TypeOK, Polled PROVE Sound
<1> USE DEF Labels, Reads, Amends, Closes
<1>1. ASSUME NEW p \in Pids, SetRow(Cur, Adopted(Cur, p)), Step("pread", 0)
      PROVE  Sound
  <2>1. Cur \in RowIds => Adopted(Cur, p) \in Row /\ Adopted(Cur, p).st # "none"
    BY RowValues
  <2> QED
    BY <1>1, <2>1, ClaimKept, StepSends DEF Sound
<1>2. CASE Step("poll", conv.try + 1) /\ UNCHANGED row
  <2>1. conv.try + 1 \in Nat
    BY DEF TypeOK, Conv
  <2> QED
    BY <1>2, <2>1, StepSends, RowKept DEF Sound
<1>3. CASE SetRow(Cur, Failed(Cur)) /\ Step("trip", 0)
  <2>1. Cur \in RowIds => Failed(Cur) \in Row /\ Failed(Cur).st # "none"
    BY RowValues
  <2> QED
    BY <2>1, <1>3, ClaimKept, StepSends DEF Sound
<1> QED
  BY <1>1, <1>2, <1>3 DEF Polled, ByComment

\* The steps of protect(): a row changes only in fresh, told or to CLOSING.
LEMMA ProtectSound ==
  ASSUME TypeOK, FirstRead \/ AmendSent \/ Verified \/ ProtectClosed
  PROVE  Sound
<1> USE DEF Labels, Reads, Amends, Closes
<1>1. conv.try \in Nat /\ conv.try + 1 \in Nat
  BY DEF TypeOK, Conv
<1>2. ASSUME NEW k \in RowIds
      PROVE  /\ [row[k] EXCEPT !.fresh = TRUE] \in Row
             /\ [row[k] EXCEPT !.told = TRUE] \in Row
             /\ [row[k] EXCEPT !.st = "CLOSING", !.late = FALSE] \in Row
             /\ [row[k] EXCEPT !.fresh = TRUE].st = row[k].st
             /\ [row[k] EXCEPT !.told = TRUE].st = row[k].st
             /\ [row[k] EXCEPT !.st = "CLOSING", !.late = FALSE].st # "none"
  BY DEF TypeOK, Row, OpenStates
<1>3. CASE FirstRead
  <2>1. conv' \in Conv /\ SendsOnlyFallback
    BY <1>1, <1>3, StepSends, LeaveSends DEF FirstRead
  <2> QED
    BY <2>1, <1>3, RowKept DEF FirstRead, Sound
<1>4. CASE AmendSent
  <2>1. conv' \in Conv /\ SendsOnlyFallback
    BY <1>1, <1>4, StepSends, LeaveSends DEF AmendSent
  <2>2. row' \in [RowIds -> Row] /\ KeepsClaims
    BY <1>2, <1>4, ClaimKept, RowKept DEF AmendSent
  <2> QED
    BY <2>1, <2>2 DEF Sound
<1>5. CASE Verified
  <2>1. conv' \in Conv /\ SendsOnlyFallback
    BY <1>1, <1>5, StepSends, LeaveSends DEF Verified
  <2>2. row' \in [RowIds -> Row] /\ KeepsClaims
    BY <1>2, <1>5, ClaimKept, RowKept DEF Verified
  <2> QED
    BY <2>1, <2>2 DEF Sound
<1>6. CASE ProtectClosed
  <2>1. conv' \in Conv /\ SendsOnlyFallback
    BY <1>1, <1>6, StepSends, LeaveSends DEF ProtectClosed
  <2>2. row' \in [RowIds -> Row] /\ KeepsClaims
    BY <1>2, <1>6, ClaimKept, RowKept DEF ProtectClosed
  <2> QED
    BY <2>1, <2>2 DEF Sound
<1> QED
  BY <1>3, <1>4, <1>5, <1>6

LEMMA ListedSound == ASSUME TypeOK, Listed PROVE Sound
<1>1. CASE Abort
  BY <1>1, LeaveSends, RowKept DEF Listed, Sound
<1>2. CASE ~Abort
  <2> DEFINE todo == IF conv.op = "flat" THEN {} ELSE Mine
             extra == CASE conv.op = "manage" -> {}
                        [] conv.op = "flat" -> Mapex
                        [] OTHER -> Mapex \ UNION {Matching(k) : k \in Mine}
  <2>1. conv' = [conv EXCEPT !.pc = "next", !.reply = "none", !.todo = todo, !.extra = extra]
    BY <1>2 DEF Listed
  <2>2. todo \in SUBSET RowIds /\ extra \in SUBSET Pids
    BY DEF Mine, OpenRows, Mapex
  <2>3. conv' \in Conv /\ conv'.pc = "next"
    BY <2>1, <2>2 DEF TypeOK, Conv, Labels
  <2> QED
    BY <2>3, RowKept DEF Listed, Sound, SendsOnlyFallback
<1> QED
  BY <1>1, <1>2

LEMMA HandleClosedSound == ASSUME TypeOK, NEW k \in RowIds, HandleClosed(k) PROVE Sound
<1> DEFINE closing == [row[k] EXCEPT !.st = "CLOSING", !.late = row[k].st = "CLOSING" /\ @]
<1>1. closing \in Row /\ closing.st # "none"
  BY DEF TypeOK, Row, OpenStates
<1>2. row' \in [RowIds -> Row] /\ KeepsClaims
  BY <1>1, ClaimKept DEF HandleClosed
<1>3. CASE Abort
  BY <1>2, <1>3, LeaveSends DEF Sound
<1>4. CASE ~Abort
  <2>1. PICK try \in {0, 1} :
          conv' = [conv EXCEPT !.pc = "deals", !.cur = k, !.todo = @ \ {k}, !.try = try]
    BY <1>4 DEF HandleClosed
  <2>2. conv.todo \ {k} \in SUBSET RowIds /\ try \in Nat /\ "deals" \in Labels
    BY DEF TypeOK, Conv, Labels
  <2>3. conv' \in Conv /\ conv'.pc = "deals"
    BY <2>1, <2>2 DEF TypeOK, Conv
  <2> QED
    BY <1>2, <2>3 DEF Sound, SendsOnlyFallback
<1> QED
  BY <1>3, <1>4

LEMMA DealsReadSound == ASSUME TypeOK, DealsRead PROVE Sound
<1> DEFINE closed == [row[Cur] EXCEPT !.st = "CLOSED", !.late = FALSE]
<1>1. Cur \in RowIds => closed \in Row /\ closed.st # "none"
  BY DEF TypeOK, Row
<1>2. CASE SetRow(Cur, closed) /\ Step("record", 0)
  BY <1>1, <1>2, ClaimKept, StepSends DEF Sound, Labels
<1>3. CASE SetRow(Cur, closed) /\ Continue
  BY <1>1, <1>3, ClaimKept, LeaveSends DEF Sound
<1>4. CASE Continue /\ UNCHANGED row
  BY <1>4, RowKept, LeaveSends DEF Sound
<1> QED
  BY <1>2, <1>3, <1>4 DEF DealsRead

LEMMA ManageRowSound == ASSUME TypeOK, NEW k \in RowIds, ManageRow(k) PROVE Sound
<1>1. conv.todo \ {k} \in SUBSET RowIds /\ {} \in SUBSET Pids /\ conv.pc = "next"
  BY DEF TypeOK, Conv, ManageRow, Looping
<1>2. CASE HandleClosed(k)
  BY <1>2, HandleClosedSound
<1>3. CASE Skip(conv.todo \ {k}, {}) /\ UNCHANGED row
  BY <1>1, <1>3, SkipSends, RowKept DEF Sound
<1>4. CASE Skip(conv.todo \ {k}, {}) /\ SetRow(k, [row[k] EXCEPT !.manual = TRUE])
  <2>1. [row[k] EXCEPT !.manual = TRUE] \in Row /\ [row[k] EXCEPT !.manual = TRUE].st = row[k].st
    BY DEF TypeOK, Row
  <2>2. row' \in [RowIds -> Row] /\ KeepsClaims
    BY <1>4, <2>1, ClaimKept
  <2> QED
    BY <1>1, <1>4, <2>2, SkipSends DEF Sound
<1>5. ASSUME NEW label \in {"half", "be"}, StepFor(label, k, conv.todo \ {k}, {}), UNCHANGED row
      PROVE  Sound
  <2>1. label \in Labels \ {"create"}
    BY DEF Labels, Closes, Amends
  <2> QED
    BY <1>1, <1>5, <2>1, StepForSends, RowKept DEF Sound
<1> QED
  BY <1>2, <1>3, <1>4, <1>5 DEF ManageRow

LEMMA BreakevenSound == ASSUME TypeOK, HalfClosed \/ BreakevenSet PROVE Sound
<1>1. CASE HalfClosed
  BY <1>1, StepSends, LeaveSends, RowKept DEF HalfClosed, Sound, Labels, Amends
<1>2. CASE BreakevenSet
  <2> DEFINE be == [row[Cur] EXCEPT !.be = TRUE, !.st = "BE", !.fresh = TRUE]
  <2>1. Cur \in RowIds => be \in Row /\ be.st # "none"
    BY DEF TypeOK, Row, OpenStates
  <2> QED
    BY <1>2, <2>1, ClaimKept, LeaveSends, RowKept DEF BreakevenSet, Sound
<1> QED
  BY <1>1, <1>2

LEMMA ReconcileRowSound == ASSUME TypeOK, NEW k \in RowIds, ReconcileRow(k) PROVE Sound
<1>1. conv.todo \ {k} \in SUBSET RowIds /\ conv.extra \in SUBSET Pids /\ conv.pc = "next"
  BY DEF TypeOK, Conv, ReconcileRow, Looping
<1>2. CASE HandleClosed(k)
  BY <1>2, HandleClosedSound
<1>3. CASE Skip(conv.todo \ {k}, conv.extra) /\ UNCHANGED row
  BY <1>1, <1>3, SkipSends, RowKept DEF Sound
<1>4. CASE Skip(conv.todo \ {k}, conv.extra) /\ SetRow(k, Failed(k))
  <2>1. Failed(k) \in Row /\ Failed(k).st # "none"
    BY RowValues
  <2> QED
    BY <1>1, <1>4, <2>1, ClaimKept, SkipSends DEF Sound
<1>5. ASSUME NEW p \in Matching(k), SetRow(k, Adopted(k, p)),
             StepFor("pread", k, conv.todo \ {k}, conv.extra)
      PROVE  Sound
  <2>1. p \in Pids
    BY <1>5 DEF Matching, Mapex, ByComment
  <2>2. Adopted(k, p) \in Row /\ Adopted(k, p).st # "none"
    BY <2>1, RowValues
  <2>3. "pread" \in Labels \ {"create"}
    BY DEF Labels, Reads
  <2> QED
    BY <1>1, <1>5, <2>2, <2>3, ClaimKept, StepForSends DEF Sound
<1> QED
  BY <1>2, <1>3, <1>4, <1>5 DEF ReconcileRow

LEMMA ReconcilePositionSound == ASSUME TypeOK, NEW p \in Pids, ReconcilePosition(p) PROVE Sound
<1> DEFINE key == conv.seen[p].key
           orphan == [NoRow EXCEPT !.st = "OPEN", !.pid = p, !.mode = Mode, !.manual = TRUE]
<1>1. {} \in SUBSET RowIds /\ conv.extra \ {p} \in SUBSET Pids /\ conv.pc = "next"
  BY DEF TypeOK, Conv, ReconcilePosition, Looping
<1>2. CASE Skip({}, conv.extra \ {p}) /\ UNCHANGED row
  BY <1>1, <1>2, SkipSends, RowKept DEF Sound
<1>3. CASE key \in Setups /\ SetRow(key, Adopted(key, p)) /\ StepFor("pread", key, {}, conv.extra \ {p})
  <2>1. key \in RowIds
    BY <1>3 DEF RowIds
  <2>2. Adopted(key, p) \in Row /\ Adopted(key, p).st # "none"
    BY <2>1, RowValues
  <2>3. "pread" \in Labels \ {"create"}
    BY DEF Labels, Reads
  <2> QED
    BY <1>1, <1>3, <2>1, <2>2, <2>3, ClaimKept, StepForSends DEF Sound
<1>4. CASE Skip({}, conv.extra \ {p}) /\ SetRow(p, orphan)
  <2>1. orphan \in Row /\ orphan.st # "none"
    BY DEF NoRow, Row, OpenStates, Mode
  <2> QED
    BY <1>1, <1>4, <2>1, ClaimKept, SkipSends DEF Sound
<1> QED
  BY <1>2, <1>3, <1>4 DEF ReconcilePosition

LEMMA FlatSound == ASSUME TypeOK, NEW p \in Pids, FlatPosition(p) PROVE Sound
<1>1. "fclose" \in Labels \ {"create"} /\ p \in RowIds
      /\ {} \in SUBSET RowIds /\ conv.extra \ {p} \in SUBSET Pids
  BY DEF Labels, Closes, RowIds, TypeOK, Conv
<1> QED
  BY <1>1, StepForSends, RowKept DEF FlatPosition, Sound

LEMMA LoopSound == ASSUME TypeOK, FlatClosed \/ EndLoop PROVE Sound
  BY LeaveSends, RowKept DEF FlatClosed, EndLoop, Abort, Sound

LEMMA ConverseSound == ASSUME TypeOK, Converse PROVE Sound
  BY CreatedSound, PolledSound, ProtectSound, ListedSound, DealsReadSound, ManageRowSound,
     BreakevenSound, ReconcileRowSound, ReconcilePositionSound, FlatSound, LoopSound DEF Converse

\* Every move of the coroutine.
LEMMA AdvanceSound == ASSUME TypeOK, Advance PROVE Sound /\ TypeOK'
<1>1. CASE Converse /\ UNCHANGED <<kill, booked>>
  BY <1>1, ConverseSound DEF Advance, Sound, TypeOK
<1>2. CASE Trip
  BY <1>2, LeaveSends, RowKept DEF Advance, Trip, Sound, TypeOK
<1>3. CASE Record
  <2>1. booked' \in [RowIds -> Nat]
    <3>1. booked' = [k \in RowIds |-> IF k = Cur THEN booked[k] + 1 ELSE booked[k]]
      BY <1>3 DEF Record, TypeOK
    <3>2. \A k \in RowIds : booked[k] \in Nat /\ booked[k] + 1 \in Nat
      BY DEF TypeOK
    <3> QED
      BY <3>1, <3>2
  <2> QED
    BY <1>3, <2>1, LeaveSends, RowKept DEF Advance, Record, Sound, TypeOK
<1> QED
  BY <1>1, <1>2, <1>3 DEF Advance
-----------------------------------------------------------------------------
(* The other actors.                                                        *)
LEMMA BrokerMovesType == ASSUME TypeOK, BrokerMoves PROVE TypeOK'
<1>1. pos' \in [Pids -> Position] /\ inflight' \subseteq Setups
  <2>1. CASE \E k \in Setups : LateFill(k)
    BY <2>1, FillType DEF LateFill, TypeOK
  <2>2. ASSUME NEW p \in Pids, BecomesListed(p) \/ PositionExits(p) \/ OwnerAmends(p)
        PROVE  pos' \in [Pids -> Position] /\ inflight' \subseteq Setups
    <3>1. pos \in [Pids -> Position] /\ pos[p] \in Position
      BY DEF TypeOK
    <3>2. /\ [pos[p] EXCEPT !.st = "listed"] \in Position
          /\ [pos[p] EXCEPT !.legs = "owner"] \in Position
          /\ Closed(pos[p]) \in Position
      BY <3>1 DEF Position, Closed
    <3>3. PICK q \in Position : pos' = [pos EXCEPT ![p] = q] /\ UNCHANGED inflight
      BY <2>2, <3>1, <3>2 DEF BecomesListed, PositionExits, OwnerAmends
    <3> QED
      BY <3>1, <3>3 DEF TypeOK
  <2> QED
    BY <2>1, <2>2 DEF BrokerMoves
<1> QED
  BY <1>1 DEF BrokerMoves, TypeOK

LEMMA TimePassesType == ASSUME TypeOK, TimePasses PROVE TypeOK' /\ KeepsClaims
<1>1. PICK k \in RowIds : GraceEnds(k) \/ DeadlinePasses(k)
  BY DEF TimePasses
<1>2. PICK r : r \in Row /\ r.st = row[k].st /\ SetRow(k, r)
  <2>1. CASE GraceEnds(k)
    <3>1. [row[k] EXCEPT !.fresh = FALSE] \in Row
          /\ [row[k] EXCEPT !.fresh = FALSE].st = row[k].st
      BY DEF TypeOK, Row
    <3> QED
      BY <2>1, <3>1 DEF GraceEnds
  <2>2. CASE DeadlinePasses(k)
    <3>1. [row[k] EXCEPT !.late = TRUE] \in Row
          /\ [row[k] EXCEPT !.late = TRUE].st = row[k].st
      BY DEF TypeOK, Row
    <3> QED
      BY <2>2, <3>1 DEF DeadlinePasses
  <2> QED
    BY <1>1, <2>1, <2>2
<1>3. row' \in [RowIds -> Row] /\ KeepsClaims
  BY <1>2, ClaimKept
<1> QED
  BY <1>3 DEF TimePasses, TypeOK

LEMMA CrashType ==
  ASSUME TypeOK, conv.pc = "create" => Cur \in Setups,
         Crash, UNCHANGED <<row, kill, pos, booked>>
  PROVE  TypeOK'
<1>1. conv' \in Conv
  BY IdleType DEF Crash
<1>2. inflight' \subseteq Setups
  BY DEF Crash, Awaiting, TypeOK
<1>3. crashes' \in 0 .. MaxCrashes
  BY NumbersAssumption DEF Crash, TypeOK
<1>4. venue' \in {"live", "paper", "boot"}
  BY SetsAssumption DEF Crash
<1> QED
  BY <1>1, <1>2, <1>3, <1>4 DEF TypeOK

LEMMA ApplyEnvType == ASSUME TypeOK, ApplyEnv PROVE TypeOK'
  BY DEF ApplyEnv, TypeOK

LEMMA SwitchType ==
  ASSUME TypeOK, Stop \/ Resume, UNCHANGED <<row, venue, pos, inflight, conv, booked, crashes>>
  PROVE  TypeOK'
  BY DEF Stop, Resume, TypeOK
-----------------------------------------------------------------------------
(* The order invariant.  A step that leaves the keys of the positions and the *)
(* orders on their way alone, deletes no row and sends no order keeps it.     *)
SameKeys == \A p \in Pids : pos'[p].key = pos[p].key

LEMMA OrderKept ==
  ASSUME TypeOK, OrderInv, SameKeys, KeepsClaims, UNCHANGED inflight,
         conv'.pc = "create" =>
           /\ conv.pc = "create" /\ conv'.cur = conv.cur
           /\ conv'.reply \in {"none", "range", "tool", "auth"} =>
                conv.reply \in {"none", "range", "tool", "auth"}
  PROVE  OrderInv'
<1>1. \A k : HasPosition(k)' <=> HasPosition(k)
  BY DEF SameKeys, HasPosition
<1>2. \A k \in inflight : k \in RowIds
  BY DEF TypeOK, RowIds
<1>3. OnePositionPerSetup'
  BY DEF OrderInv, OnePositionPerSetup, SameKeys
<1>4. (\A k \in Setups : HasPosition(k) => row[k].st # "none")'
  BY <1>1 DEF OrderInv, KeepsClaims, RowIds
<1>5. (\A k \in inflight : row[k].st # "none" /\ ~HasPosition(k))'
  BY <1>1, <1>2 DEF OrderInv, KeepsClaims
<1>6. (conv.pc = "create" =>
         /\ Cur \in Setups /\ row[Cur].st # "none"
         /\ conv.reply \in {"none", "range", "tool", "auth"} => Cur \notin inflight /\ ~HasPosition(Cur))'
  BY <1>1 DEF OrderInv, KeepsClaims, RowIds, Cur
<1> QED
  BY <1>3, <1>4, <1>5, <1>6 DEF OrderInv

LEMMA OrderInit == Init => OrderInv
<1> SUFFICES ASSUME Init PROVE OrderInv
  OBVIOUS
<1>1. \A p \in Pids : pos[p].key = None
  BY DEF Init, NoPos
<1>2. None \notin Setups
  BY SetsAssumption
<1>3. inflight = {} /\ conv.pc = "idle"
  BY DEF Init, Idle
<1> QED
  BY <1>1, <1>2, <1>3 DEF OrderInv, OnePositionPerSetup, HasPosition

\* The claim is what keeps a second order from being sent.
LEMMA ExecuteOrder == ASSUME TypeOK, OrderInv, NEW k \in Setups, Execute(k) PROVE OrderInv'
<1>1. row[k].st = "none" /\ conv'.pc = "create" /\ conv'.cur = k
  BY DEF Execute, CheckEntry, Unclaimed, Idle
<1>2. k \notin inflight /\ ~HasPosition(k)
  BY <1>1 DEF OrderInv
<1>3. row'[k].st = "SENDING" /\ \A j \in RowIds \ {k} : row'[j] = row[j]
  BY DEF Execute, SetRow, TypeOK, RowIds, NoRow
<1>4. UNCHANGED <<pos, inflight>>
  BY DEF Execute
<1>5. inflight \subseteq RowIds /\ Setups \subseteq RowIds
  BY DEF TypeOK, RowIds
<1>6. \A j : HasPosition(j)' <=> HasPosition(j)
  BY <1>4 DEF HasPosition
<1>7. OnePositionPerSetup'
  BY <1>4 DEF OrderInv, OnePositionPerSetup
<1>8. \A j \in RowIds : row'[j].st = "none" => row[j].st = "none"
  BY <1>3
<1> QED
  BY <1>1, <1>2, <1>3, <1>4, <1>5, <1>6, <1>7, <1>8 DEF OrderInv, Cur

\* A fill puts a setup's one position where it had none.
LEMMA FillOrder ==
  ASSUME TypeOK, OrderInv, NEW k \in Setups, NEW p \in Pids, Fill(k, p), ~HasPosition(k)
  PROVE  /\ OnePositionPerSetup'
         /\ \A j : HasPosition(j)' => HasPosition(j) \/ j = k
<1>1. pos'[p].key = k /\ \A q \in Pids \ {p} : pos'[q].key = pos[q].key
  BY DEF Fill, TypeOK
<1>2. \A q \in Pids : pos[q].key # k
  BY DEF HasPosition
<1>3. OnePositionPerSetup'
  BY <1>1, <1>2 DEF OrderInv, OnePositionPerSetup
<1>4. \A j : HasPosition(j)' => HasPosition(j) \/ j = k
  BY <1>1 DEF HasPosition
<1> QED
  BY <1>3, <1>4

LEMMA ServeOrder == ASSUME TypeOK, OrderInv, Serve PROVE OrderInv'
<1> USE DEF Awaiting
<1>1. KeepsClaims
  BY DEF Serve, KeepsClaims
<1>2. ASSUME NEW r, Answer(r)
      PROVE  conv'.pc = conv.pc /\ conv'.cur = conv.cur /\ conv'.reply = r
  BY <1>2 DEF Answer, TypeOK, Conv
<1>3. ASSUME NEW kinds, Failure(kinds)
      PROVE  conv'.pc = conv.pc /\ conv'.cur = conv.cur /\ conv'.reply \in kinds
  BY <1>3, <1>2 DEF Failure
<1>4. CASE ServeCreate
  <2>1. /\ conv.pc = "create" /\ conv.reply = "none" /\ Cur \in Setups
        /\ row[Cur].st # "none" /\ Cur \notin inflight /\ ~HasPosition(Cur)
    BY <1>4 DEF ServeCreate, OrderInv
  <2>2. Cur \in RowIds /\ \A k \in RowIds : row'[k].st = row[k].st
    BY <2>1 DEF Serve, RowIds
  <2>3. CASE /\ \E p \in Pids : Fill(Cur, p)
             /\ Answer("ok") \/ Failure({"nopid", "transport"})
             /\ UNCHANGED inflight
    <3>1. conv'.pc = "create" /\ conv'.cur = Cur /\ conv'.reply \in {"ok", "nopid", "transport"}
      BY <2>1, <2>3, <1>2, <1>3 DEF Cur
    <3>2. /\ OnePositionPerSetup'
          /\ \A j : HasPosition(j)' => HasPosition(j) \/ j = Cur
      BY <2>1, <2>3, FillOrder
    <3> QED
      BY <2>1, <2>2, <2>3, <3>1, <3>2 DEF OrderInv, TypeOK, RowIds, Cur
  <2>4. CASE Failure({"range", "tool", "auth", "transport"}) /\ UNCHANGED <<pos, inflight>>
    <3>1. conv'.pc = "create" /\ conv'.cur = conv.cur
      BY <2>1, <2>4, <1>3
    <3>2. SameKeys
      BY <2>4 DEF SameKeys
    <3> QED
      BY <2>1, <2>4, <3>1, <3>2, <1>1, OrderKept
  <2>5. CASE /\ Failure({"transport"}) /\ UNCHANGED pos
             /\ inflight' = inflight \cup {Cur}
    <3>1. conv'.pc = "create" /\ conv'.cur = Cur /\ conv'.reply = "transport"
      BY <2>1, <2>5, <1>3 DEF Cur
    <3>2. (\A j : HasPosition(j)' <=> HasPosition(j)) /\ OnePositionPerSetup'
      BY <2>5 DEF HasPosition, OrderInv, OnePositionPerSetup
    <3> QED
      BY <2>1, <2>2, <2>5, <3>1, <3>2 DEF OrderInv, TypeOK, RowIds, Cur
  <2> QED
    BY <1>4, <2>3, <2>4, <2>5 DEF ServeCreate
<1>5. CASE ServeRead \/ ServeChange \/ ServeDeals
  <2>1. conv'.pc = conv.pc /\ conv.pc # "create"
    <3>1. CASE ServeRead
      BY <3>1, <1>3 DEF ServeRead, Reads, TypeOK, Conv
    <3>2. CASE ServeChange
      BY <3>2, <1>2, <1>3 DEF ServeChange, Amends, Closes
    <3>3. CASE ServeDeals
      BY <3>3, <1>2, <1>3 DEF ServeDeals
    <3> QED
      BY <1>5, <3>1, <3>2, <3>3
  <2>2. SameKeys /\ UNCHANGED inflight
    <3>1. \A q \in Position : Changed(q).key = q.key
      BY DEF Changed, Closed, Position
    <3>2. \A p \in Pids : pos[p] \in Position
      BY DEF TypeOK
    <3> QED
      BY <1>5, <3>1, <3>2 DEF ServeRead, ServeChange, ServeDeals, SameKeys, TypeOK
  <2> QED
    BY <1>1, <2>1, <2>2, OrderKept
<1> QED
  BY <1>4, <1>5 DEF Serve

LEMMA AdvanceOrder == ASSUME TypeOK, OrderInv, Advance PROVE OrderInv'
<1>1. Sound
  BY AdvanceSound
<1>2. SameKeys /\ UNCHANGED inflight
  BY DEF Advance, SameKeys
<1> QED
  BY <1>1, <1>2, OrderKept DEF Sound, SendsOnlyFallback

LEMMA BrokerMovesOrder == ASSUME TypeOK, OrderInv, BrokerMoves PROVE OrderInv'
<1>1. UNCHANGED <<row, conv>>
  BY DEF BrokerMoves
<1>2. ASSUME NEW k \in Setups, LateFill(k) PROVE OrderInv'
  <2>1. k \in inflight /\ inflight' = inflight \ {k} /\ row[k].st # "none" /\ ~HasPosition(k)
    BY <1>2 DEF LateFill, OrderInv
  <2>2. /\ OnePositionPerSetup'
        /\ \A j : HasPosition(j)' => HasPosition(j) \/ j = k
    <3>1. CASE UNCHANGED pos
      BY <3>1 DEF HasPosition, OrderInv, OnePositionPerSetup
    <3>2. CASE \E p \in Pids : Fill(k, p)
      BY <3>2, <2>1, FillOrder
    <3> QED
      BY <1>2, <3>1, <3>2 DEF LateFill
  <2>3. conv.pc = "create" /\ conv.reply \in {"none", "range", "tool", "auth"} => Cur # k
    BY <2>1 DEF OrderInv
  <2> QED
    BY <1>1, <2>1, <2>2, <2>3 DEF OrderInv, Cur
<1>3. ASSUME NEW p \in Pids, BecomesListed(p) \/ PositionExits(p) \/ OwnerAmends(p)
      PROVE  OrderInv'
  <2>1. SameKeys /\ UNCHANGED inflight
    <3>1. pos \in [Pids -> Position] /\ pos[p] \in Position
      BY DEF TypeOK
    <3>2. /\ [pos[p] EXCEPT !.st = "listed"].key = pos[p].key
          /\ [pos[p] EXCEPT !.legs = "owner"].key = pos[p].key
          /\ Closed(pos[p]).key = pos[p].key
      BY <3>1 DEF Position, Closed
    <3>3. PICK q : pos' = [pos EXCEPT ![p] = q] /\ q.key = pos[p].key /\ UNCHANGED inflight
      BY <1>3, <3>1, <3>2 DEF BecomesListed, PositionExits, OwnerAmends
    <3> QED
      BY <3>1, <3>3 DEF SameKeys
  <2> QED
    BY <1>1, <2>1, OrderKept DEF KeepsClaims
<1> QED
  BY <1>2, <1>3 DEF BrokerMoves

\* An order on its way when the process dies is still its setup's only one.
LEMMA CrashOrder ==
  ASSUME TypeOK, OrderInv, Crash, UNCHANGED <<row, kill, pos, booked>>
  PROVE  OrderInv'
<1>1. conv'.pc = "idle"
  BY DEF Crash, Idle
<1>2. (\A j : HasPosition(j)' <=> HasPosition(j)) /\ OnePositionPerSetup'
  BY DEF HasPosition, OrderInv, OnePositionPerSetup
<1>3. \A k \in inflight' : row[k].st # "none" /\ ~HasPosition(k)
  BY DEF Crash, Awaiting, OrderInv
<1> QED
  BY <1>1, <1>2, <1>3 DEF OrderInv
-----------------------------------------------------------------------------
(* The theorems.                                                            *)
Inv == TypeOK /\ OrderInv

LEMMA InvStep == Inv /\ [Next]_vars => Inv'
<1> SUFFICES ASSUME Inv, [Next]_vars PROVE Inv'
  OBVIOUS
<1> USE DEF Inv
<1>0. conv.pc = "create" => Cur \in Setups
  BY DEF OrderInv
<1>1. ASSUME NEW k \in Setups, Execute(k) PROVE Inv'
  BY <1>1, ExecuteType, ExecuteOrder
<1>2. ASSUME NEW op \in {"manage", "reconcile", "flat"}, Begin(op) PROVE Inv'
  <2>1. conv'.pc = "list"
    BY <1>2 DEF Begin, Idle
  <2>2. OrderInv'
    BY <1>2, <2>1, OrderKept DEF Begin, SameKeys, KeepsClaims
  <2> QED
    BY <1>2, <2>2, BeginType
<1>3. CASE Serve
  BY <1>0, <1>3, ServeType, ServeOrder
<1>4. CASE Advance
  BY <1>4, AdvanceSound, AdvanceOrder
<1>5. CASE BrokerMoves
  BY <1>5, BrokerMovesType, BrokerMovesOrder
<1>6. CASE TimePasses
  <2>1. UNCHANGED <<pos, inflight, conv>>
    BY <1>6 DEF TimePasses
  <2>2. SameKeys
    BY <2>1 DEF SameKeys
  <2> QED
    BY <1>6, <2>1, <2>2, TimePassesType, OrderKept
<1>7. CASE (Stop \/ Resume) /\ UNCHANGED <<row, venue, pos, inflight, conv, booked, crashes>>
  <2>1. OrderInv'
    BY <1>7, OrderKept DEF SameKeys, KeepsClaims
  <2> QED
    BY <1>7, <2>1, SwitchType
<1>8. CASE Crash /\ UNCHANGED <<row, kill, pos, booked>>
  BY <1>0, <1>8, CrashType, CrashOrder
<1>9. CASE ApplyEnv
  <2>1. UNCHANGED <<row, pos, inflight, conv>>
    BY <1>9 DEF ApplyEnv
  <2>2. OrderInv'
    BY <2>1, OrderKept DEF SameKeys, KeepsClaims
  <2> QED
    BY <1>9, <2>2, ApplyEnvType
<1>10. CASE UNCHANGED vars
  <2>1. TypeOK'
    BY <1>10 DEF vars, TypeOK
  <2>2. OrderInv'
    BY <1>10, OrderKept DEF vars, SameKeys, KeepsClaims
  <2> QED
    BY <2>1, <2>2
<1> QED
  BY <1>1, <1>2, <1>3, <1>4, <1>5, <1>6, <1>7, <1>8, <1>9, <1>10 DEF Next, Environment

\* The table, the positions and the coroutine stay within their types, for any number
\* of setups and positions and any combination of the faults.
THEOREM TypeCorrect == Spec => []TypeOK
<1>1. Init => Inv
  BY InitType, OrderInit DEF Inv
<1>2. Inv => TypeOK
  BY DEF Inv
<1> QED
  BY <1>1, <1>2, InvStep, PTL DEF Spec

\* The order invariant holds of every reachable state.
THEOREM OrderInvHolds == Spec => []OrderInv
<1>1. Init => Inv
  BY InitType, OrderInit DEF Inv
<1>2. Inv => OrderInv
  BY DEF Inv
<1> QED
  BY <1>1, <1>2, InvStep, PTL DEF Spec

\* create_order is effectively sent once: a setup never has two positions at the broker,
\* whatever is lost, late or refused and however often the process is killed.
THEOREM AtMostOnePosition == Spec => []OnePositionPerSetup
<1>1. OrderInv => OnePositionPerSetup
  BY DEF OrderInv
<1> QED
  BY <1>1, OrderInvHolds, PTL
=============================================================================
