--------------------------- MODULE DeliveryProofs ----------------------------
(* What reaches the owner: proofs about the outbox, for any number of processes,   *)
(* messages, parts and attempts.                                                   *)
EXTENDS LeadershipProperties, FiniteSetTheorems, WellFoundedInduction, TLAPS

Entry == [key : Keys, attempts : Nat, sent : BOOLEAN]
Flushing == [pc : {"idle", "send", "record"}, todo : SUBSET Nat, part : Nat, ok : BOOLEAN]
DeliveryTypes ==
  /\ outbox \in Seq(Entry)
  /\ delivered \in [Keys -> SUBSET Nat]
  /\ flush \in [Procs -> Flushing]

Whole(k) == delivered[k] = 1 .. Parts[k]
Done(i) == outbox[i].sent \/ outbox[i].attempts >= MaxAttempts

\* A text is shown only for a row, and the rows have different keys.
RowsOfKeys ==
  /\ \A i, j \in Ids : outbox[i].key = outbox[j].key => i = j
  /\ \A k \in Keys :
       /\ delivered[k] \subseteq 1 .. Parts[k]
       /\ delivered[k] # {} => \E i \in Ids : outbox[i].key = k

\* A flush has nothing but settled rows before those it still has to send, and what it
\* takes for sent has been shown.
FlushInv(p) ==
  flush[p].pc # "idle" =>
    /\ flush[p].todo # {} /\ flush[p].todo \subseteq Ids
    /\ \A i \in Ids, j \in flush[p].todo : i < j /\ i \notin flush[p].todo => Done(i)
    /\ flush[p].pc = "send" =>
         /\ flush[p].part \in 1 .. Parts[outbox[Row(p)].key]
         /\ flush[p].ok => \A n \in 1 .. flush[p].part - 1 : n \in delivered[outbox[Row(p)].key]
    /\ flush[p].pc = "record" /\ flush[p].ok => Whole(outbox[Row(p)].key)

DeliveryInv ==
  /\ DeliveryTypes /\ RowsOfKeys /\ SentWasDelivered /\ DeliveredInOrder
  /\ \A p \in Procs : FlushInv(p)

Below == {pair \in Nat \X Nat : pair[1] < pair[2]}

LEMMA LeastOfNats == ASSUME NEW S \in SUBSET Nat, S # {} PROVE \E x \in S : \A y \in S : x <= y
<1>1. IsWellFoundedOn(Below, Nat)
  BY NatLessThanWellFounded DEF OpToRel, Below
<1>2. PICK x \in S : \A y \in S : <<y, x>> \notin Below
  BY <1>1, WFMin
<1>3. ASSUME NEW y \in S, y < x PROVE FALSE
  <2> DEFINE pair == <<y, x>>
  <2>1. pair \in Nat \X Nat /\ pair[1] < pair[2]
    BY <1>3
  <2>2. pair \in Below
    BY <2>1 DEF Below
  <2>3. QED
    BY <1>2, <2>2
<1>4. QED
  BY <1>3

\* The row a flush is at is the first of those it still has to send.
LEMMA EarliestIsFirst ==
  ASSUME NEW S \in SUBSET Nat, S # {}
  PROVE  Earliest(S) \in S /\ \A j \in S : Earliest(S) <= j
BY LeastOfNats DEF Earliest

LEMMA RowIsFirst ==
  ASSUME DeliveryTypes, NEW p \in Procs, flush[p].todo # {}
  PROVE  Row(p) \in flush[p].todo /\ \A j \in flush[p].todo : Row(p) <= j
<1>1. flush[p].todo \in SUBSET Nat
  BY DEF DeliveryTypes, Flushing
<1>2. QED
  BY <1>1, EarliestIsFirst DEF Row

LEMMA InitDelivery == Init => DeliveryInv
<1> SUFFICES ASSUME Init PROVE DeliveryInv
  OBVIOUS
<1>1. outbox = <<>> /\ \A p \in Procs : flush[p] = NoFlush
  BY DEF Init
<1>2. NoFlush \in Flushing
  BY DEF NoFlush, Flushing
<1>3. delivered = [k \in Keys |-> {}] /\ flush \in [Procs -> Flushing]
  BY <1>2 DEF Init
<1>4. DeliveryTypes
  BY <1>1, <1>3 DEF DeliveryTypes
<1>5. RowsOfKeys /\ SentWasDelivered /\ DeliveredInOrder
  BY <1>1, <1>3 DEF RowsOfKeys, SentWasDelivered, DeliveredInOrder, Ids
<1>6. \A p \in Procs : FlushInv(p)
  BY <1>1 DEF FlushInv, NoFlush
<1>7. QED
  BY <1>4, <1>5, <1>6 DEF DeliveryInv

\* What every step keeps: rows stay where they are, sent stays sent, attempts only grow,
\* and nothing shown is taken back.
Grows ==
  /\ Len(outbox) <= Len(outbox')
  /\ \A i \in Ids :
       /\ outbox'[i].key = outbox[i].key
       /\ outbox[i].sent => outbox'[i].sent
       /\ outbox[i].attempts <= outbox'[i].attempts
  /\ \A k \in Keys : delivered[k] \subseteq delivered'[k]

LEMMA IdsGrow ==
  ASSUME DeliveryTypes, DeliveryTypes', Grows
  PROVE  /\ Ids \subseteq Ids'
         /\ \A i \in Ids, j \in Ids' : j < i => j \in Ids
         /\ \A i \in Ids : Done(i) => Done(i)'
         /\ \A i \in Ids : outbox[i] \in Entry
<1>1. \A i \in Ids : outbox[i] \in Entry
  BY DEF DeliveryTypes, Ids
<1>2. Len(outbox) \in Nat /\ Len(outbox') \in Nat
  BY DEF DeliveryTypes
<1>3. Ids \subseteq Ids' /\ \A i \in Ids, j \in Ids' : j < i => j \in Ids
  BY <1>2 DEF Ids, Grows
<1>4. \A i \in Ids' : outbox'[i] \in Entry
  BY DEF DeliveryTypes, Ids
<1>5. ASSUME NEW i \in Ids, Done(i) PROVE Done(i)'
  <2>1. outbox[i].attempts \in Nat /\ outbox'[i].attempts \in Nat /\ MaxAttempts \in Nat
    BY <1>1, <1>3, <1>4, LeadershipAssumption DEF LeadershipAssumption, Entry
  <2>2. CASE outbox[i].sent
    BY <2>2, Zenon DEF Done, Grows
  <2>3. CASE outbox[i].attempts >= MaxAttempts
    <3>1. outbox'[i].attempts >= MaxAttempts
      BY <2>1, <2>3 DEF Grows
    <3>2. QED
      BY <3>1, Zenon DEF Done
  <2>4. QED
    BY <1>5, <2>2, <2>3, Zenon DEF Done
<1>6. QED
  BY <1>1, <1>3, <1>5

\* A flush that is not touched by a step stays as it was.
LEMMA OtherFlush ==
  ASSUME DeliveryInv, DeliveryTypes', RowsOfKeys', Grows, NEW p \in Procs, flush'[p] = flush[p]
  PROVE  FlushInv(p)'
<1> SUFFICES ASSUME flush[p].pc # "idle" PROVE FlushInv(p)'
  BY DEF FlushInv
<1> DEFINE r == Row(p)
<1>1. DeliveryTypes /\ FlushInv(p)
  BY DEF DeliveryInv
<1>2. flush[p].todo # {} /\ flush[p].todo \subseteq Ids
  BY <1>1 DEF FlushInv
<1>3. r \in Ids /\ Row(p)' = r
  BY <1>1, <1>2, RowIsFirst DEF Row
<1>4. outbox'[r].key = outbox[r].key /\ outbox[r].key \in Keys
  <2>1. outbox[r] \in Entry
    BY <1>1, <1>3, IdsGrow, Zenon
  <2>2. QED
    BY <1>3, <2>1 DEF Grows, Entry
<1>5. ASSUME NEW i \in Ids', NEW j \in flush[p].todo, i < j, i \notin flush[p].todo PROVE Done(i)'
  <2>1. i \in Ids
    BY <1>1, <1>2, <1>5, IdsGrow
  <2>2. QED
    BY <1>1, <1>5, <2>1, IdsGrow DEF FlushInv
<1>6. flush[p].todo \subseteq Ids'
  BY <1>1, <1>2, IdsGrow
<1> DEFINE shown == delivered'[outbox'[r].key] = 1 .. Parts[outbox'[r].key]
<1>7. Whole(outbox[r].key) => shown
  BY <1>4 DEF Grows, RowsOfKeys, Whole
<1>8. ASSUME flush[p].pc = "send"
      PROVE  /\ flush[p].part \in 1 .. Parts[outbox'[r].key]
             /\ flush[p].ok => \A n \in 1 .. flush[p].part - 1 : n \in delivered'[outbox'[r].key]
  BY <1>1, <1>4, <1>8 DEF FlushInv, Grows
<1>9. ASSUME flush[p].pc = "record", flush[p].ok PROVE shown
  BY <1>1, <1>7, <1>9 DEF FlushInv
<1>10. QED
  BY <1>2, <1>3, <1>5, <1>6, <1>8, <1>9 DEF FlushInv, Whole

LEMMA RowTyped == ASSUME DeliveryTypes, NEW i \in Ids
                  PROVE outbox[i] \in Entry /\ outbox[i].key \in Keys /\ outbox[i].attempts \in Nat
<1>1. outbox[i] \in Entry
  BY DEF DeliveryTypes, Ids
<1>2. QED
  BY <1>1 DEF Entry

LEMMA IdleKeepsDelivery == DeliveryInv /\ UNCHANGED <<outbox, delivered, flush>> => DeliveryInv'
<1> SUFFICES ASSUME DeliveryInv, UNCHANGED <<outbox, delivered, flush>> PROVE DeliveryInv'
  OBVIOUS
<1>1. DeliveryTypes' /\ RowsOfKeys' /\ SentWasDelivered' /\ DeliveredInOrder'
  BY DEF DeliveryInv, DeliveryTypes, RowsOfKeys, SentWasDelivered, DeliveredInOrder, Ids
<1>2. Grows
  <2>1. \A i \in Ids : outbox[i].attempts \in Nat
    BY RowTyped DEF DeliveryInv
  <2>2. Len(outbox) \in Nat
    BY DEF DeliveryInv, DeliveryTypes
  <2>3. QED
    BY <2>1, <2>2 DEF Grows
<1>3. \A p \in Procs : FlushInv(p)'
  BY <1>1, <1>2, OtherFlush
<1>4. QED
  BY <1>1, <1>3 DEF DeliveryInv

LEMMA AddKeeps ==
  ASSUME DeliveryInv, NEW k \in Keys, OutboxAdd(k), UNCHANGED <<delivered, flush>>
  PROVE  DeliveryInv'
<1>1. CASE outbox' = outbox
  BY <1>1, IdleKeepsDelivery
<1>2. CASE outbox' # outbox
  <2> DEFINE new == [key |-> k, attempts |-> 0, sent |-> FALSE]
  <2>1. outbox' = Append(outbox, new) /\ \A i \in Ids : outbox[i].key # k
    BY <1>2 DEF OutboxAdd
  <2>2. outbox \in Seq(Entry) /\ new \in Entry
    BY DEF DeliveryInv, DeliveryTypes, Entry
  <2>3. /\ outbox' \in Seq(Entry) /\ Len(outbox') = Len(outbox) + 1
        /\ \A i \in Ids : outbox'[i] = outbox[i]
        /\ outbox'[Len(outbox) + 1] = new /\ new.key = k /\ ~new.sent
    BY <2>1, <2>2 DEF Ids
  <2>4. \A i \in Ids' : i \in Ids \/ i = Len(outbox) + 1
    BY <2>2, <2>3 DEF Ids
  <2>5. DeliveryTypes'
    BY <2>3 DEF DeliveryInv, DeliveryTypes
  <2>6. Grows
    <3>1. \A i \in Ids : outbox[i].attempts \in Nat
      BY RowTyped DEF DeliveryInv
    <3>2. \A i \in Ids : outbox[i].attempts <= outbox'[i].attempts
      BY <2>3, <3>1
    <3>3. QED
      BY <2>2, <2>3, <3>2 DEF Grows
  <2>7. RowsOfKeys'
    <3>1. ASSUME NEW i \in Ids', NEW j \in Ids', outbox'[i].key = outbox'[j].key PROVE i = j
      <4>1. CASE i \in Ids /\ j \in Ids
        BY <2>3, <3>1, <4>1 DEF DeliveryInv, RowsOfKeys
      <4>2. CASE i \notin Ids \/ j \notin Ids
        BY <2>1, <2>3, <2>4, <3>1, <4>2
      <4>3. QED
        BY <4>1, <4>2
    <3>2. Ids \subseteq Ids'
      BY <2>2, <2>3 DEF Ids
    <3>3. QED
      BY <2>3, <3>1, <3>2 DEF DeliveryInv, RowsOfKeys
  <2>8. SentWasDelivered'
    BY <2>3, <2>4 DEF DeliveryInv, SentWasDelivered
  <2>9. DeliveredInOrder'
    <3> SUFFICES ASSUME NEW i \in Ids', NEW j \in Ids', i < j, delivered[outbox'[j].key] # {}
                 PROVE  delivered[outbox'[i].key] = 1 .. Parts[outbox'[i].key] \/ outbox'[i].attempts >= MaxAttempts
      BY DEF DeliveredInOrder
    <3>1. j \in Ids
      BY <2>1, <2>3, <2>4 DEF DeliveryInv, RowsOfKeys
    <3>2. i \in Ids
      BY <2>2, <2>3, <3>1 DEF Ids
    <3>3. QED
      BY <2>3, <3>1, <3>2 DEF DeliveryInv, DeliveredInOrder
  <2>10. \A p \in Procs : FlushInv(p)'
    BY <2>5, <2>6, <2>7, OtherFlush
  <2>11. QED
    BY <2>5, <2>7, <2>8, <2>9, <2>10 DEF DeliveryInv
<1>3. QED
  BY <1>1, <1>2

\* A process that starts or is killed has no flush; the rest of the table stays.
LEMMA StopKeeps ==
  ASSUME DeliveryInv, NEW p \in Procs, flush' = [flush EXCEPT ![p] = NoFlush],
         UNCHANGED <<outbox, delivered>>
  PROVE  DeliveryInv'
<1>1. NoFlush \in Flushing /\ NoFlush.pc = "idle"
  BY DEF NoFlush, Flushing
<1>2. DeliveryTypes'
  BY <1>1 DEF DeliveryInv, DeliveryTypes
<1>3. RowsOfKeys' /\ SentWasDelivered' /\ DeliveredInOrder'
  BY DEF DeliveryInv, RowsOfKeys, SentWasDelivered, DeliveredInOrder, Ids
<1>4. Grows
  <2>1. \A i \in Ids : outbox[i].attempts \in Nat
    BY RowTyped DEF DeliveryInv
  <2>2. Len(outbox) \in Nat
    BY DEF DeliveryInv, DeliveryTypes
  <2>3. QED
    BY <2>1, <2>2 DEF Grows
<1>5. ASSUME NEW q \in Procs PROVE FlushInv(q)'
  <2>1. CASE q = p
    BY <1>1, <2>1 DEF FlushInv, DeliveryInv, DeliveryTypes
  <2>2. CASE q # p
    <3>1. flush'[q] = flush[q]
      BY <2>2 DEF DeliveryInv, DeliveryTypes
    <3>2. QED
      BY <1>2, <1>3, <1>4, <3>1, OtherFlush
  <2>3. QED
    BY <2>1, <2>2
<1>6. QED
  BY <1>2, <1>3, <1>5 DEF DeliveryInv

\* A flush starts with pending rows, and leaves out only settled ones before them.
LEMMA PendingFirst ==
  ASSUME DeliveryTypes
  PROVE  /\ OutboxPending \subseteq Ids
         /\ \A i \in Ids, j \in OutboxPending : i < j /\ i \notin OutboxPending => Done(i)
<1>1. OutboxPending \subseteq Rows /\ Rows \subseteq Ids
  BY DEF OutboxPending, Rows
<1>2. ASSUME NEW i \in Rows, NEW j \in OutboxPending, i < j PROVE i \in OutboxPending
  <2> DEFINE upTo(n) == {m \in Rows : m <= n}
  <2>1. i \in Nat /\ j \in Nat /\ Ids \subseteq Nat /\ Len(outbox) \in Nat
    BY <1>1 DEF Ids, DeliveryTypes
  <2>2. upTo(i) \subseteq upTo(j)
    <3>1. ASSUME NEW m \in Rows, m <= i PROVE m <= j
      BY <1>1, <1>2, <2>1, <3>1
    <3>2. QED
      BY <3>1
  <2>3. IsFiniteSet(upTo(j))
    <3>1. IsFiniteSet(Ids)
      BY <2>1, FS_Interval DEF Ids
    <3>2. upTo(j) \subseteq Ids
      BY <1>1
    <3>3. QED
      BY <3>1, <3>2, FS_Subset
  <2>4. Cardinality(upTo(i)) <= Cardinality(upTo(j)) /\ IsFiniteSet(upTo(i))
    BY <2>2, <2>3, FS_Subset
  <2>5. Cardinality(upTo(i)) \in Nat /\ Cardinality(upTo(j)) \in Nat /\ Limit \in Nat
    BY <2>3, <2>4, FS_CardinalityType, LeadershipAssumption DEF LeadershipAssumption
  <2>6. Cardinality(upTo(j)) <= Limit
    BY DEF OutboxPending
  <2>7. Cardinality(upTo(i)) <= Limit
    BY <2>4, <2>5, <2>6
  <2>8. QED
    BY <2>7 DEF OutboxPending
<1>3. ASSUME NEW i \in Ids, i \notin Rows PROVE Done(i)
  <2>1. ~Pending(i) /\ outbox[i].attempts \in Nat /\ MaxAttempts \in Nat
    BY <1>3, RowTyped, LeadershipAssumption DEF LeadershipAssumption, Rows
  <2>2. CASE outbox[i].sent
    BY <2>2, Zenon DEF Done
  <2>3. CASE ~outbox[i].sent
    <3>1. ~(outbox[i].attempts < MaxAttempts)
      BY <2>1, <2>3, Zenon DEF Pending
    <3>2. outbox[i].attempts >= MaxAttempts
      BY <2>1, <3>1
    <3>3. QED
      BY <3>2, Zenon DEF Done
  <2>4. QED
    BY <2>2, <2>3
<1>4. QED
  BY <1>1, <1>2, <1>3

LEMMA FlushStartKeeps == ASSUME DeliveryInv, NEW p \in Procs, FlushStart(p) PROVE DeliveryInv'
<1> DEFINE f == [NoFlush EXCEPT !.pc = "send", !.todo = OutboxPending]
<1>1. /\ UNCHANGED <<outbox, delivered>> /\ OutboxPending # {}
      /\ flush' = [flush EXCEPT ![p] = f]
  BY DEF FlushStart, store, telegram
<1>2. /\ f.pc = "send" /\ f.todo = OutboxPending /\ f.part = 1 /\ f.ok /\ f \in Flushing
      /\ OutboxPending \subseteq Ids
  <2>1. OutboxPending \subseteq Ids /\ Ids \subseteq Nat
    BY PendingFirst DEF DeliveryInv, Ids
  <2>2. QED
    BY <2>1 DEF NoFlush, Flushing
<1>3. DeliveryTypes' /\ flush'[p] = f
  BY <1>1, <1>2 DEF DeliveryInv, DeliveryTypes
<1>4. RowsOfKeys' /\ SentWasDelivered' /\ DeliveredInOrder'
  BY <1>1 DEF DeliveryInv, RowsOfKeys, SentWasDelivered, DeliveredInOrder, Ids
<1>5. Grows
  <2>1. \A i \in Ids : outbox[i].attempts \in Nat
    BY RowTyped DEF DeliveryInv
  <2>2. Len(outbox) \in Nat
    BY DEF DeliveryInv, DeliveryTypes
  <2>3. QED
    BY <1>1, <2>1, <2>2 DEF Grows
<1>6. FlushInv(p)'
  <2> DEFINE r == Earliest(OutboxPending)
  <2>1. r \in OutboxPending
    BY <1>1, <1>2, EarliestIsFirst DEF Ids
  <2>2. Row(p)' = r
    BY <1>2, <1>3 DEF Row
  <2>3. Parts[outbox[r].key] \in Nat \ {0}
    BY <1>2, <2>1, RowTyped, LeadershipAssumption DEF LeadershipAssumption, DeliveryInv
  <2>4. \A i \in Ids, j \in OutboxPending : i < j /\ i \notin OutboxPending => Done(i)
    BY PendingFirst DEF DeliveryInv
  <2>5. Ids' = Ids /\ \A i \in Ids : Done(i)' = Done(i)
    BY <1>1 DEF Ids, Done
  <2>6. 1 \in 1 .. Parts[outbox[r].key] /\ 1 .. 1 - 1 = {}
    BY <2>3
  <2>7. QED
    BY <1>1, <1>2, <1>3, <2>2, <2>4, <2>5, <2>6 DEF FlushInv
<1>7. ASSUME NEW q \in Procs, q # p PROVE FlushInv(q)'
  <2>1. flush'[q] = flush[q]
    BY <1>1, <1>7 DEF DeliveryInv, DeliveryTypes
  <2>2. QED
    BY <1>3, <1>4, <1>5, <2>1, OtherFlush
<1>8. QED
  BY <1>3, <1>4, <1>6, <1>7 DEF DeliveryInv

\* What holds of the row a flush is sending.
LEMMA Sending ==
  ASSUME DeliveryInv, NEW p \in Procs, flush[p].pc # "idle"
  PROVE  /\ Row(p) \in Ids /\ Row(p) \in flush[p].todo /\ outbox[Row(p)].key \in Keys
         /\ flush[p].todo \subseteq Ids /\ flush[p] \in Flushing
         /\ Parts[outbox[Row(p)].key] \in Nat \ {0}
         /\ \A i \in Ids : i < Row(p) => Done(i)
<1>1. DeliveryTypes /\ FlushInv(p)
  BY DEF DeliveryInv
<1>2. flush[p].todo # {} /\ flush[p].todo \subseteq Ids
  BY <1>1 DEF FlushInv
<1>3. Row(p) \in flush[p].todo /\ \A j \in flush[p].todo : Row(p) <= j
  BY <1>1, <1>2, RowIsFirst
<1>4. outbox[Row(p)].key \in Keys
  BY <1>1, <1>2, <1>3, RowTyped
<1>5. Parts[outbox[Row(p)].key] \in Nat \ {0}
  BY <1>4, LeadershipAssumption DEF LeadershipAssumption
<1>6. ASSUME NEW i \in Ids, i < Row(p) PROVE Done(i)
  <2>1. i \in Nat /\ Row(p) \in Nat
    BY <1>2, <1>3 DEF Ids
  <2>2. i \notin flush[p].todo
    BY <1>3, <1>6, <2>1
  <2>3. QED
    BY <1>1, <1>3, <1>6, <2>2 DEF FlushInv
<1>7. flush[p] \in Flushing
  BY <1>1 DEF DeliveryTypes
<1>8. QED
  BY <1>2, <1>3, <1>4, <1>5, <1>6, <1>7

\* Showing the next part of the row a flush is at keeps the order of the messages.
LEMMA DeliverKeeps ==
  ASSUME DeliveryInv, NEW p \in Procs, flush[p].pc = "send", Deliver(p), outbox' = outbox
  PROVE  /\ RowsOfKeys' /\ SentWasDelivered' /\ DeliveredInOrder' /\ Grows
         /\ delivered' \in [Keys -> SUBSET Nat]
         /\ delivered'[outbox[Row(p)].key] = delivered[outbox[Row(p)].key] \cup {flush[p].part}
<1> DEFINE r == Row(p)
           k == outbox[r].key
           n == flush[p].part
<1>1. r \in Ids /\ k \in Keys /\ \A i \in Ids : i < r => Done(i)
  BY Sending
<1>2. n \in 1 .. Parts[k]
  BY DEF DeliveryInv, FlushInv
<1>3. Parts[k] \in Nat
  BY Sending
<1>4. n \in Nat
  BY <1>2, <1>3
<1>5. /\ delivered \in [Keys -> SUBSET Nat]
      /\ delivered' = [delivered EXCEPT ![k] = @ \cup {n}]
  BY DEF DeliveryInv, DeliveryTypes, Deliver
<1>6. /\ delivered' \in [Keys -> SUBSET Nat] /\ delivered'[k] = delivered[k] \cup {n}
      /\ \A l \in Keys : l # k => delivered'[l] = delivered[l]
  BY <1>1, <1>4, <1>5
<1>7. Grows
  <2>1. \A i \in Ids : outbox[i].attempts \in Nat
    BY RowTyped DEF DeliveryInv
  <2>2. Len(outbox) \in Nat
    BY DEF DeliveryInv, DeliveryTypes
  <2>3. \A l \in Keys : delivered[l] \subseteq delivered'[l]
    BY <1>6
  <2>4. QED
    BY <2>1, <2>2, <2>3 DEF Grows
<1>8. \A l \in Keys : delivered'[l] \subseteq 1 .. Parts[l]
  BY <1>2, <1>6 DEF DeliveryInv, RowsOfKeys
<1>9. RowsOfKeys'
  <2>1. \A l \in Keys : delivered'[l] # {} => \E i \in Ids : outbox[i].key = l
    BY <1>1, <1>6 DEF DeliveryInv, RowsOfKeys
  <2>2. QED
    BY <1>8, <2>1 DEF DeliveryInv, RowsOfKeys, Ids
<1>10. ASSUME NEW i \in Ids, Whole(outbox[i].key)
       PROVE  delivered'[outbox[i].key] = 1 .. Parts[outbox[i].key]
  <2>1. outbox[i].key \in Keys
    BY RowTyped DEF DeliveryInv
  <2>2. QED
    BY <1>7, <1>8, <1>10, <2>1 DEF Whole, Grows
<1>11. SentWasDelivered'
  BY <1>10 DEF DeliveryInv, SentWasDelivered, Whole, Ids
<1>12. DeliveredInOrder'
  <2> SUFFICES ASSUME NEW i \in Ids, NEW j \in Ids, i < j, delivered'[outbox[j].key] # {}
               PROVE  delivered'[outbox[i].key] = 1 .. Parts[outbox[i].key] \/ outbox[i].attempts >= MaxAttempts
    BY DEF DeliveredInOrder, Ids
  <2>1. CASE j = r
    <3>1. Done(i)
      BY <1>1, <2>1
    <3>2. Whole(outbox[i].key) \/ outbox[i].attempts >= MaxAttempts
      <4>1. CASE outbox[i].sent
        BY <4>1 DEF DeliveryInv, SentWasDelivered, Whole
      <4>2. CASE outbox[i].attempts >= MaxAttempts
        BY <4>2
      <4>3. QED
        BY <3>1, <4>1, <4>2, Zenon DEF Done
    <3>3. QED
      BY <1>10, <3>2
  <2>2. CASE j # r
    <3>1. outbox[j].key # k /\ outbox[j].key \in Keys
      BY <1>1, <2>2, RowTyped DEF DeliveryInv, RowsOfKeys
    <3>2. delivered[outbox[j].key] # {}
      BY <1>6, <3>1
    <3>3. Whole(outbox[i].key) \/ outbox[i].attempts >= MaxAttempts
      BY <3>2 DEF DeliveryInv, DeliveredInOrder, Whole
    <3>4. QED
      BY <1>10, <3>3
  <2>3. QED
    BY <2>1, <2>2
<1>13. QED
  BY <1>6, <1>7, <1>9, <1>11, <1>12

LEMMA SendAnsweredKeeps == ASSUME DeliveryInv, NEW p \in Procs, SendAnswered(p) PROVE DeliveryInv'
<1> DEFINE r == Row(p)
           k == outbox[r].key
           last == flush[p].part = Parts[k]
<1>1. PICK ok \in BOOLEAN :
        /\ IF ok THEN Deliver(p) ELSE UNCHANGED delivered
        /\ flush' = [flush EXCEPT ![p].ok = AllParts(flush[p], ok),
                                  ![p].pc = IF last THEN "record" ELSE "send",
                                  ![p].part = IF last THEN 1 ELSE @ + 1]
  BY DEF SendAnswered
<1>2. flush[p].pc = "send" /\ outbox' = outbox
  BY DEF SendAnswered, store
<1>3. /\ r \in Ids /\ k \in Keys /\ Parts[k] \in Nat \ {0} /\ flush[p] \in Flushing
      /\ flush[p].todo \subseteq Ids
  BY <1>2, Sending
<1>4. /\ RowsOfKeys' /\ SentWasDelivered' /\ DeliveredInOrder' /\ Grows
      /\ delivered' \in [Keys -> SUBSET Nat]
      /\ delivered'[k] = IF ok THEN delivered[k] \cup {flush[p].part} ELSE delivered[k]
  <2>1. CASE ok
    BY <1>1, <1>2, <2>1, DeliverKeeps
  <2>2. CASE ~ok
    <3>1. delivered' = delivered
      BY <1>1, <2>2
    <3>2. \A i \in Ids : outbox[i].attempts \in Nat
      BY RowTyped DEF DeliveryInv
    <3>3. Len(outbox) \in Nat
      BY DEF DeliveryInv, DeliveryTypes
    <3>4. Grows
      BY <1>2, <3>1, <3>2, <3>3 DEF Grows
    <3>5. RowsOfKeys' /\ SentWasDelivered' /\ DeliveredInOrder'
      BY <1>2, <3>1 DEF DeliveryInv, RowsOfKeys, SentWasDelivered, DeliveredInOrder, Ids
    <3>6. QED
      BY <2>2, <3>1, <3>4, <3>5 DEF DeliveryInv, DeliveryTypes
  <2>3. QED
    BY <1>1, <2>1, <2>2
<1>5. flush[p].part \in 1 .. Parts[k]
  BY <1>2 DEF DeliveryInv, FlushInv
<1>6. /\ flush'[p] = [pc |-> IF last THEN "record" ELSE "send", todo |-> flush[p].todo,
                      part |-> IF last THEN 1 ELSE flush[p].part + 1, ok |-> flush[p].ok /\ ok]
      /\ \A q \in Procs : q # p => flush'[q] = flush[q]
  BY <1>1, <1>3 DEF DeliveryInv, DeliveryTypes, Flushing, AllParts
<1>7. flush' \in [Procs -> Flushing]
  <2>1. flush[p].part \in Nat
    BY <1>3, <1>5
  <2>2. flush'[p] \in Flushing
    BY <1>3, <1>6, <2>1 DEF Flushing
  <2>3. QED
    BY <1>1, <1>6, <2>2 DEF DeliveryInv, DeliveryTypes
<1>8. DeliveryTypes'
  BY <1>2, <1>4, <1>7 DEF DeliveryInv, DeliveryTypes
<1>9. FlushInv(p)'
  <2>1. Row(p)' = r
    BY <1>6 DEF Row
  <2>2. /\ flush[p].todo # {}
        /\ \A i \in Ids, j \in flush[p].todo : i < j /\ i \notin flush[p].todo => Done(i)
        /\ flush[p].ok => \A n \in 1 .. flush[p].part - 1 : n \in delivered[k]
    BY <1>2 DEF DeliveryInv, FlushInv
  <2>3. Ids' = Ids /\ \A i \in Ids : Done(i)' = Done(i)
    BY <1>2 DEF Ids, Done
  <2>4. ASSUME flush[p].ok, ok PROVE \A n \in 1 .. flush[p].part : n \in delivered'[k]
    <3>1. ASSUME NEW n \in 1 .. flush[p].part PROVE n \in delivered'[k]
      <4>1. n = flush[p].part \/ n \in 1 .. flush[p].part - 1
        BY <1>3, <1>5
      <4>2. QED
        BY <1>4, <2>2, <2>4, <4>1
    <3>2. QED
      BY <3>1
  <2>5. /\ flush'[p].todo # {} /\ flush'[p].todo \subseteq Ids'
        /\ \A i \in Ids', j \in flush'[p].todo : i < j /\ i \notin flush'[p].todo => Done(i)'
        /\ outbox'[Row(p)'].key = k
    BY <1>2, <1>3, <1>6, <2>1, <2>2, <2>3
  <2>6. flush'[p].ok = (flush[p].ok /\ ok) /\ flush'[p].pc = IF last THEN "record" ELSE "send"
    BY <1>6
  <2>7. CASE ~last
    <3>1. flush[p].part + 1 \in 1 .. Parts[k] /\ (flush[p].part + 1) - 1 = flush[p].part
      BY <1>3, <1>5, <2>7
    <3>2. flush'[p].part = flush[p].part + 1
      BY <1>6, <2>7
    <3>3. ASSUME flush'[p].ok PROVE \A n \in 1 .. flush'[p].part - 1 : n \in delivered'[k]
      BY <2>4, <2>6, <3>1, <3>2, <3>3
    <3>4. flush'[p].part \in 1 .. Parts[k] /\ flush'[p].pc = "send"
      BY <2>6, <2>7, <3>1, <3>2
    <3>5. QED
      BY <2>5, <3>3, <3>4 DEF FlushInv
  <2>8. CASE last
    <3>1. ASSUME flush[p].ok, ok PROVE delivered'[k] = 1 .. Parts[k]
      <4>1. delivered'[k] \subseteq 1 .. Parts[k]
        BY <1>3, <1>4 DEF RowsOfKeys
      <4>2. QED
        BY <2>4, <2>8, <3>1, <4>1
    <3>2. flush'[p].ok => delivered'[k] = 1 .. Parts[k]
      BY <2>6, <3>1
    <3>3. flush'[p].pc = "record"
      BY <2>6, <2>8
    <3>4. QED
      BY <2>5, <3>2, <3>3 DEF FlushInv, Whole
  <2>9. QED
    BY <2>7, <2>8
<1>10. ASSUME NEW q \in Procs, q # p PROVE FlushInv(q)'
  BY <1>4, <1>6, <1>8, <1>10, OtherFlush
<1>11. QED
  BY <1>4, <1>8, <1>9, <1>10 DEF DeliveryInv

\* A call that raised has shown the part or not, and the flush is dropped.
LEMMA SendRaisesKeeps == ASSUME DeliveryInv, NEW p \in Procs, SendRaises(p) PROVE DeliveryInv'
<1>1. /\ flush[p].pc = "send" /\ outbox' = outbox /\ flush' = [flush EXCEPT ![p] = NoFlush]
      /\ Deliver(p) \/ UNCHANGED delivered
  BY DEF SendRaises, store
<1>2. CASE UNCHANGED delivered
  BY <1>1, <1>2, StopKeeps
<1>3. CASE Deliver(p)
  <2>1. NoFlush \in Flushing /\ NoFlush.pc = "idle"
    BY DEF NoFlush, Flushing
  <2>2. /\ RowsOfKeys' /\ SentWasDelivered' /\ DeliveredInOrder' /\ Grows
        /\ delivered' \in [Keys -> SUBSET Nat]
    BY <1>1, <1>3, DeliverKeeps
  <2>3. DeliveryTypes' /\ flush'[p].pc = "idle" /\ \A q \in Procs : q # p => flush'[q] = flush[q]
    BY <1>1, <2>1, <2>2 DEF DeliveryInv, DeliveryTypes
  <2>4. FlushInv(p)'
    BY <2>3 DEF FlushInv
  <2>5. ASSUME NEW q \in Procs, q # p PROVE FlushInv(q)'
    BY <2>2, <2>3, <2>5, OtherFlush
  <2>6. QED
    BY <2>2, <2>3, <2>4, <2>5 DEF DeliveryInv
<1>4. QED
  BY <1>1, <1>2, <1>3

\* Only a message that was shown whole is marked, and the flush goes on behind it.
LEMMA RecordSentKeeps == ASSUME DeliveryInv, NEW p \in Procs, RecordSent(p) PROVE DeliveryInv'
<1> DEFINE r == Row(p)
           done == Recorded(outbox[r], flush[p].ok)
           rest == AfterRow(p) \ {r}
           f == IF rest = {} THEN NoFlush ELSE [NoFlush EXCEPT !.pc = "send", !.todo = rest]
<1>1. /\ flush[p].pc = "record" /\ delivered' = delivered
      /\ outbox' = [outbox EXCEPT ![r] = done] /\ flush' = [flush EXCEPT ![p] = f]
  BY DEF RecordSent, telegram
<1>2. /\ r \in Ids /\ r \in flush[p].todo /\ flush[p].todo \subseteq Ids
      /\ outbox[r] \in Entry /\ outbox[r].key \in Keys /\ flush[p] \in Flushing
  <2>1. r \in Ids /\ r \in flush[p].todo /\ flush[p].todo \subseteq Ids /\ flush[p] \in Flushing
    BY <1>1, Sending
  <2>2. QED
    BY <2>1, RowTyped DEF DeliveryInv
<1>3. flush[p].ok => Whole(outbox[r].key)
  BY <1>1 DEF DeliveryInv, FlushInv
<1>4. /\ done = [key |-> outbox[r].key, attempts |-> outbox[r].attempts + 1,
                 sent |-> outbox[r].sent \/ flush[p].ok]
      /\ done \in Entry
  <2> DEFINE b == outbox[r].sent \/ flush[p].ok
  <2>1. b \in BOOLEAN
    OBVIOUS
  <2>2. done = [key |-> outbox[r].key, attempts |-> outbox[r].attempts + 1, sent |-> b]
    <3>1. outbox[r] = [key |-> outbox[r].key, attempts |-> outbox[r].attempts, sent |-> outbox[r].sent]
      BY <1>2 DEF Entry
    <3>2. done = [[outbox[r] EXCEPT !.sent = b] EXCEPT !.attempts = outbox[r].attempts + 1]
      BY <1>2 DEF Recorded, Entry
    <3>3. QED
      BY <3>1, <3>2
  <2> HIDE DEF b
  <2>3. [key |-> outbox[r].key, attempts |-> outbox[r].attempts + 1, sent |-> b] \in Entry
    BY <1>2, <2>1 DEF Entry
  <2>4. QED
    BY <2>2, <2>3 DEF b
<1>5. /\ outbox' \in Seq(Entry) /\ Len(outbox') = Len(outbox) /\ Len(outbox) \in Nat
      /\ outbox'[r] = done /\ \A i \in Ids : i # r => outbox'[i] = outbox[i]
  BY <1>1, <1>2, <1>4 DEF DeliveryInv, DeliveryTypes, Ids
<1>6. Ids' = Ids /\ \A i \in Ids : outbox'[i].key = outbox[i].key
  BY <1>4, <1>5 DEF Ids
<1>7. Grows
  <2>1. \A i \in Ids : outbox[i].attempts \in Nat
    BY RowTyped DEF DeliveryInv
  <2>2. ASSUME NEW i \in Ids, outbox[i].sent PROVE outbox'[i].sent
    <3>1. CASE i = r
      <4>1. outbox'[i].sent = (outbox[i].sent \/ flush[p].ok)
        BY <1>4, <1>5, <3>1
      <4>2. QED
        BY <2>2, <4>1
    <3>2. CASE i # r
      BY <1>5, <2>2, <3>2
    <3>3. QED
      BY <3>1, <3>2
  <2>3. \A i \in Ids : outbox[i].attempts <= outbox'[i].attempts
    BY <1>4, <1>5, <2>1
  <2>4. QED
    BY <1>1, <1>5, <1>6, <2>2, <2>3 DEF Grows
<1>8. RowsOfKeys'
  BY <1>1, <1>6 DEF DeliveryInv, RowsOfKeys
<1>9. SentWasDelivered'
  <2>1. ASSUME NEW i \in Ids, outbox'[i].sent PROVE Whole(outbox[i].key)
    <3>1. CASE outbox[i].sent
      BY <3>1 DEF DeliveryInv, SentWasDelivered, Whole
    <3>2. CASE ~outbox[i].sent
      <4>1. i = r
        BY <1>5, <2>1, <3>2
      <4>2. outbox'[i].sent = (outbox[i].sent \/ flush[p].ok)
        BY <1>4, <1>5, <4>1
      <4>3. flush[p].ok
        BY <2>1, <3>2, <4>2
      <4>4. QED
        BY <1>3, <4>1, <4>3
    <3>3. QED
      BY <3>1, <3>2
  <2>2. QED
    BY <1>1, <1>6, <2>1 DEF SentWasDelivered, Whole
<1>10. DeliveredInOrder'
  <2>1. \A i \in Ids : /\ outbox[i].attempts \in Nat /\ outbox'[i].attempts \in Nat
                       /\ outbox[i].attempts <= outbox'[i].attempts
    <3>1. \A i \in Ids : outbox[i].attempts \in Nat
      BY RowTyped DEF DeliveryInv
    <3>2. QED
      BY <1>4, <1>5, <1>7, <3>1 DEF Grows
  <2>2. \A i \in Ids : outbox[i].attempts >= MaxAttempts => outbox'[i].attempts >= MaxAttempts
    BY <2>1, LeadershipAssumption DEF LeadershipAssumption
  <2>3. QED
    BY <1>1, <1>6, <2>2 DEF DeliveryInv, DeliveredInOrder
<1>11. /\ rest \subseteq Ids /\ f \in Flushing /\ flush'[p] = f
       /\ \A q \in Procs : q # p => flush'[q] = flush[q]
  <2>1. rest \subseteq Ids /\ Ids \subseteq Nat
    BY <1>2 DEF AfterRow, Ids
  <2>2. f \in Flushing
    BY <2>1 DEF NoFlush, Flushing
  <2>3. QED
    BY <1>1, <2>1, <2>2 DEF DeliveryInv, DeliveryTypes
<1>12. DeliveryTypes'
  BY <1>1, <1>5, <1>11 DEF DeliveryInv, DeliveryTypes
<1>13. FlushInv(p)'
  <2>1. CASE rest = {}
    BY <1>11, <2>1 DEF FlushInv, NoFlush
  <2>2. CASE rest # {}
    <3>1. flush'[p].pc = "send" /\ flush'[p].todo = rest /\ flush'[p].part = 1
      BY <1>11, <2>2 DEF NoFlush
    <3>2. flush[p].ok /\ rest = flush[p].todo \ {r}
      BY <2>2 DEF AfterRow
    <3>3. ASSUME NEW i \in Ids, NEW j \in rest, i < j, i \notin rest PROVE Done(i)'
      <4>1. CASE i = r
        <5>1. outbox'[i].sent = (outbox[i].sent \/ flush[p].ok)
          BY <1>4, <1>5, <4>1
        <5>2. outbox'[i].sent
          BY <3>2, <5>1
        <5>3. QED
          BY <5>2, Zenon DEF Done
      <4>2. CASE i # r
        <5>1. Done(i)
          BY <1>1, <3>2, <3>3, <4>2 DEF DeliveryInv, FlushInv
        <5>2. QED
          BY <1>7, <1>12, <5>1, IdsGrow DEF DeliveryInv
      <4>3. QED
        BY <4>1, <4>2
    <3>4. Row(p)' \in rest
      <4>1. rest \in SUBSET Nat /\ Row(p)' = Earliest(rest)
        <5>1. Ids \subseteq Nat
          BY DEF Ids
        <5>2. rest \in SUBSET Nat
          BY <1>11, <5>1, Zenon
        <5>3. Row(p)' = Earliest(flush'[p].todo)
          BY DEF Row
        <5>4. QED
          BY <3>1, <5>2, <5>3
      <4>2. QED
        BY <2>2, <4>1, EarliestIsFirst
    <3>5. Row(p)' \in Ids' /\ Parts[outbox'[Row(p)'].key] \in Nat \ {0}
      <4>1. Row(p)' \in Ids
        BY <1>11, <3>4
      <4>2. outbox[Row(p)'].key \in Keys
        BY <4>1, RowTyped DEF DeliveryInv
      <4>3. QED
        BY <1>6, <4>1, <4>2, LeadershipAssumption DEF LeadershipAssumption
    <3>6. 1 \in 1 .. Parts[outbox'[Row(p)'].key] /\ 1 .. 1 - 1 = {}
      BY <3>5
    <3>7. QED
      BY <1>6, <1>11, <2>2, <3>1, <3>3, <3>6 DEF FlushInv
  <2>3. QED
    BY <2>1, <2>2
<1>14. ASSUME NEW q \in Procs, q # p PROVE FlushInv(q)'
  BY <1>7, <1>8, <1>11, <1>12, <1>14, OtherFlush
<1>15. QED
  BY <1>8, <1>9, <1>10, <1>12, <1>13, <1>14 DEF DeliveryInv

LEMMA NextKeepsDelivery == DeliveryInv /\ [Next]_vars => DeliveryInv'
<1> SUFFICES ASSUME DeliveryInv, [Next]_vars PROVE DeliveryInv'
  OBVIOUS
<1>1. CASE Tick \/ Arrive
  BY <1>1, IdleKeepsDelivery DEF Tick, Arrive, store, telegram
<1>2. ASSUME NEW p \in Procs, Boot(p) \/ Crash(p) PROVE DeliveryInv'
  BY <1>2, StopKeeps DEF Boot, Crash, telegram
<1>3. ASSUME NEW p \in Procs, Started(p) \/ Trip(p) \/ Tell(p) PROVE DeliveryInv'
  <2>1. (\E k \in Keys : OutboxAdd(k)) /\ UNCHANGED <<delivered, flush>>
    BY <1>3 DEF Started, Trip, Tell, telegram, Keys
  <2>2. QED
    BY <2>1, AddKeeps
<1>4. ASSUME NEW p \in Procs, LeaseTick(p) PROVE DeliveryInv'
  BY <1>4, IdleKeepsDelivery DEF LeaseTick, telegram
<1>5. ASSUME NEW p \in Procs, PollStart(p) \/ PollAnswered(p) \/ PollFails(p) PROVE DeliveryInv'
  BY <1>5, IdleKeepsDelivery DEF PollStart, PollAnswered, PollFails, store, telegram
<1>6. ASSUME NEW p \in Procs, TakeUpdate(p) \/ HandleCommand(p) \/ Reply(p) PROVE DeliveryInv'
  BY <1>6, IdleKeepsDelivery DEF TakeUpdate, HandleCommand, Reply, store, telegram
<1>7. CASE UNCHANGED vars
  BY <1>7, IdleKeepsDelivery DEF vars, store, telegram
<1>8. QED
  BY <1>1, <1>2, <1>3, <1>4, <1>5, <1>6, <1>7, FlushStartKeeps, SendAnsweredKeeps, SendRaisesKeeps,
     RecordSentKeeps DEF Next

\* A message marked as sent reached the chat with every one of its parts (flush_outbox),
\* whichever processes flushed it, one after the other or at once.
THEOREM SentWasDeliveredHolds == Spec => []SentWasDelivered
<1>1. DeliveryInv => SentWasDelivered
  BY DEF DeliveryInv
<1>2. QED
  BY <1>1, InitDelivery, NextKeepsDelivery, PTL DEF Spec

\* No message is shown before an earlier one is complete or given up (flush_outbox stops
\* at the first message Telegram refuses), whichever processes flush.
THEOREM DeliveredInOrderHolds == Spec => []DeliveredInOrder
<1>1. DeliveryInv => DeliveredInOrder
  BY DEF DeliveryInv
<1>2. QED
  BY <1>1, InitDelivery, NextKeepsDelivery, PTL DEF Spec
=============================================================================
