-------------------------- MODULE LeadershipProofs ---------------------------
(* Who may act: proofs about the lease, for any number of processes and any TTL;   *)
(* and that the owner's commands run at most once, for any number of processes,    *)
(* updates and crashes, as long as one process is up at a time.                    *)
EXTENDS LeadershipProperties, Integers, SequenceTheorems, TLAPS

LeaseTypes ==
  /\ lease \in [owner : Procs \cup {None, Former}, age : 0 .. TTL + 1]
  /\ app \in [Procs -> App]

\* A leader owns the lease and has counted its age with it, or has counted past the TTL.
Counted(p) == (lease.owner = p /\ lease.age = app[p].age) \/ app[p].age > TTL
LeaseInv == LeaseTypes /\ \A p \in Procs : app[p].leader => Counted(p)

LEMMA OlderType ==
  ASSUME NEW n \in 0 .. TTL + 1
  PROVE  /\ Older(n) \in 0 .. TTL + 1
         /\ n > TTL => Older(n) > TTL
BY LeadershipAssumption DEF LeadershipAssumption, Older

LEMMA InitLease == Init => LeaseInv
BY LeadershipAssumption DEF LeadershipAssumption, Init, LeaseInv, LeaseTypes, Counted, App, Down

\* A process that asks for the lease: either it gets it, and whoever led before has counted
\* past the TTL with the row it saw, or it leads no longer.
LEMMA AcquireKeeps ==
  ASSUME LeaseInv, NEW p \in Procs, NEW st \in {"boot", "run"}, AcquireLease(p, st)
  PROVE  LeaseInv'
<1>1. LeaseTypes'
  <2>1. MayAcquire(p) \in BOOLEAN /\ 0 \in 0 .. TTL + 1 /\ app[p].age \in 0 .. TTL + 1
    BY LeadershipAssumption DEF LeadershipAssumption, LeaseInv, LeaseTypes, App, MayAcquire, Expired
  <2>2. [st |-> st, leader |-> MayAcquire(p), age |-> IF MayAcquire(p) THEN 0 ELSE app[p].age] \in App
    BY <2>1 DEF App
  <2>3. QED
    BY <2>1, <2>2 DEF LeaseInv, LeaseTypes, AcquireLease
<1>2. ASSUME NEW q \in Procs, app'[q].leader PROVE Counted(q)'
  <2>1. CASE q = p
    BY <1>2, <2>1 DEF LeaseInv, LeaseTypes, AcquireLease, Counted, App
  <2>2. CASE q # p
    <3>1. app'[q] = app[q]
      BY <2>2 DEF AcquireLease, LeaseInv, LeaseTypes
    <3>2. Counted(q)
      BY <1>2, <3>1 DEF LeaseInv
    <3>3. CASE ~MayAcquire(p)
      BY <3>1, <3>2, <3>3 DEF AcquireLease, Counted
    <3>4. CASE MayAcquire(p) /\ app[q].age > TTL
      BY <3>1, <3>4 DEF Counted
    <3>5. CASE MayAcquire(p) /\ lease.owner = q /\ lease.age = app[q].age
      <4>1. Expired
        BY <2>2, <3>5, LeadershipAssumption DEF LeadershipAssumption, MayAcquire
      <4>2. QED
        BY <3>1, <3>5, <4>1 DEF Expired, Counted
    <3>6. QED
      BY <3>2, <3>3, <3>4, <3>5 DEF Counted
  <2>3. QED
    BY <2>1, <2>2
<1>3. QED
  BY <1>1, <1>2 DEF LeaseInv

LEMMA TickKeeps == LeaseInv /\ Tick => LeaseInv'
<1> SUFFICES ASSUME LeaseInv, Tick PROVE LeaseInv'
  OBVIOUS
<1>1. LeaseTypes'
  <2>1. lease.age \in 0 .. TTL + 1 /\ \A p \in Procs : app[p].age \in 0 .. TTL + 1 /\ app[p] \in App
    BY DEF LeaseInv, LeaseTypes, App
  <2>2. lease' \in [owner : Procs \cup {None, Former}, age : 0 .. TTL + 1]
    BY <2>1, OlderType, LeadershipAssumption DEF LeadershipAssumption, Tick, LeaseInv, LeaseTypes
  <2>3. ASSUME NEW p \in Procs PROVE app'[p] \in App
    BY <2>1, OlderType DEF Tick, App
  <2>4. QED
    BY <2>2, <2>3 DEF Tick, LeaseTypes
<1>2. ASSUME NEW p \in Procs, app'[p].leader PROVE Counted(p)'
  <2>1. app[p].leader /\ app[p] \in App /\ lease.age \in 0 .. TTL + 1
    BY <1>2 DEF Tick, LeaseInv, LeaseTypes, App
  <2>2. app'[p].age = Older(app[p].age)
    BY <2>1 DEF Tick, App
  <2>3. CASE app[p].age > TTL
    BY <2>1, <2>2, <2>3, OlderType DEF Counted, App
  <2>4. CASE lease.owner = p /\ lease.age = app[p].age
    BY <2>1, <2>2, <2>4, LeadershipAssumption DEF LeadershipAssumption, Tick, Counted, LeaseInv, LeaseTypes
  <2>5. QED
    BY <2>1, <2>3, <2>4 DEF LeaseInv, Counted
<1>3. QED
  BY <1>1, <1>2 DEF LeaseInv

LEMMA CrashKeeps == ASSUME NEW p \in Procs, LeaseInv, Crash(p) PROVE LeaseInv'
<1>1. LeaseTypes'
  <2>1. Down \in App
    BY LeadershipAssumption DEF LeadershipAssumption, App, Down
  <2>2. lease' \in [owner : Procs \cup {None, Former}, age : 0 .. TTL + 1]
    BY DEF Crash, LeaseInv, LeaseTypes
  <2>3. QED
    BY <2>1, <2>2 DEF Crash, LeaseInv, LeaseTypes
<1>2. ASSUME NEW q \in Procs, app'[q].leader PROVE Counted(q)'
  <2>1. q # p /\ app'[q] = app[q]
    BY <1>2 DEF Crash, LeaseInv, LeaseTypes, Down
  <2>2. Counted(q)
    BY <1>2, <2>1 DEF LeaseInv
  <2>3. QED
    BY <2>1, <2>2 DEF Counted, Crash, LeaseInv, LeaseTypes
<1>3. QED
  BY <1>1, <1>2 DEF LeaseInv

LEMMA StartedKeeps == ASSUME NEW p \in Procs, LeaseInv, Started(p) PROVE LeaseInv'
<1>1. LeaseTypes' /\ lease' = lease
  <2>1. lease' = lease /\ app[p] \in App
    BY DEF Started, LeaseInv, LeaseTypes
  <2>2. [app[p] EXCEPT !.st = "run"] \in App
    BY <2>1 DEF App
  <2>3. app' = [app EXCEPT ![p] = [app[p] EXCEPT !.st = "run"]]
    BY DEF Started, LeaseInv, LeaseTypes
  <2>4. QED
    BY <2>1, <2>2, <2>3 DEF LeaseInv, LeaseTypes
<1>2. \A q \in Procs : app'[q].leader = app[q].leader /\ app'[q].age = app[q].age
  BY DEF Started, LeaseInv, LeaseTypes, App
<1>3. QED
  BY <1>1, <1>2 DEF LeaseInv, Counted

LEMMA IdleKeeps == LeaseInv /\ UNCHANGED <<lease, app>> => LeaseInv'
BY DEF LeaseInv, LeaseTypes, Counted

LEMMA NextKeepsLease == LeaseInv /\ [Next]_vars => LeaseInv'
<1> SUFFICES ASSUME LeaseInv, [Next]_vars PROVE LeaseInv'
  OBVIOUS
<1>1. CASE Tick
  BY <1>1, TickKeeps
<1>2. CASE Arrive \/ UNCHANGED vars
  BY <1>2, IdleKeeps DEF Arrive, vars, store
<1>3. ASSUME NEW p \in Procs, Boot(p) \/ LeaseTick(p) PROVE LeaseInv'
  BY <1>3, AcquireKeeps DEF Boot, LeaseTick
<1>4. ASSUME NEW p \in Procs, Started(p) PROVE LeaseInv'
  BY <1>4, StartedKeeps
<1>5. ASSUME NEW p \in Procs, Crash(p) PROVE LeaseInv'
  BY <1>5, CrashKeeps
<1>6. ASSUME NEW p \in Procs, Trip(p) \/ Tell(p) PROVE LeaseInv'
  BY <1>6, IdleKeeps DEF Trip, Tell
<1>7. ASSUME NEW p \in Procs, FlushStart(p) \/ SendAnswered(p) \/ SendRaises(p) \/ RecordSent(p) PROVE LeaseInv'
  BY <1>7, IdleKeeps DEF FlushStart, SendAnswered, SendRaises, RecordSent, store
<1>8. ASSUME NEW p \in Procs, PollStart(p) \/ PollAnswered(p) \/ PollFails(p) PROVE LeaseInv'
  BY <1>8, IdleKeeps DEF PollStart, PollAnswered, PollFails, store
<1>9. ASSUME NEW p \in Procs, TakeUpdate(p) \/ HandleCommand(p) \/ Reply(p) PROVE LeaseInv'
  BY <1>9, IdleKeeps DEF TakeUpdate, HandleCommand, Reply, store
<1>10. QED
  BY <1>1, <1>2, <1>3, <1>4, <1>5, <1>6, <1>7, <1>8, <1>9 DEF Next

\* The inductive invariant of the lease holds in every reachable state.
THEOREM LeaseInvHolds == Spec => []LeaseInv
BY InitLease, NextKeepsLease, PTL DEF Spec

\* A process that renewed its lease within the TTL owns it, so two processes lead at once
\* only while one of them has not run its lease_tick for longer than the TTL.
THEOREM FreshLeaderHolds == Spec => []FreshLeaderOwns
<1>1. LeaseInv => FreshLeaderOwns
  BY LeadershipAssumption DEF LeadershipAssumption, LeaseInv, LeaseTypes, App, Counted, FreshLeaderOwns
<1>2. QED
  BY <1>1, LeaseInvHolds, PTL
-----------------------------------------------------------------------------
(* The owner's commands.                                                    *)
Poll == [pc : {"idle", "wait", "next", "handle", "reply"}, offset : Nat, todo : Seq(Nat), cur : Nat]
CommandTypes ==
  /\ poll \in [Procs -> Poll] /\ tgOffset \in Nat /\ arrived \in Nat /\ confirmed \in Nat
  /\ handled \in [Updates -> 0 .. 2] /\ overlapped \in BOOLEAN

Up(p) == app[p].st # "down"
Successive(s) == \A i \in 1 .. Len(s) : s[i] = s[1] + i - 1

\* A batch holds successive updates from the offset on, and only a process that is up
\* has one.
Batched(p) ==
  /\ Successive(poll[p].todo)
  /\ poll[p].todo # <<>> => poll[p].todo[1] >= poll[p].offset
  /\ poll[p].pc = "next" => poll[p].todo # <<>>
  /\ ~Up(p) => poll[p].pc = "idle"

\* The one process that is up has the offset of the database, every update that ran is
\* below it, and so is the one it is about to run, which has not run yet.
OnlyOne == \A p, q \in Procs : Up(p) /\ Up(q) => p = q
AtOffset(p) ==
  /\ poll[p].offset = tgOffset
  /\ poll[p].pc = "handle" =>
       poll[p].cur < tgOffset /\ \A u \in Updates : u = poll[p].cur => handled[u] = 0
RanBelow == \A u \in Updates : handled[u] <= 1 /\ (handled[u] > 0 => u < tgOffset)
OnceInv == OnlyOne /\ RanBelow /\ \A p \in Procs : Up(p) => AtOffset(p)

CommandInv ==
  /\ LeaseInv /\ CommandTypes /\ \A p \in Procs : Batched(p)
  /\ ~overlapped => OnceInv

LEMMA InitCommand == Init => CommandInv
<1> SUFFICES ASSUME Init PROVE CommandInv
  OBVIOUS
<1>1. LeaseInv
  BY InitLease
<1>2. NoPoll \in Poll /\ NoPoll.todo = <<>> /\ NoPoll.pc = "idle"
  BY DEF NoPoll, Poll
<1>3. CommandTypes /\ \A p \in Procs : poll[p] = NoPoll /\ ~Up(p)
  <2>1. poll = [p \in Procs |-> NoPoll] /\ handled = [u \in Updates |-> 0] /\ ~overlapped
    BY DEF Init
  <2>2. tgOffset \in Nat /\ arrived \in Nat /\ confirmed \in Nat /\ overlapped \in BOOLEAN
    BY DEF Init
  <2>3. CommandTypes
    BY <1>2, <2>1, <2>2 DEF CommandTypes
  <2>4. \A p \in Procs : ~Up(p)
    BY DEF Init, Up, Down
  <2>5. QED
    BY <2>1, <2>3, <2>4
<1>4. \A p \in Procs : Batched(p)
  BY <1>2, <1>3 DEF Batched, Successive
<1>5. OnceInv
  <2>1. \A u \in Updates : handled[u] = 0
    BY DEF Init
  <2>2. QED
    BY <1>3, <2>1 DEF OnceInv, OnlyOne, RanBelow
<1>6. QED
  BY <1>1, <1>3, <1>4, <1>5 DEF CommandInv

\* A step that leaves the commands, the offsets and who is up alone keeps the invariant.
LEMMA OtherStep ==
  ASSUME CommandInv, LeaseInv', arrived' \in Nat, \A p \in Procs : Up(p)' = Up(p),
         UNCHANGED <<poll, tgOffset, confirmed, handled, overlapped>>
  PROVE  CommandInv'
<1>1. CommandTypes'
  BY DEF CommandInv, CommandTypes
<1>2. \A p \in Procs : Batched(p)'
  BY DEF CommandInv, Batched
<1>3. ~overlapped' => OnceInv'
  BY DEF CommandInv, OnceInv, OnlyOne, RanBelow, AtOffset
<1>4. QED
  BY <1>1, <1>2, <1>3 DEF CommandInv

\* A step of a poll that takes no update: its batch is new, the same or dropped.
LEMMA PollStep ==
  ASSUME CommandInv, LeaseInv', NEW p \in Procs, NEW f \in Poll, Up(p), app' = app,
         UNCHANGED <<tgOffset, arrived, handled, overlapped>>, confirmed' \in Nat,
         poll' = [poll EXCEPT ![p] = f], f.pc # "handle", f.offset = poll[p].offset,
         Successive(f.todo), f.todo # <<>> => f.todo[1] >= poll[p].offset,
         f.pc = "next" => f.todo # <<>>
  PROVE  CommandInv'
<1>1. poll'[p] = f /\ \A q \in Procs : q # p => poll'[q] = poll[q]
  BY DEF CommandInv, CommandTypes
<1>2. CommandTypes'
  BY DEF CommandInv, CommandTypes
<1>3. \A q \in Procs : Up(q)' = Up(q)
  BY DEF Up
<1>4. ASSUME NEW q \in Procs PROVE Batched(q)'
  <2>1. CASE q = p
    BY <1>1, <1>3, <2>1 DEF Batched
  <2>2. CASE q # p
    BY <1>1, <1>3, <2>2 DEF CommandInv, Batched
  <2>3. QED
    BY <2>1, <2>2
<1>5. ASSUME ~overlapped PROVE OnceInv'
  <2>1. OnlyOne /\ RanBelow /\ poll[p].offset = tgOffset /\ \A q \in Procs : Up(q) => q = p
    BY <1>5 DEF CommandInv, OnceInv, OnlyOne, AtOffset
  <2>2. OnlyOne' /\ RanBelow'
    BY <1>3, <2>1 DEF OnlyOne, RanBelow
  <2>3. AtOffset(p)'
    BY <1>1, <2>1 DEF AtOffset
  <2>4. QED
    BY <1>3, <2>1, <2>2, <2>3 DEF OnceInv
<1>6. QED
  BY <1>2, <1>4, <1>5 DEF CommandInv

LEMMA OtherStepsKeep ==
  ASSUME CommandInv, LeaseInv', NEW p \in Procs,
         \/ Tick \/ Arrive \/ Started(p) \/ LeaseTick(p) \/ Trip(p) \/ Tell(p)
         \/ FlushStart(p) \/ SendAnswered(p) \/ SendRaises(p) \/ RecordSent(p) \/ UNCHANGED vars
  PROVE  CommandInv'
<1>1. app \in [Procs -> App] /\ arrived \in Nat
  BY DEF CommandInv, CommandTypes, LeaseInv, LeaseTypes
<1>2. CASE Tick
  <2>1. \A q \in Procs : app'[q].st = app[q].st
    BY <1>1, <1>2 DEF Tick, App
  <2>2. QED
    BY <1>1, <1>2, <2>1, OtherStep DEF Tick, Up, telegram, history
<1>3. CASE Arrive
  BY <1>1, <1>3, OtherStep DEF Arrive, Up, store, history
<1>4. CASE Started(p) \/ LeaseTick(p)
  <2>1. app[p].st # "down" /\ app'[p].st = "run" /\ \A q \in Procs : q # p => app'[q] = app[q]
    BY <1>1, <1>4 DEF Started, LeaseTick, AcquireLease, App
  <2>2. \A q \in Procs : Up(q)' = Up(q)
    BY <2>1 DEF Up
  <2>3. QED
    BY <1>1, <1>4, <2>2, OtherStep DEF Started, LeaseTick, telegram, history
<1>5. CASE Trip(p) \/ Tell(p)
  BY <1>1, <1>5, OtherStep DEF Trip, Tell, Up, telegram, history
<1>6. CASE FlushStart(p) \/ SendAnswered(p) \/ SendRaises(p) \/ RecordSent(p)
  BY <1>1, <1>6, OtherStep DEF FlushStart, SendAnswered, SendRaises, RecordSent, Up, store, telegram, history
<1>7. CASE UNCHANGED vars
  BY <1>1, <1>7, OtherStep DEF vars, Up, store, telegram, history
<1>8. QED
  BY <1>2, <1>3, <1>4, <1>5, <1>6, <1>7

\* A new process reads the offset at its boot; where it is the only one, that is the offset.
LEMMA BootKeeps == ASSUME CommandInv, LeaseInv', NEW p \in Procs, Boot(p) PROVE CommandInv'
<1> DEFINE f == [NoPoll EXCEPT !.offset = tgOffset]
<1>1. /\ CommandTypes /\ app \in [Procs -> App] /\ ~Up(p) /\ poll' = [poll EXCEPT ![p] = f]
      /\ UNCHANGED <<tgOffset, arrived, confirmed, handled>>
      /\ overlapped' = (overlapped \/ \E q \in Procs : Up(q))
  BY DEF Boot, Up, CommandInv, LeaseInv, LeaseTypes, telegram
<1>2. f.offset = tgOffset /\ f.todo = <<>> /\ f.pc = "idle" /\ f \in Poll
  <2>1. f = [pc |-> "idle", offset |-> tgOffset, todo |-> <<>>, cur |-> 0]
    BY DEF NoPoll
  <2>2. tgOffset \in Nat
    BY <1>1 DEF CommandTypes
  <2> HIDE DEF f
  <2>3. f.offset = tgOffset /\ f.todo = <<>> /\ f.pc = "idle" /\ f.cur = 0
    BY <2>1
  <2>4. <<>> \in Seq(Nat)
    OBVIOUS
  <2>5. f \in Poll
    BY <2>1, <2>2, <2>4 DEF Poll
  <2>6. QED
    BY <2>3, <2>5
<1> HIDE DEF f
<1>3. poll'[p] = f /\ \A q \in Procs : q # p => poll'[q] = poll[q]
  BY <1>1 DEF CommandTypes
<1>4. Up(p)' /\ \A q \in Procs : q # p => Up(q)' = Up(q)
  BY <1>1 DEF Boot, AcquireLease, Up
<1>5. CommandTypes'
  <2>1. overlapped' \in BOOLEAN
    BY <1>1, Zenon
  <2>2. QED
    BY <1>1, <1>2, <2>1 DEF CommandTypes
<1>6. ASSUME NEW q \in Procs PROVE Batched(q)'
  <2>1. CASE q = p
    BY <1>2, <1>3, <1>4, <2>1 DEF Batched, Successive
  <2>2. CASE q # p
    BY <1>3, <1>4, <2>2 DEF CommandInv, Batched
  <2>3. QED
    BY <2>1, <2>2
<1>7. ASSUME ~overlapped' PROVE OnceInv'
  <2>1. ~overlapped /\ \A q \in Procs : ~Up(q)
    BY <1>1, <1>7, Zenon
  <2>2. RanBelow' /\ OnlyOne'
    BY <1>1, <1>4, <2>1 DEF CommandInv, OnceInv, OnlyOne, RanBelow
  <2>3. AtOffset(p)' /\ \A q \in Procs : Up(q)' => q = p
    BY <1>1, <1>2, <1>3, <1>4, <2>1 DEF AtOffset
  <2>4. QED
    BY <2>2, <2>3 DEF OnceInv
<1>8. QED
  BY <1>5, <1>6, <1>7 DEF CommandInv

LEMMA CommandCrashKeeps == ASSUME CommandInv, LeaseInv', NEW p \in Procs, Crash(p) PROVE CommandInv'
<1>1. /\ CommandTypes /\ app \in [Procs -> App] /\ poll' = [poll EXCEPT ![p] = NoPoll]
      /\ UNCHANGED <<tgOffset, arrived, confirmed, handled, overlapped>>
  BY DEF Crash, CommandInv, LeaseInv, LeaseTypes, telegram
<1>2. NoPoll.todo = <<>> /\ NoPoll.pc = "idle" /\ NoPoll \in Poll
  BY DEF NoPoll, Poll
<1>3. poll'[p] = NoPoll /\ \A q \in Procs : q # p => poll'[q] = poll[q]
  BY <1>1 DEF CommandTypes
<1>4. ~Up(p)' /\ \A q \in Procs : q # p => Up(q)' = Up(q)
  BY <1>1 DEF Crash, Up, Down
<1>5. CommandTypes'
  BY <1>1, <1>2 DEF CommandTypes
<1>6. ASSUME NEW q \in Procs PROVE Batched(q)'
  <2>1. CASE q = p
    BY <1>2, <1>3, <2>1 DEF Batched, Successive
  <2>2. CASE q # p
    BY <1>3, <1>4, <2>2 DEF CommandInv, Batched
  <2>3. QED
    BY <2>1, <2>2
<1>7. ASSUME ~overlapped' PROVE OnceInv'
  <2>1. OnceInv
    BY <1>1, <1>7 DEF CommandInv
  <2>2. RanBelow' /\ OnlyOne'
    BY <1>1, <1>4, <2>1 DEF OnceInv, OnlyOne, RanBelow
  <2>3. ASSUME NEW q \in Procs, Up(q)' PROVE AtOffset(q)'
    BY <1>1, <1>3, <1>4, <2>1, <2>3 DEF OnceInv, AtOffset
  <2>4. QED
    BY <2>2, <2>3 DEF OnceInv
<1>8. QED
  BY <1>5, <1>6, <1>7 DEF CommandInv

\* A poll that starts, fails or replies keeps its batch or drops it.
LEMMA PollGoesOn ==
  ASSUME CommandInv, LeaseInv', NEW p \in Procs, PollStart(p) \/ PollFails(p) \/ Reply(p)
  PROVE  CommandInv'
<1>1. /\ CommandTypes /\ poll[p] \in Poll /\ Batched(p)
      /\ UNCHANGED <<app, tgOffset, arrived, handled, overlapped>>
  BY DEF PollStart, PollFails, Reply, CommandInv, CommandTypes, store, telegram, history
<1>2. Up(p)
  BY <1>1 DEF PollStart, PollFails, Reply, Batched, Up
<1>3. confirmed' \in Nat
  BY <1>1 DEF PollStart, PollFails, Reply, Confirm, Max2, telegram, CommandTypes, Poll
<1>4. ASSUME NEW pc \in {"idle", "wait", "next"}, poll' = [poll EXCEPT ![p].pc = pc],
             pc = "next" => poll[p].todo # <<>>
      PROVE  CommandInv'
  <2> DEFINE f == [poll[p] EXCEPT !.pc = pc]
  <2>1. poll' = [poll EXCEPT ![p] = f]
    BY <1>4
  <2>2. f \in Poll /\ f.pc = pc /\ f.offset = poll[p].offset /\ f.todo = poll[p].todo
    BY <1>1 DEF Poll
  <2> HIDE DEF f
  <2>3. Successive(f.todo) /\ (f.todo # <<>> => f.todo[1] >= poll[p].offset)
    BY <1>1, <2>2 DEF Batched
  <2>4. QED
    BY <1>1, <1>2, <1>3, <1>4, <2>1, <2>2, <2>3, PollStep
<1>5. ASSUME poll' = [poll EXCEPT ![p].pc = "idle", ![p].todo = <<>>] PROVE CommandInv'
  <2> DEFINE f == [poll[p] EXCEPT !.pc = "idle", !.todo = <<>>]
  <2>1. poll' = [poll EXCEPT ![p] = f]
    BY <1>1, <1>5 DEF CommandTypes
  <2>2. <<>> \in Seq(Nat)
    OBVIOUS
  <2>3. f \in Poll /\ f.pc = "idle" /\ f.offset = poll[p].offset /\ f.todo = <<>>
    BY <1>1, <2>2 DEF Poll
  <2> HIDE DEF f
  <2>4. Successive(f.todo)
    BY <2>3 DEF Successive
  <2>5. QED
    BY <1>1, <1>2, <1>3, <2>1, <2>3, <2>4, PollStep
<1>6. CASE PollStart(p) \/ PollFails(p)
  BY <1>4, <1>6 DEF PollStart, PollFails
<1>7. CASE Reply(p)
  <2>1. Resume(poll[p].todo) \in {"idle", "wait", "next"} /\ (Resume(poll[p].todo) = "next" => poll[p].todo # <<>>)
    BY DEF Resume
  <2>2. QED
    BY <1>4, <1>5, <1>7, <2>1 DEF Reply
<1>8. QED
  BY <1>6, <1>7

LEMMA FunIsSeq ==
  ASSUME NEW n \in Nat, NEW s \in [1 .. n -> Nat]
  PROVE  s \in Seq(Nat) /\ Len(s) = n
OBVIOUS

LEMMA UpdatesFrom ==
  ASSUME NEW a \in Nat, NEW c \in Nat, NEW b, b = [i \in 1 .. (a + 1 - c) |-> c + i - 1]
  PROVE  b \in Seq(Nat) /\ Successive(b) /\ (b # <<>> => b[1] = c)
<1>1. CASE a + 1 - c >= 1
  <2> DEFINE m == a + 1 - c
  <2>1. m \in Nat /\ m >= 1
    BY <1>1
  <2> HIDE DEF m
  <2>2. \A i \in 1 .. m : c + i - 1 \in Nat
    <3>1. ASSUME NEW i \in 1 .. m PROVE c + i - 1 \in Nat
      <4>1. i \in Nat /\ i >= 1
        BY <2>1
      <4>2. QED
        BY <4>1
    <3>2. QED
      BY <3>1
  <2>3. b \in [1 .. m -> Nat]
    BY <2>2 DEF m
  <2>4. b \in Seq(Nat) /\ Len(b) = m
    BY <2>1, <2>3
  <2>5. \A i \in 1 .. m : b[i] = c + i - 1
    BY DEF m
  <2>6. b[1] = c
    BY <2>1, <2>5
  <2>7. QED
    BY <2>4, <2>5, <2>6 DEF Successive
<1>2. CASE ~(a + 1 - c >= 1)
  <2>1. 1 .. (a + 1 - c) = {} /\ 1 .. 0 = {}
    BY <1>2
  <2>2. b \in [1 .. 0 -> Nat]
    BY <2>1
  <2>3. b \in Seq(Nat) /\ Len(b) = 0
    BY <2>2, FunIsSeq
  <2>4. b = <<>>
    BY <2>3, EmptySeq
  <2>5. Successive(b)
    BY <2>1, <2>3 DEF Successive
  <2>6. QED
    BY <2>3, <2>4, <2>5
<1>3. QED
  BY <1>1, <1>2

\* What getUpdates returns are the updates from the offset on.
LEMMA PollAnsweredKeeps == ASSUME CommandInv, LeaseInv', NEW p \in Procs, PollAnswered(p) PROVE CommandInv'
<1> DEFINE b == Batch(p)
           f == [poll[p] EXCEPT !.todo = b, !.pc = Resume(b)]
<1>1. /\ CommandTypes /\ poll[p] \in Poll /\ Batched(p)
      /\ UNCHANGED <<app, tgOffset, arrived, handled, overlapped>>
      /\ poll[p].pc = "wait" /\ Confirm(p) /\ poll' = [poll EXCEPT ![p] = f]
  BY DEF PollAnswered, CommandInv, CommandTypes, store, history
<1>2. Up(p)
  BY <1>1 DEF Batched
<1>3. confirmed' \in Nat /\ confirmed' >= poll[p].offset /\ arrived \in Nat /\ poll[p].offset \in Nat
  BY <1>1 DEF Confirm, Max2, CommandTypes, Poll
<1>4. b = [i \in 1 .. (arrived + 1 - confirmed') |-> confirmed' + i - 1]
  BY DEF Batch
<1>5. b \in Seq(Nat) /\ Successive(b) /\ (b # <<>> => b[1] = confirmed')
  BY <1>3, <1>4, UpdatesFrom
<1> HIDE DEF b
<1>6. b # <<>> => b[1] >= poll[p].offset
  BY <1>3, <1>5
<1>7. Successive(b)
  BY <1>5
<1>8. /\ f \in Poll /\ f.pc # "handle" /\ f.offset = poll[p].offset /\ f.todo = b
      /\ f.pc = "next" => f.todo # <<>>
  BY <1>1, <1>5 DEF Poll, Resume
<1> HIDE DEF f
<1>9. QED
  BY <1>1, <1>2, <1>3, <1>6, <1>7, <1>8, PollStep

\* The offset is saved before the handler runs, so the update it runs is below it.
LEMMA TakeUpdateKeeps == ASSUME CommandInv, LeaseInv', NEW p \in Procs, TakeUpdate(p) PROVE CommandInv'
<1> DEFINE u == Head(poll[p].todo)
           f == [pc |-> "handle", offset |-> NextOffset(p), todo |-> Tail(poll[p].todo), cur |-> u]
<1>1. /\ CommandTypes /\ poll[p] \in Poll /\ Batched(p) /\ poll[p].pc = "next"
      /\ UNCHANGED <<app, arrived, confirmed, handled, overlapped>>
      /\ tgOffset' = NextOffset(p)
  BY DEF TakeUpdate, SavedOffset, CommandInv, CommandTypes, telegram, history
<1>2. Up(p) /\ poll[p].todo # <<>> /\ poll[p].todo \in Seq(Nat) /\ poll[p].offset \in Nat
  BY <1>1 DEF Batched, Poll
<1>3. u = poll[p].todo[1] /\ u \in Nat /\ u >= poll[p].offset
  BY <1>1, <1>2 DEF Batched
<1>4. NextOffset(p) = u + 1
  BY <1>2, <1>3 DEF NextOffset, Max2
<1>5. poll'[p] = f /\ \A q \in Procs : q # p => poll'[q] = poll[q]
  BY <1>1 DEF TakeUpdate, CommandTypes, Poll
<1>6. /\ Tail(poll[p].todo) \in Seq(Nat) /\ Successive(Tail(poll[p].todo))
      /\ Tail(poll[p].todo) # <<>> => Tail(poll[p].todo)[1] >= u + 1
  <2> DEFINE s == poll[p].todo
  <2>1. s \in Seq(Nat) /\ s # <<>> /\ Successive(s)
    BY <1>1, <1>2 DEF Batched
  <2>2. /\ Tail(s) \in Seq(Nat) /\ Len(Tail(s)) = Len(s) - 1 /\ Len(s) \in Nat \ {0}
        /\ \A i \in 1 .. Len(Tail(s)) : Tail(s)[i] = s[i + 1]
    BY <2>1
  <2>3. \A i \in 1 .. Len(Tail(s)) : Tail(s)[i] = u + i
    BY <1>3, <2>1, <2>2 DEF Successive
  <2> HIDE DEF s
  <2>4. ASSUME NEW i \in 1 .. Len(Tail(s)) PROVE Tail(s)[i] = Tail(s)[1] + i - 1
    <3> HIDE DEF u
    <3>1. 1 \in 1 .. Len(Tail(s)) /\ i \in Nat
      BY <2>2
    <3>2. Tail(s)[1] = u + 1 /\ Tail(s)[i] = u + i
      BY <2>3, <3>1
    <3>3. QED
      BY <1>3, <3>1, <3>2
  <2>5. Tail(s) # <<>> => Len(Tail(s)) # 0
    BY <2>2, EmptySeq
  <2>6. Tail(s) # <<>> => Tail(s)[1] = u + 1
    BY <2>2, <2>3, <2>5
  <2>7. QED
    BY <1>3, <2>2, <2>4, <2>6 DEF Successive, s
<1>7. f \in Poll
  BY <1>3, <1>4, <1>6 DEF Poll
<1>8. f.pc = "handle" /\ f.offset = u + 1 /\ f.todo = Tail(poll[p].todo) /\ f.cur = u
  BY <1>4
<1> HIDE DEF f, u
<1>9. CommandTypes'
  <2>1. poll' \in [Procs -> Poll]
    BY <1>1, <1>5, <1>7 DEF TakeUpdate, CommandTypes
  <2>2. QED
    BY <1>1, <1>3, <1>4, <2>1 DEF CommandTypes
<1>10. \A q \in Procs : Up(q)' = Up(q)
  BY <1>1 DEF Up
<1>11. ASSUME NEW q \in Procs PROVE Batched(q)'
  <2>1. CASE q = p
    BY <1>2, <1>5, <1>6, <1>8, <1>10, <2>1 DEF Batched
  <2>2. CASE q # p
    BY <1>5, <1>10, <2>2 DEF CommandInv, Batched
  <2>3. QED
    BY <2>1, <2>2
<1>12. ASSUME ~overlapped PROVE OnceInv'
  <2>1. OnlyOne /\ RanBelow /\ poll[p].offset = tgOffset /\ \A q \in Procs : Up(q) => q = p
    BY <1>2, <1>12 DEF CommandInv, OnceInv, OnlyOne, AtOffset
  <2>2. \A v \in Updates : v \in Nat
    BY LeadershipAssumption DEF LeadershipAssumption, Updates
  <2>3. OnlyOne' /\ RanBelow'
    BY <1>1, <1>2, <1>3, <1>4, <1>10, <2>1, <2>2 DEF OnlyOne, RanBelow, CommandTypes
  <2>4. \A v \in Updates : v = u => handled[v] = 0
    <3>1. ASSUME NEW v \in Updates, v = u PROVE handled[v] = 0
      <4>1. ~(v < tgOffset) /\ handled[v] \in 0 .. 2
        BY <1>1, <1>2, <1>3, <2>1, <2>2, <3>1 DEF CommandTypes
      <4>2. QED
        BY <2>1, <4>1 DEF RanBelow
    <3>2. QED
      BY <3>1
  <2>5. AtOffset(p)'
    BY <1>1, <1>3, <1>4, <1>5, <1>8, <2>4 DEF AtOffset
  <2>6. QED
    BY <1>10, <2>1, <2>3, <2>5 DEF OnceInv
<1>13. QED
  BY <1>1, <1>9, <1>11, <1>12 DEF CommandInv

LEMMA HandleKeeps == ASSUME CommandInv, LeaseInv', NEW p \in Procs, HandleCommand(p) PROVE CommandInv'
<1> DEFINE u == poll[p].cur
           pc == IF Command[u] = "foreign" THEN Resume(poll[p].todo) ELSE "reply"
           f == [pc |-> pc, offset |-> poll[p].offset, todo |-> poll[p].todo, cur |-> 0]
<1>1. /\ CommandTypes /\ poll[p] \in Poll /\ Batched(p) /\ poll[p].pc = "handle"
      /\ UNCHANGED <<app, tgOffset, arrived, confirmed, overlapped>>
      /\ handled' = [handled EXCEPT ![u] = IF @ = 2 THEN 2 ELSE @ + 1]
  BY DEF HandleCommand, CommandInv, CommandTypes, telegram
<1>2. Up(p) /\ pc \in {"idle", "next", "reply"} /\ (pc = "next" => poll[p].todo # <<>>)
  BY <1>1 DEF Batched, Resume
<1>3. poll'[p] = f /\ \A q \in Procs : q # p => poll'[q] = poll[q]
  BY <1>1 DEF HandleCommand, CommandTypes, Poll
<1> HIDE DEF pc
<1>4. f \in Poll
  BY <1>1, <1>2 DEF Poll
<1>5. \A v \in Updates : /\ v # u => handled'[v] = handled[v]
                         /\ v = u => handled'[v] = IF handled[v] = 2 THEN 2 ELSE handled[v] + 1
  BY <1>1 DEF CommandTypes
<1>6. CommandTypes'
  <2>1. poll' \in [Procs -> Poll]
    BY <1>1, <1>3, <1>4 DEF HandleCommand, CommandTypes
  <2>2. \A v \in Updates : handled'[v] \in 0 .. 2
    BY <1>1, <1>5 DEF CommandTypes
  <2>3. handled' \in [Updates -> 0 .. 2]
    BY <1>1, <2>2 DEF CommandTypes
  <2>4. QED
    BY <1>1, <2>1, <2>3 DEF CommandTypes
<1>7. \A q \in Procs : Up(q)' = Up(q)
  BY <1>1 DEF Up
<1>8. ASSUME NEW q \in Procs PROVE Batched(q)'
  <2>1. CASE q = p
    BY <1>1, <1>2, <1>3, <1>7, <2>1 DEF Batched
  <2>2. CASE q # p
    BY <1>3, <1>7, <2>2 DEF CommandInv, Batched
  <2>3. QED
    BY <2>1, <2>2
<1>9. ASSUME ~overlapped PROVE OnceInv'
  <2>1. OnlyOne /\ RanBelow /\ AtOffset(p) /\ \A q \in Procs : Up(q) => q = p
    BY <1>2, <1>9 DEF CommandInv, OnceInv, OnlyOne
  <2>2. OnlyOne'
    BY <1>7, <2>1 DEF OnlyOne
  <2>3. RanBelow'
    BY <1>1, <1>5, <2>1 DEF RanBelow, AtOffset
  <2>4. AtOffset(p)'
    BY <1>1, <1>2, <1>3, <2>1 DEF AtOffset
  <2>5. QED
    BY <1>7, <2>1, <2>2, <2>3, <2>4 DEF OnceInv
<1>10. QED
  BY <1>1, <1>6, <1>8, <1>9 DEF CommandInv

LEMMA NextKeepsCommand == CommandInv /\ [Next]_vars => CommandInv'
<1> SUFFICES ASSUME CommandInv, [Next]_vars PROVE CommandInv'
  OBVIOUS
<1>1. LeaseInv'
  BY NextKeepsLease DEF CommandInv
<1>2. CASE Tick \/ Arrive \/ UNCHANGED vars
  <2>1. CASE Procs = {}
    <3>1. \A q \in Procs : Up(q)' = Up(q)
      BY <2>1
    <3>2. arrived' \in Nat /\ UNCHANGED <<poll, tgOffset, confirmed, handled, overlapped>>
      BY <1>2 DEF Tick, Arrive, vars, store, telegram, history, CommandInv, CommandTypes
    <3>3. QED
      BY <1>1, <3>1, <3>2, OtherStep
  <2>2. CASE Procs # {}
    BY <1>1, <1>2, <2>2, OtherStepsKeep
  <2>3. QED
    BY <2>1, <2>2
<1>3. QED
  BY <1>1, <1>2, OtherStepsKeep, BootKeeps, CommandCrashKeeps, PollGoesOn, PollAnsweredKeeps,
     TakeUpdateKeeps, HandleKeeps DEF Next

\* A command runs at most once (poll_once saves the offset before it calls the handler),
\* through crashes and dropped batches, as long as deployments do not overlap.
THEOREM CommandOnceHolds == Spec => []CommandOnce
<1>1. CommandInv => CommandOnce
  BY DEF CommandInv, OnceInv, RanBelow, CommandOnce
<1>2. QED
  BY <1>1, InitCommand, NextKeepsCommand, PTL DEF Spec
=============================================================================
