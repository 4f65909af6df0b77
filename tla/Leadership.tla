----------------------------- MODULE Leadership -----------------------------
(***************************************************************************)
(* Several processes of the service on one database (mapex/main.py, App):  *)
(* the lease that says which of them acts (store.py), the outbox a leader  *)
(* delivers to Telegram and the commands it polls (telegram.py), and the   *)
(* kill switch (guards.py) that both commands and automatic trips set.     *)
(* Code between two awaits is one step, except where a crash may fall      *)
(* between two writes.  Telegram is external: a call may take effect or    *)
(* not, and be answered or not.                                            *)
(***************************************************************************)
EXTENDS Naturals, Sequences, FiniteSets

CONSTANTS
  Procs,        \* deployments: a new one may be up before the old one is gone
  None,         \* no lease yet
  Former,       \* the lease of a process that is gone: uuid4 owners never return
  TTL,          \* LEASE_TTL_S
  MaxAttempts,  \* 20 in outbox_pending
  Limit,        \* rows of one outbox_pending, 20 in the code
  Alerts,       \* dedupe keys of messages, the kill switch's excepted
  KillAlerts,   \* dedupe keys kill:<second>:<reason>
  Parts,        \* Parts[k]: into how many messages split() cuts the text of k
  Command,      \* the updates the bot will get, in the order of their update_id
  MaxBoots,     \* bound: how many processes are started
  Loads         \* bound: the updates that arrive and the keys that are told, together

Keys == Alerts \cup KillAlerts
Updates == DOMAIN Command
ASSUME LeadershipAssumption ==
  /\ IsFiniteSet(Procs) /\ {None, Former} \cap Procs = {} /\ None # Former
  /\ TTL \in Nat /\ MaxAttempts \in Nat \ {0} /\ Limit \in Nat \ {0} /\ MaxBoots \in Nat
  /\ Parts \in [Keys -> Nat \ {0}] /\ IsFiniteSet(Keys) /\ Alerts \cap KillAlerts = {}
  /\ Command \in Seq({"/stop", "/resume", "foreign"})
  /\ Loads \subseteq [updates : 0 .. Len(Command), keys : SUBSET Keys]

VARIABLES
  lease,      \* the row of the lease table, age = now - heartbeat
  kill,       \* kv kill_switch: off, set by /stop, or tripped
  tgOffset,   \* kv tg_offset
  outbox,     \* the outbox table in the order of its ids
  app,        \* per process: its state, leader, age since its own last renewal
  poll,       \* per process: telegram_loop, with TelegramBot.offset
  flush,      \* per process: outbox_tick
  boots,      \* how many processes were started
  arrived,    \* Telegram: the last update the owner's side produced
  confirmed,  \* Telegram: the first update no getUpdates call has confirmed
  delivered,  \* history: the parts of each message that reached the chat
  handled,    \* history: how often the handler ran for an update, up to 2
  lost,       \* history: updates whose process was killed before the handler ran
  overlapped, \* history: two processes were up at once
  load        \* bound: the load of this behaviour

store == <<lease, kill, tgOffset, outbox>>
telegram == <<arrived, confirmed, delivered>>
history == <<handled, lost, overlapped, load>>
vars == <<store, app, poll, flush, boots, telegram, history>>

Max2(a, b) == IF a >= b THEN a ELSE b
Older(n) == IF n > TTL THEN n ELSE n + 1     \* more than TTL is as old as it gets
Ids == 1 .. Len(outbox)

App == [st : {"down", "boot", "run"}, leader : BOOLEAN, age : 0 .. TTL + 1]
Down == [st |-> "down", leader |-> FALSE, age |-> 0]
NoPoll == [pc |-> "idle", offset |-> 0, todo |-> <<>>, cur |-> 0]
NoFlush == [pc |-> "idle", todo |-> {}, part |-> 1, ok |-> TRUE]

Init ==
  /\ lease = [owner |-> None, age |-> 0] /\ kill = "off" /\ tgOffset = 0 /\ outbox = <<>>
  /\ app = [p \in Procs |-> Down] /\ poll = [p \in Procs |-> NoPoll]
  /\ flush = [p \in Procs |-> NoFlush] /\ boots = 0
  /\ arrived = 0 /\ confirmed = 1 /\ delivered = [k \in Keys |-> {}]
  /\ handled = [u \in Updates |-> 0] /\ lost = {} /\ overlapped = FALSE
  /\ load \in Loads
-----------------------------------------------------------------------------
(* Store.acquire_lease, one transaction.                                    *)
ExpiredSoon == lease.age >= TTL                                            \* mutant
Expired == lease.age > TTL
MayAcquire(p) == lease.owner \in {None, p} \/ Expired

AcquireLease(p, st) ==
  /\ app' = [app EXCEPT ![p] = [st |-> st, leader |-> MayAcquire(p),
                                age |-> IF MayAcquire(p) THEN 0 ELSE app[p].age]]
  /\ lease' = IF MayAcquire(p) THEN [owner |-> p, age |-> 0] ELSE lease

LeaseTick(p) ==
  /\ app[p].st = "run" /\ AcquireLease(p, "run")
  /\ UNCHANGED <<kill, tgOffset, outbox, poll, flush, boots, telegram, history>>

Tick ==
  /\ lease' = [lease EXCEPT !.age = IF lease.owner = None THEN 0 ELSE Older(@)]
  /\ app' = [p \in Procs |-> IF app[p].leader THEN [app[p] EXCEPT !.age = Older(@)] ELSE app[p]]
  /\ UNCHANGED <<kill, tgOffset, outbox, poll, flush, boots, telegram, history>>
-----------------------------------------------------------------------------
(* INSERT OR IGNORE INTO outbox: a dedupe key is told once.                 *)
OutboxAdd(k) ==
  outbox' = IF k \notin load.keys \/ \E i \in Ids : outbox[i].key = k THEN outbox
            ELSE Append(outbox, [key |-> k, attempts |-> 0, sent |-> FALSE])

\* App.__init__ (the bot reads its offset) and startup up to its first await.
Boot(p) ==
  /\ app[p].st = "down" /\ boots < MaxBoots
  /\ boots' = boots + 1
  /\ AcquireLease(p, "boot")
  /\ poll' = [poll EXCEPT ![p] = [NoPoll EXCEPT !.offset = tgOffset]]
  /\ flush' = [flush EXCEPT ![p] = NoFlush]
  /\ overlapped' = (overlapped \/ \E q \in Procs : app[q].st # "down")
  /\ UNCHANGED <<kill, tgOffset, outbox, telegram, handled, lost, load>>

\* startup after connect(): the boot message, then the loops start.
Started(p) ==
  /\ app[p].st = "boot"
  /\ app' = [app EXCEPT ![p].st = "run"]
  /\ \E k \in Alerts : OutboxAdd(k)
  /\ UNCHANGED <<lease, kill, tgOffset, poll, flush, boots, telegram, history>>

\* The process is killed, or redeployed: its tasks end where they are.
Crash(p) ==
  /\ app[p].st # "down" /\ boots < MaxBoots
  /\ app' = [app EXCEPT ![p] = Down]
  /\ lease' = [lease EXCEPT !.owner = IF @ = p THEN Former ELSE @]
  /\ lost' = IF poll[p].pc = "handle" THEN lost \cup {poll[p].cur} ELSE lost
  /\ poll' = [poll EXCEPT ![p] = NoPoll] /\ flush' = [flush EXCEPT ![p] = NoFlush]
  /\ UNCHANGED <<kill, tgOffset, outbox, boots, telegram, handled, overlapped, load>>

\* guards.trip: connect, calibration and the auth alarm call it, leader or not.
Trip(p) ==
  /\ app[p].st # "down" /\ kill = "off"
  /\ kill' = "tripped"
  /\ \E k \in KillAlerts : OutboxAdd(k)
  /\ UNCHANGED <<lease, tgOffset, app, poll, flush, boots, telegram, history>>

\* A loop of the leader that has something to say: an entry, an exit, an alarm.
Tell(p) ==
  /\ app[p].st = "run" /\ app[p].leader
  /\ \E k \in Alerts : OutboxAdd(k)
  /\ UNCHANGED <<lease, kill, tgOffset, app, poll, flush, boots, telegram, history>>
-----------------------------------------------------------------------------
(* TelegramBot.flush_outbox: the rows are read once, then sent one by one.  *)
Pending(i) == ~outbox[i].sent /\ outbox[i].attempts < MaxAttempts
Rows == {i \in Ids : Pending(i)}
OutboxPending == {i \in Rows : Cardinality({j \in Rows : j <= i}) <= Limit}

FlushStart(p) ==
  /\ app[p].st = "run" /\ app[p].leader /\ flush[p].pc = "idle" /\ OutboxPending # {}
  /\ flush' = [flush EXCEPT ![p] = [NoFlush EXCEPT !.pc = "send", !.todo = OutboxPending]]
  /\ UNCHANGED <<store, app, poll, boots, telegram, history>>

\* ORDER BY id: the rows are sent from the lowest id on.
Earliest(S) == CHOOSE i \in S : \A j \in S : i <= j
Row(p) == Earliest(flush[p].todo)
Deliver(p) ==
  delivered' = [delivered EXCEPT ![outbox[Row(p)].key] = @ \cup {flush[p].part}]

ForgetsFailedPart(f, ok) == ok                                             \* mutant
AllParts(f, ok) == f.ok /\ ok

\* One part was sent and Telegram said ok, or refused it (or 429 three times).
SendAnswered(p) ==
  /\ flush[p].pc = "send"
  /\ \E ok \in BOOLEAN :
       LET last == flush[p].part = Parts[outbox[Row(p)].key] IN
       /\ IF ok THEN Deliver(p) ELSE UNCHANGED delivered
       /\ flush' = [flush EXCEPT ![p].ok = AllParts(flush[p], ok),
                                 ![p].pc = IF last THEN "record" ELSE "send",
                                 ![p].part = IF last THEN 1 ELSE @ + 1]
  /\ UNCHANGED <<store, app, poll, boots, arrived, confirmed, history>>

\* The call raises, delivered or not: every() drops this flush, nothing is counted.
SendRaises(p) ==
  /\ flush[p].pc = "send"
  /\ Deliver(p) \/ UNCHANGED delivered
  /\ flush' = [flush EXCEPT ![p] = NoFlush]
  /\ UNCHANGED <<store, app, poll, boots, arrived, confirmed, history>>

GoesOn(p) == flush[p].todo                                                 \* mutant
AfterRow(p) == IF flush[p].ok THEN flush[p].todo ELSE {Row(p)}
NeverCounts(r, ok) == [r EXCEPT !.sent = @ \/ ok]                          \* mutant
Recorded(r, ok) == [r EXCEPT !.sent = @ \/ ok, !.attempts = @ + 1]

\* sent_at or attempts is written; a refused message ends the flush.
RecordSent(p) ==
  /\ flush[p].pc = "record"
  /\ outbox' = [outbox EXCEPT ![Row(p)] = Recorded(@, flush[p].ok)]
  /\ LET rest == AfterRow(p) \ {Row(p)}
     IN flush' = [flush EXCEPT ![p] = IF rest = {} THEN NoFlush
                                      ELSE [NoFlush EXCEPT !.pc = "send", !.todo = rest]]
  /\ UNCHANGED <<lease, kill, tgOffset, app, poll, boots, telegram, history>>
-----------------------------------------------------------------------------
(* TelegramBot.poll_once.  getUpdates confirms every update before offset.  *)
Arrive ==
  /\ arrived < load.updates
  /\ arrived' = arrived + 1
  /\ UNCHANGED <<store, app, poll, flush, boots, confirmed, delivered, history>>

PollStart(p) ==
  /\ app[p].st = "run" /\ app[p].leader /\ poll[p].pc = "idle"
  /\ load.updates > 0                        \* bound: nobody polls for nothing
  /\ poll' = [poll EXCEPT ![p].pc = "wait"]
  /\ UNCHANGED <<store, app, flush, boots, telegram, history>>

Confirm(p) == confirmed' = Max2(confirmed, poll[p].offset)
Resume(todo) == IF todo = <<>> THEN "idle" ELSE "next"
Batch(p) == [i \in 1 .. (arrived + 1 - confirmed') |-> confirmed' + i - 1]

PollAnswered(p) ==
  /\ poll[p].pc = "wait" /\ Confirm(p)
  /\ poll' = [poll EXCEPT ![p].todo = Batch(p), ![p].pc = Resume(Batch(p))]
  /\ UNCHANGED <<store, app, flush, boots, arrived, delivered, history>>

PollFails(p) ==
  /\ poll[p].pc = "wait"
  /\ Confirm(p) \/ UNCHANGED confirmed
  /\ poll' = [poll EXCEPT ![p].pc = "idle"]
  /\ UNCHANGED <<store, app, flush, boots, arrived, delivered, history>>

WholeBatch(p) == Max2(poll[p].offset, poll[p].todo[Len(poll[p].todo)] + 1)   \* mutant
NextOffset(p) == Max2(poll[p].offset, Head(poll[p].todo) + 1)
KeepsOffset(p) == tgOffset                                                 \* mutant
SavedOffset(p) == NextOffset(p)

\* The offset is advanced and saved before the handler runs.
TakeUpdate(p) ==
  /\ poll[p].pc = "next"
  /\ tgOffset' = SavedOffset(p)
  /\ poll' = [poll EXCEPT ![p].pc = "handle", ![p].offset = NextOffset(p),
                          ![p].cur = Head(poll[p].todo), ![p].todo = Tail(@)]
  /\ UNCHANGED <<lease, kill, outbox, app, flush, boots, telegram, history>>

\* App.command for /stop and /resume; what the owner did not send is skipped.
HandleCommand(p) ==
  LET c == Command[poll[p].cur] IN
  /\ poll[p].pc = "handle"
  /\ kill' = CASE c = "/stop" -> "stopped" [] c = "/resume" -> "off" [] OTHER -> kill
  /\ handled' = [handled EXCEPT ![poll[p].cur] = IF @ = 2 THEN 2 ELSE @ + 1]
  /\ poll' = [poll EXCEPT ![p].cur = 0,
                          ![p].pc = IF c = "foreign" THEN Resume(poll[p].todo) ELSE "reply"]
  /\ UNCHANGED <<lease, tgOffset, outbox, app, flush, boots, telegram, lost, overlapped, load>>

\* The reply is sent; when that raises, the rest of the batch is dropped.
Reply(p) ==
  /\ poll[p].pc = "reply"
  /\ \/ poll' = [poll EXCEPT ![p].pc = Resume(poll[p].todo)]
     \/ poll' = [poll EXCEPT ![p].pc = "idle", ![p].todo = <<>>]
  /\ UNCHANGED <<store, app, flush, boots, telegram, history>>
-----------------------------------------------------------------------------
Next ==
  \/ Tick \/ Arrive
  \/ \E p \in Procs :
       \/ Boot(p) \/ Started(p) \/ Crash(p) \/ LeaseTick(p) \/ Trip(p) \/ Tell(p)
       \/ FlushStart(p) \/ SendAnswered(p) \/ SendRaises(p) \/ RecordSent(p)
       \/ PollStart(p) \/ PollAnswered(p) \/ PollFails(p)
       \/ TakeUpdate(p) \/ HandleCommand(p) \/ Reply(p)

Spec == Init /\ [][Next]_vars

\* What asyncio and the platform give: a loop that can go on does, a stopped service is
\* started again, and neither Telegram nor the network fails for ever.
Fairness ==
  /\ WF_vars(Tick) /\ WF_vars(\E p \in Procs : (\A q \in Procs : app[q].st = "down") /\ Boot(p))
  /\ \A p \in Procs :
       /\ WF_vars(Started(p) \/ LeaseTick(p)) /\ WF_vars(RecordSent(p))
       /\ WF_vars(TakeUpdate(p) \/ HandleCommand(p) \/ Reply(p))
  /\ WF_vars(\E p \in Procs : FlushStart(p)) /\ WF_vars(\E p \in Procs : PollStart(p))
  /\ \A n \in UNION {1 .. Parts[k] : k \in Keys} :
       SF_vars(\E p \in Procs : flush[p].part = n /\ SendAnswered(p))
  /\ SF_vars(\E p \in Procs : PollAnswered(p))

FairSpec == Spec /\ Fairness
=============================================================================
