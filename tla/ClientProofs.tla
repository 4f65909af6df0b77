----------------------------- MODULE ClientProofs -----------------------------
(* An order runs once and is told as it went: proofs for either client, any number  *)
(* of calls, owners, sockets, retries and token changes.                            *)
EXTENDS ClientProperties, SequenceTheorems, TLAPS

Results == {"none", "ok", "transport", "tool", "auth", "rate", "token", "stamp", "rejected"}
CallPcs == {"idle", "limit", "wait", "lockq", "dial", "rpc", "tclose", "xclose", "hclose", "back", "ended"}
CallRec == [pc : CallPcs, attempt : Nat, res : Results]
OwnerRec == [pc : {"none", "get", "open", "list", "call", "backoff", "gone"},
             sess : Tokens \cup {NoToken}, cur : Calls \cup {Nobody}, attempt : Nat,
             queue : Seq(Calls), doomed : BOOLEAN]

\* What a request is made of; the values do not matter here.
RpcShape ==
  rpc = [c \in Calls |-> [stage |-> rpc[c].stage, conn |-> rpc[c].conn,
                          ver |-> rpc[c].ver, again |-> rpc[c].again]]
ClientTypes ==
  /\ calls \in [Calls -> CallRec] /\ ran \in [Orders -> 0 .. 2]
  /\ owners \in [OwnerIds -> OwnerRec] /\ creds \in Tokens /\ swap.to \in Tokens \cup {NoToken}
  /\ RpcShape

\* Before an order is sent, and after it was refused, the server has nothing of it.
Untouched(c) == ran[c] = 0 /\ c \notin flight /\ c \notin events
Before(c) ==
  \/ calls[c].pc \in {"idle", "limit", "wait", "lockq", "dial", "hclose"}
  \/ calls[c].pc = "rpc" /\ (rpc[c].stage # "ask" \/ calls[c].res \notin {"none", "ok", "transport"})
  \/ calls[c].pc \in {"xclose", "back", "ended"} /\ calls[c].res \notin {"ok", "transport"}
ToldOk(c) ==
  calls[c].res = "ok" /\ (calls[c].pc \in {"back", "ended"} \/ (calls[c].pc = "rpc" /\ rpc[c].stage = "ask"))

FateOf(c) ==
  /\ ran[c] \in {0, 1}
  /\ c \in flight => ran[c] = 0 /\ c \notin events
  /\ c \in events => ran[c] = 1
  /\ Before(c) => Untouched(c)
  /\ ToldOk(c) => ran[c] = 1
  /\ calls[c].pc = "xclose" => calls[c].res # "ok"
  /\ calls[c].pc = "tclose" => calls[c].res = "none"
  /\ calls[c].res # "stamp"

\* A request waits in one mailbox, once.
HeldIn(r, c) == r.cur = c \/ \E i \in DOMAIN r.queue : r.queue[i] = c
OnceIn(r, c) ==
  /\ r.cur = c => \A i \in DOMAIN r.queue : r.queue[i] # c
  /\ \A i, j \in DOMAIN r.queue : r.queue[i] = c /\ r.queue[j] = c => i = j
QueuedOnce(c) ==
  /\ \A o \in OwnerIds : OnceIn(owners[o], c) /\ (HeldIn(owners[o], c) => calls[c].pc = "wait")
  /\ \A o, q \in OwnerIds : HeldIn(owners[o], c) /\ HeldIn(owners[q], c) => o = q

ClientInv == ClientTypes /\ \A c \in Orders : FateOf(c) /\ QueuedOnce(c)

LEMMA InvImplies == ClientInv => OrderOnce /\ RejectedNeverRuns /\ FilledDidRun
<1> SUFFICES ASSUME ClientInv, NEW c \in Orders
             PROVE  /\ ran[c] <= 1
                    /\ calls[c].res = "rejected" => ran[c] = 0 /\ c \notin flight
                    /\ calls[c].pc \in {"back", "ended"} /\ calls[c].res = "ok" => ran[c] = 1
  BY DEF OrderOnce, RejectedNeverRuns, FilledDidRun
<1>1. FateOf(c) /\ calls[c] \in CallRec
  BY DEF ClientInv, ClientTypes, Calls
<1>2. ran[c] <= 1
  BY <1>1 DEF FateOf
<1>3. calls[c].res = "rejected" => ran[c] = 0 /\ c \notin flight
  BY <1>1 DEF FateOf, Before, Untouched, CallRec, CallPcs
<1>4. calls[c].pc \in {"back", "ended"} /\ calls[c].res = "ok" => ran[c] = 1
  BY <1>1 DEF FateOf, ToldOk
<1>5. QED
  BY <1>2, <1>3, <1>4

LEMMA NoOwnerType == NoOwner \in OwnerRec /\ NoOwner.queue = <<>> /\ NoOwner.cur = Nobody
<1>1. <<>> \in Seq(Calls)
  OBVIOUS
<1>2. QED
  BY <1>1 DEF NoOwner, OwnerRec

LEMMA InitClients == Init => ClientInv
<1> SUFFICES ASSUME Init PROVE ClientInv
  OBVIOUS
<1>1. PICK l \in Loads : /\ McpInit(l.env) /\ OaInit(l.known, l.expires, l.env)
                         /\ CallsInit(IF l.backend = "mcp" \/ l.known THEN l.env ELSE "unknown")
  BY DEF Init
<1>2. /\ calls = [c \in Calls |-> [Started EXCEPT !.pc = "idle"]] /\ ran = [c \in Orders |-> 0]
      /\ owners = [o \in OwnerIds |-> NoOwner] /\ creds \in Tokens /\ swap = NoSwap
      /\ rpc = [c \in Calls |-> NoRpc] /\ flight = {} /\ events = {}
  BY <1>1 DEF CallsInit, McpInit, OaInit
<1>3. [Started EXCEPT !.pc = "idle"] = [pc |-> "idle", attempt |-> 0, res |-> "none"]
  BY DEF Started
<1>4. NoOwner \in OwnerRec /\ NoOwner.queue = <<>> /\ NoOwner.cur = Nobody
  BY NoOwnerType
<1>5. ClientTypes
  <2>1. calls \in [Calls -> CallRec]
    BY <1>2, <1>3 DEF CallRec, CallPcs, Results
  <2>2. ran \in [Orders -> 0 .. 2]
    BY <1>2
  <2>3. owners \in [OwnerIds -> OwnerRec]
    BY <1>2, <1>4
  <2>4. swap.to = NoToken
    BY <1>2 DEF NoSwap
  <2>5. RpcShape
    BY <1>2 DEF RpcShape, NoRpc
  <2>6. QED
    BY <1>2, <2>1, <2>2, <2>3, <2>4, <2>5 DEF ClientTypes
<1>6. ASSUME NEW c \in Orders PROVE FateOf(c) /\ QueuedOnce(c)
  <2>1. calls[c].pc = "idle" /\ calls[c].res = "none" /\ ran[c] = 0
    BY <1>2, <1>3 DEF Calls
  <2>2. FateOf(c)
    BY <1>2, <2>1 DEF FateOf, Before, Untouched, ToldOk
  <2>3. c # Nobody
    BY CallsAssumption DEF CallsAssumption, Calls
  <2>4. \A o \in OwnerIds : owners[o].cur = Nobody /\ owners[o].queue = <<>>
    BY <1>2, <1>4
  <2>5. QED
    BY <2>2, <2>3, <2>4 DEF QueuedOnce, HeldIn, OnceIn
<1>7. QED
  BY <1>5, <1>6 DEF ClientInv

\* An order that a step leaves alone, or whose request it fails with every other.
Left(c) ==
  /\ calls'[c] = calls[c] \/ calls'[c] = FailWaits(calls)[c]
  /\ rpc'[c].stage = rpc[c].stage /\ ran'[c] = ran[c]
  /\ c \in flight' <=> c \in flight
  /\ c \in events' <=> c \in events

LEMMA LeftFate ==
  ASSUME ClientInv, NEW c \in Orders, Left(c)
  PROVE  FateOf(c)' /\ (calls[c].pc = "wait" => calls'[c].pc = "wait")
<1>1. FateOf(c) /\ calls[c] \in CallRec /\ c \in Calls
  BY DEF ClientInv, ClientTypes, Calls
<1>2. CASE calls'[c] = calls[c]
  BY <1>1, <1>2 DEF Left, FateOf, Before, Untouched, ToldOk
<1>3. CASE calls'[c] # calls[c]
  <2>1. /\ calls[c].pc = "rpc" /\ calls[c].res = "none"
        /\ calls'[c].pc = "rpc" /\ calls'[c].res = "transport"
    BY <1>1, <1>3 DEF Left, FailWaits, CallRec
  <2>2. QED
    BY <1>1, <2>1 DEF Left, FateOf, Before, Untouched, ToldOk
<1>4. QED
  BY <1>2, <1>3

\* The mailboxes of a step that leaves the owners alone.
LEMMA QueuesStay ==
  ASSUME ClientInv, NEW c \in Orders, owners' = owners, calls[c].pc = "wait" => calls'[c].pc = "wait"
  PROVE  QueuedOnce(c)'
BY DEF ClientInv, QueuedOnce

\* A step that leaves the Remote MCP client alone.
LEMMA OtherMoves ==
  ASSUME ClientInv, UNCHANGED mcpVars, calls' \in [Calls -> CallRec], ran' \in [Orders -> 0 .. 2], RpcShape',
         \A c \in Orders : FateOf(c)' /\ (calls[c].pc = "wait" => calls'[c].pc = "wait")
  PROVE  ClientInv'
<1>1. ClientTypes'
  BY DEF ClientInv, ClientTypes, mcpVars
<1>2. owners' = owners
  BY DEF mcpVars
<1>3. \A c \in Orders : QueuedOnce(c)'
  BY <1>2, QueuesStay
<1>4. QED
  BY <1>1, <1>3 DEF ClientInv

LEMMA BeginKeeps == ASSUME ClientInv, NEW c \in Calls, Begin(c), UNCHANGED <<mcpVars, oaVars>> PROVE ClientInv'
<1>1. /\ calls \in [Calls -> CallRec] /\ calls[c].pc = "idle" /\ calls' = [calls EXCEPT ![c] = Started]
      /\ UNCHANGED <<ran, rpc, flight, events>>
  BY DEF Begin, ClientInv, ClientTypes, oaVars
<1>2. Started.pc = "limit" /\ Started.res = "none" /\ Started \in CallRec
  BY DEF Started, CallRec, CallPcs, Results
<1>3. calls' \in [Calls -> CallRec] /\ ran' \in [Orders -> 0 .. 2] /\ RpcShape'
  BY <1>1, <1>2 DEF ClientInv, ClientTypes, RpcShape
<1>4. ASSUME NEW d \in Orders PROVE FateOf(d)' /\ (calls[d].pc = "wait" => calls'[d].pc = "wait")
  <2>1. CASE d = c
    BY <1>1, <1>2, <2>1 DEF ClientInv, FateOf, Before, Untouched, ToldOk
  <2>2. CASE d # c
    <3>1. calls'[d] = calls[d]
      BY <1>1, <2>2 DEF Calls
    <3>2. Left(d)
      BY <1>1, <3>1 DEF Left
    <3>3. QED
      BY <3>2, LeftFate
  <2>3. QED
    BY <2>1, <2>2
<1>5. QED
  BY <1>3, <1>4, OtherMoves

\* An order is not made again, whatever its attempt gave, and the caller is told so.
LEMMA SettleKeeps ==
  ASSUME ClientInv, NEW c \in Calls, Settle(c, Found), UNCHANGED <<mcpVars, oaVars>>
  PROVE  ClientInv'
<1> DEFINE again == Retried(c) \/ Restamped(c)
           n == calls[c].attempt + IF Retried(c) THEN 1 ELSE 0
           r == IF again THEN [Started EXCEPT !.attempt = n] ELSE [Started EXCEPT !.pc = "ended", !.res = Told(c)]
<1>1. /\ calls \in [Calls -> CallRec] /\ calls[c].pc = "back" /\ calls' = [calls EXCEPT ![c] = r]
      /\ UNCHANGED <<ran, rpc, flight, events>>
  BY DEF Settle, ClientInv, ClientTypes, oaVars
<1>2. r \in CallRec
  <2>1. calls[c] \in CallRec
    BY <1>1
  <2>2. n \in Nat
    BY <2>1 DEF CallRec
  <2>3. Told(c) \in Results
    BY DEF Told, Results
  <2> HIDE DEF n
  <2>4. [Started EXCEPT !.attempt = n] \in CallRec
    BY <2>2 DEF Started, CallRec, CallPcs, Results
  <2>5. [Started EXCEPT !.pc = "ended", !.res = Told(c)] \in CallRec
    BY <2>3 DEF Started, CallRec, CallPcs
  <2>6. QED
    BY <2>4, <2>5 DEF n
<1>3. calls' \in [Calls -> CallRec] /\ ran' \in [Orders -> 0 .. 2] /\ RpcShape'
  BY <1>1, <1>2 DEF ClientInv, ClientTypes, RpcShape
<1>4. ASSUME NEW d \in Orders PROVE FateOf(d)' /\ (calls[d].pc = "wait" => calls'[d].pc = "wait")
  <2>1. CASE d = c
    <3>1. c \notin Reads /\ calls[c].res # "stamp" /\ FateOf(c)
      BY <2>1, CallsAssumption DEF CallsAssumption, ClientInv, FateOf
    <3>2. ~again
      BY <3>1 DEF Retried, MayRetry, Restamped
    <3>3. calls'[c].pc = "ended" /\ calls'[c].res = Told(c)
      BY <1>1, <3>2 DEF Started
    <3>4. \/ Told(c) \in {"ok", "transport"} /\ calls[c].res = Told(c)
          \/ Told(c) = "rejected" /\ calls[c].res \notin {"ok", "transport"}
      BY <3>1 DEF Told
    <3>5. QED
      BY <1>1, <2>1, <3>1, <3>3, <3>4 DEF FateOf, Before, Untouched, ToldOk
  <2>2. CASE d # c
    <3>1. calls'[d] = calls[d]
      BY <1>1, <2>2 DEF Calls
    <3>2. Left(d)
      BY <1>1, <3>1 DEF Left
    <3>3. QED
      BY <3>2, LeftFate
  <2>3. QED
    BY <2>1, <2>2
<1>5. QED
  BY <1>3, <1>4, OtherMoves

\* A step that touches no call, no request and no order at the server.
LEMMA IdleKeepsCalls ==
  ASSUME ClientInv, UNCHANGED <<calls, ran, rpc, flight, events, mcpVars>> PROVE ClientInv'
<1>1. calls' \in [Calls -> CallRec] /\ ran' \in [Orders -> 0 .. 2] /\ RpcShape'
  BY DEF ClientInv, ClientTypes, RpcShape
<1>2. \A d \in Orders : Left(d)
  BY DEF Left
<1>3. QED
  BY <1>1, <1>2, LeftFate, OtherMoves

LEMMA AppKeeps == ASSUME ClientInv, App PROVE ClientInv'
<1>1. ASSUME NEW c \in Calls, Begin(c) \/ Settle(c, Found), UNCHANGED <<mcpVars, oaVars>> PROVE ClientInv'
  BY <1>1, BeginKeeps, SettleKeeps
<1>2. ASSUME TradesClosed \/ Resume, UNCHANGED <<mcpVars, oaVars>> PROVE ClientInv'
  BY <1>2, IdleKeepsCalls DEF TradesClosed, Resume, oaVars
<1>3. QED
  BY <1>1, <1>2 DEF App
-----------------------------------------------------------------------------
(* The Remote MCP client.                                                   *)
\* What a step of an owner does to an order: nothing, or its caller is answered and the
\* order is in no mailbox any more.
Answered(c, was, is) ==
  /\ HeldIn(was, c) /\ ~HeldIn(is, c) /\ calls'[c].pc = "back"
  /\ \/ calls'[c].res = "ok" /\ (ran[c] = 0 => ran'[c] = 1)
     \/ calls'[c].res = "transport" /\ (ran[c] = 0 => ran'[c] \in {0, 1})
     \/ calls'[c].res \notin {"ok", "stamp"} /\ ran'[c] = ran[c]

LEMMA OwnerMoves ==
  ASSUME ClientInv, NEW o \in OwnerIds, NEW r \in OwnerRec, owners' = [owners EXCEPT ![o] = r],
         calls' \in [Calls -> CallRec], ran' \in [Orders -> 0 .. 2], UNCHANGED oaVars,
         creds' \in Tokens, swap'.to \in Tokens \cup {NoToken},
         \A c \in Orders : /\ OnceIn(r, c) /\ (HeldIn(r, c) => HeldIn(owners[o], c))
                           /\ \/ calls'[c] = calls[c] /\ ran'[c] = ran[c]
                              \/ Answered(c, owners[o], r)
  PROVE  ClientInv'
<1>1. /\ owners \in [OwnerIds -> OwnerRec] /\ owners'[o] = r
      /\ \A q \in OwnerIds : q # o => owners'[q] = owners[q]
      /\ owners' \in [OwnerIds -> OwnerRec]
  BY DEF ClientInv, ClientTypes
<1>2. UNCHANGED <<rpc, flight, events>>
  BY DEF oaVars
<1>3. ClientTypes'
  BY <1>1, <1>2 DEF ClientInv, ClientTypes, RpcShape
<1>4. ASSUME NEW c \in Orders PROVE FateOf(c)' /\ QueuedOnce(c)'
  <2>1. FateOf(c) /\ QueuedOnce(c)
    BY DEF ClientInv
  <2>2. CASE calls'[c] = calls[c] /\ ran'[c] = ran[c]
    <3>1. FateOf(c)'
      BY <1>2, <2>1, <2>2 DEF FateOf, Before, Untouched, ToldOk
    <3>2. \A q \in OwnerIds : HeldIn(owners'[q], c) => HeldIn(owners[q], c)
      BY <1>1
    <3>3. \A q \in OwnerIds : OnceIn(owners'[q], c)
      BY <1>1, <2>1 DEF QueuedOnce
    <3>4. QED
      BY <2>1, <2>2, <3>1, <3>2, <3>3 DEF QueuedOnce
  <2>3. CASE Answered(c, owners[o], r)
    <3>1. calls[c].pc = "wait" /\ Untouched(c)
      BY <2>1, <2>3 DEF QueuedOnce, Answered, FateOf, Before
    <3>2. FateOf(c)'
      BY <1>2, <2>3, <3>1 DEF Answered, FateOf, Before, Untouched, ToldOk
    <3>3. \A q \in OwnerIds : ~HeldIn(owners'[q], c)
      BY <1>1, <2>1, <2>3 DEF QueuedOnce, Answered
    <3>4. \A q \in OwnerIds : OnceIn(owners'[q], c)
      BY <1>1, <2>1 DEF QueuedOnce
    <3>5. QED
      BY <3>2, <3>3, <3>4 DEF QueuedOnce
  <2>4. QED
    BY <2>2, <2>3
<1>5. QED
  BY <1>3, <1>4 DEF ClientInv

LEMMA BackOne ==
  ASSUME calls \in [Calls -> CallRec], NEW x, NEW r \in Results,
         calls' = [calls EXCEPT ![x].pc = "back", ![x].res = r]
  PROVE  /\ calls' \in [Calls -> CallRec]
         /\ x \in Calls => calls'[x].pc = "back" /\ calls'[x].res = r
         /\ \A c \in Calls : c # x => calls'[c] = calls[c]
<1>1. \A c \in Calls : c # x => calls'[c] = calls[c]
  OBVIOUS
<1>2. ASSUME x \in Calls PROVE calls'[x] \in CallRec /\ calls'[x].pc = "back" /\ calls'[x].res = r
  <2>1. calls[x] \in CallRec
    BY <1>2
  <2>2. calls'[x] = [calls[x] EXCEPT !.pc = "back", !.res = r]
    BY <1>2
  <2>3. QED
    BY <2>1, <2>2 DEF CallRec, CallPcs
<1>3. calls' \in [Calls -> CallRec]
  BY <1>1, <1>2
<1>4. QED
  BY <1>1, <1>2, <1>3

LEMMA RanOne ==
  ASSUME ran \in [Orders -> 0 .. 2], NEW x, Ran(x)
  PROVE  /\ ran' \in [Orders -> 0 .. 2]
         /\ x \in Orders /\ ran[x] = 0 => ran'[x] = 1
         /\ \A c \in Orders : c # x => ran'[c] = ran[c]
<1>1. CASE x \notin Orders
  BY <1>1 DEF Ran
<1>2. CASE x \in Orders
  <2>1. ran[x] \in 0 .. 2 /\ ran' = [ran EXCEPT ![x] = IF ran[x] = 2 THEN 2 ELSE ran[x] + 1]
    BY <1>2 DEF Ran
  <2>2. (IF ran[x] = 2 THEN 2 ELSE ran[x] + 1) \in 0 .. 2
    BY <2>1
  <2>3. QED
    BY <1>2, <2>1, <2>2
<1>3. QED
  BY <1>1, <1>2

\* The caller of the request in hand is answered, and what it is told fits what ran.
LEMMA AnswerKeeps ==
  ASSUME ClientInv, NEW o \in OwnerIds, NEW r \in OwnerRec, NEW res \in Results,
         owners' = [owners EXCEPT ![o] = r], r.cur = Nobody, r.queue = owners[o].queue,
         calls' = [calls EXCEPT ![owners[o].cur].pc = "back", ![owners[o].cur].res = res],
         \/ UNCHANGED ran /\ (owners[o].cur \in Orders => res \notin {"ok", "stamp"})
         \/ Ran(owners[o].cur) /\ res \in {"ok", "transport"},
         UNCHANGED <<oaVars, creds, swap>>
  PROVE  ClientInv'
<1> DEFINE x == owners[o].cur
<1>1. calls \in [Calls -> CallRec] /\ ran \in [Orders -> 0 .. 2] /\ Nobody \notin Orders
  BY CallsAssumption DEF CallsAssumption, ClientInv, ClientTypes, Calls
<1>2. /\ calls' \in [Calls -> CallRec]
      /\ x \in Calls => calls'[x].pc = "back" /\ calls'[x].res = res
      /\ \A c \in Calls : c # x => calls'[c] = calls[c]
  BY <1>1, BackOne
<1>3. /\ ran' \in [Orders -> 0 .. 2]
      /\ \A c \in Orders : c # x => ran'[c] = ran[c]
      /\ x \in Orders => \/ ran'[x] = ran[x] /\ res \notin {"ok", "stamp"}
                         \/ (ran[x] = 0 => ran'[x] = 1) /\ res \in {"ok", "transport"}
  <2>1. CASE UNCHANGED ran /\ (x \in Orders => res \notin {"ok", "stamp"})
    BY <1>1, <2>1
  <2>2. CASE Ran(x) /\ res \in {"ok", "transport"}
    BY <1>1, <2>2, RanOne
  <2>3. QED
    BY <2>1, <2>2
<1>4. ASSUME NEW c \in Orders
      PROVE  /\ OnceIn(r, c) /\ (HeldIn(r, c) => HeldIn(owners[o], c))
             /\ (calls'[c] = calls[c] /\ ran'[c] = ran[c]) \/ Answered(c, owners[o], r)
  <2>1. OnceIn(owners[o], c) /\ c # Nobody /\ c \in Calls
    BY <1>1 DEF ClientInv, QueuedOnce, Calls
  <2>2. OnceIn(r, c) /\ (HeldIn(r, c) => HeldIn(owners[o], c))
    BY <2>1 DEF OnceIn, HeldIn
  <2>3. CASE c # x
    BY <1>2, <1>3, <2>1, <2>2, <2>3
  <2>4. CASE c = x
    <3>1. HeldIn(owners[o], c) /\ ~HeldIn(r, c)
      BY <2>1, <2>4 DEF OnceIn, HeldIn
    <3>2. Answered(c, owners[o], r)
      BY <1>2, <1>3, <2>1, <2>4, <3>1 DEF Answered
    <3>3. QED
      BY <2>2, <3>2
  <2>5. QED
    BY <2>3, <2>4
<1>5. creds' \in Tokens /\ swap'.to \in Tokens \cup {NoToken}
  BY DEF ClientInv, ClientTypes
<1>6. QED
  BY <1>2, <1>3, <1>4, <1>5, OwnerMoves

\* The owner goes on with the same requests.
LEMMA SameRequests ==
  ASSUME ClientInv, NEW o \in OwnerIds, NEW r \in OwnerRec, owners' = [owners EXCEPT ![o] = r],
         r.cur = owners[o].cur, r.queue = owners[o].queue, UNCHANGED <<calls, ran, oaVars>>,
         creds' \in Tokens, swap'.to \in Tokens \cup {NoToken}
  PROVE  ClientInv'
<1>1. \A c \in Orders : OnceIn(r, c) /\ (HeldIn(r, c) => HeldIn(owners[o], c))
  BY DEF ClientInv, QueuedOnce, OnceIn, HeldIn
<1>2. calls' \in [Calls -> CallRec] /\ ran' \in [Orders -> 0 .. 2]
  BY DEF ClientInv, ClientTypes
<1>3. QED
  BY <1>1, <1>2, OwnerMoves

\* The request goes out, or its caller is told that the tool is not offered.
LEMMA AskKeeps ==
  ASSUME ClientInv, NEW o \in OwnerIds, NEW r \in OwnerRec, NEW known, Ask(o, r, known),
         \A c \in Orders : OnceIn(r, c) /\ (HeldIn(r, c) => HeldIn(owners[o], c)),
         UNCHANGED <<ran, oaVars, creds, swap>>
  PROVE  ClientInv'
<1>1. /\ calls \in [Calls -> CallRec] /\ ran' \in [Orders -> 0 .. 2] /\ Nobody \notin Orders
      /\ creds' \in Tokens /\ swap'.to \in Tokens \cup {NoToken}
  BY CallsAssumption DEF CallsAssumption, ClientInv, ClientTypes, Calls
<1>2. CASE Offers(known, r.cur)
  <2> DEFINE f == [r EXCEPT !.pc = "call"]
  <2>1. f \in OwnerRec /\ f.cur = r.cur /\ f.queue = r.queue /\ owners' = [owners EXCEPT ![o] = f]
        /\ calls' = calls
    BY <1>2 DEF Ask, OwnerRec
  <2> HIDE DEF f
  <2>2. \A c \in Orders : OnceIn(f, c) /\ (HeldIn(f, c) => HeldIn(owners[o], c))
    BY <2>1 DEF OnceIn, HeldIn
  <2>3. QED
    BY <1>1, <2>1, <2>2, OwnerMoves
<1>3. CASE ~Offers(known, r.cur)
  <2> DEFINE f == [r EXCEPT !.pc = "get", !.cur = Nobody]
  <2>1. /\ f \in OwnerRec /\ f.cur = Nobody /\ f.queue = r.queue /\ owners' = [owners EXCEPT ![o] = f]
        /\ calls' = [calls EXCEPT ![r.cur].pc = "back", ![r.cur].res = "tool"]
    BY <1>3 DEF Ask, OwnerRec
  <2> HIDE DEF f
  <2>2. /\ calls' \in [Calls -> CallRec]
        /\ r.cur \in Calls => calls'[r.cur].pc = "back" /\ calls'[r.cur].res = "tool"
        /\ \A c \in Calls : c # r.cur => calls'[c] = calls[c]
    <3>1. "tool" \in Results
      BY DEF Results
    <3>2. QED
      BY <1>1, <2>1, <3>1, BackOne
  <2>3. ASSUME NEW c \in Orders
        PROVE  /\ OnceIn(f, c) /\ (HeldIn(f, c) => HeldIn(owners[o], c))
               /\ (calls'[c] = calls[c] /\ ran'[c] = ran[c]) \/ Answered(c, owners[o], f)
    <3>1. OnceIn(r, c) /\ (HeldIn(r, c) => HeldIn(owners[o], c)) /\ c # Nobody /\ c \in Calls
      BY <1>1 DEF Calls
    <3>2. OnceIn(f, c) /\ (HeldIn(f, c) => HeldIn(owners[o], c))
      BY <2>1, <3>1 DEF OnceIn, HeldIn
    <3>3. CASE c # r.cur
      BY <2>2, <3>1, <3>2, <3>3
    <3>4. CASE c = r.cur
      <4>1. HeldIn(owners[o], c) /\ ~HeldIn(f, c)
        BY <2>1, <3>1, <3>4 DEF OnceIn, HeldIn
      <4>2. Answered(c, owners[o], f)
        BY <2>2, <3>1, <3>4, <4>1 DEF Answered
      <4>3. QED
        BY <3>2, <4>2
    <3>5. QED
      BY <3>3, <3>4
  <2>4. QED
    BY <1>1, <2>1, <2>2, <2>3, OwnerMoves
<1>4. QED
  BY <1>2, <1>3

LEMMA TakeKeeps == ASSUME ClientInv, NEW o \in OwnerIds, Take(o), UNCHANGED oaVars PROVE ClientInv'
<1> DEFINE q == owners[o].queue
           r == [owners[o] EXCEPT !.queue = Tail(q), !.cur = Head(q), !.attempt = 0]
           f == Opening(r)
<1>1. /\ q # <<>> /\ UNCHANGED <<ran, creds, swap>>
      /\ \/ owners' = [owners EXCEPT ![o] = f] /\ UNCHANGED calls
         \/ Ask(o, r, tools)
  BY DEF Take
<1>2. owners[o] \in OwnerRec /\ q \in Seq(Calls) /\ creds \in Tokens
  BY DEF ClientInv, ClientTypes, OwnerRec
<1>3. /\ Head(q) = q[1] /\ Head(q) \in Calls /\ Tail(q) \in Seq(Calls) /\ 1 \in DOMAIN q
      /\ \A i \in DOMAIN Tail(q) : i + 1 \in DOMAIN q /\ Tail(q)[i] = q[i + 1] /\ i \in Nat \ {0}
  BY <1>1, <1>2
<1>4. /\ r \in OwnerRec /\ r.cur = Head(q) /\ r.queue = Tail(q)
      /\ f \in OwnerRec /\ f.cur = Head(q) /\ f.queue = Tail(q)
  <2>1. /\ r.cur = Head(q) /\ r.queue = Tail(q) /\ r \in OwnerRec
    BY <1>2, <1>3 DEF OwnerRec
  <2> HIDE DEF r
  <2>2. f \in OwnerRec /\ f.cur = r.cur /\ f.queue = r.queue
    BY <1>2, <2>1 DEF Opening, OwnerRec
  <2>3. QED
    BY <2>1, <2>2
<1> HIDE DEF r, f, q
<1>5. ASSUME NEW c \in Orders
      PROVE  /\ OnceIn(r, c) /\ (HeldIn(r, c) => HeldIn(owners[o], c))
             /\ OnceIn(f, c) /\ (HeldIn(f, c) => HeldIn(owners[o], c))
  <2>1. \A i, j \in DOMAIN q : q[i] = c /\ q[j] = c => i = j
    BY DEF ClientInv, QueuedOnce, OnceIn, q
  <2>2. Head(q) = c \/ (\E i \in DOMAIN Tail(q) : Tail(q)[i] = c) => \E i \in DOMAIN q : q[i] = c
    BY <1>3
  <2>3. (\E i \in DOMAIN q : q[i] = c) => HeldIn(owners[o], c)
    BY DEF HeldIn, q
  <2>4. Head(q) = c => \A i \in DOMAIN Tail(q) : Tail(q)[i] # c
    <3>1. ASSUME Head(q) = c, NEW i \in DOMAIN Tail(q), Tail(q)[i] = c PROVE FALSE
      <4>1. i + 1 = 1 /\ i \in Nat \ {0}
        BY <1>3, <2>1, <3>1
      <4>2. QED
        BY <4>1
    <3>2. QED
      BY <3>1
  <2>5. \A i, j \in DOMAIN Tail(q) : Tail(q)[i] = c /\ Tail(q)[j] = c => i = j
    <3>1. ASSUME NEW i \in DOMAIN Tail(q), NEW j \in DOMAIN Tail(q), Tail(q)[i] = c, Tail(q)[j] = c
          PROVE  i = j
      <4>1. i + 1 = j + 1 /\ i \in Nat /\ j \in Nat
        BY <1>3, <2>1, <3>1
      <4>2. QED
        BY <4>1
    <3>2. QED
      BY <3>1
  <2>6. QED
    BY <1>4, <2>2, <2>3, <2>4, <2>5 DEF OnceIn, HeldIn
<1>6. CASE Ask(o, r, tools)
  BY <1>1, <1>4, <1>5, <1>6, AskKeeps
<1>7. CASE owners' = [owners EXCEPT ![o] = f] /\ UNCHANGED calls
  <2>1. /\ calls' \in [Calls -> CallRec] /\ ran' \in [Orders -> 0 .. 2]
        /\ creds' \in Tokens /\ swap'.to \in Tokens \cup {NoToken}
    BY <1>1, <1>7 DEF ClientInv, ClientTypes
  <2>2. QED
    BY <1>1, <1>4, <1>5, <1>7, <2>1, OwnerMoves
<1>8. QED
  BY <1>1, <1>6, <1>7

LEMMA HeldAsIs ==
  ASSUME ClientInv, NEW o \in OwnerIds, NEW c \in Orders
  PROVE  OnceIn(owners[o], c)
BY DEF ClientInv, QueuedOnce

LEMMA OpenedKeeps ==
  ASSUME ClientInv, NEW o \in OwnerIds, Opened(o) \/ Listed(o), UNCHANGED oaVars PROVE ClientInv'
<1>1. owners[o] \in OwnerRec /\ UNCHANGED <<ran, creds, swap>>
  BY DEF Opened, Listed, ClientInv, ClientTypes
<1>2. CASE \E known : Ask(o, owners[o], known)
  BY <1>1, <1>2, HeldAsIs, AskKeeps
<1>3. CASE owners' = [owners EXCEPT ![o].pc = "list"] /\ UNCHANGED calls
  <2> DEFINE f == [owners[o] EXCEPT !.pc = "list"]
  <2>1. owners' = [owners EXCEPT ![o] = f]
    BY <1>3
  <2>2. f \in OwnerRec /\ f.cur = owners[o].cur /\ f.queue = owners[o].queue
    BY <1>1 DEF OwnerRec
  <2>3. creds' \in Tokens /\ swap'.to \in Tokens \cup {NoToken}
    BY <1>1 DEF ClientInv, ClientTypes
  <2> HIDE DEF f
  <2>4. QED
    BY <1>1, <1>3, <2>1, <2>2, <2>3, SameRequests
<1>4. QED
  BY <1>2, <1>3 DEF Opened, Listed

LEMMA ReopenKeeps ==
  ASSUME ClientInv, NEW o \in OwnerIds, Reopen(o), UNCHANGED oaVars PROVE ClientInv'
<1> DEFINE f == Opening(owners[o])
<1>1. owners' = [owners EXCEPT ![o] = f] /\ UNCHANGED <<calls, ran, creds, swap>>
  BY DEF Reopen, callVars
<1>2. creds \in Tokens /\ swap.to \in Tokens \cup {NoToken} /\ owners[o] \in OwnerRec
  BY DEF ClientInv, ClientTypes
<1>3. f \in OwnerRec /\ f.cur = owners[o].cur /\ f.queue = owners[o].queue
  BY <1>2 DEF Opening, OwnerRec
<1> HIDE DEF f
<1>4. QED
  BY <1>1, <1>2, <1>3, SameRequests

\* An answer ends the call, and only an answer or a broken connection may have run it.
LEMMA RepliedKeeps ==
  ASSUME ClientInv, NEW o \in OwnerIds, Replied(o), UNCHANGED oaVars PROVE ClientInv'
<1> DEFINE f == [owners[o] EXCEPT !.pc = "get", !.cur = Nobody, !.sess = owners[o].sess]
<1>1. owners[o] \in OwnerRec /\ UNCHANGED <<creds, swap>>
  BY DEF Replied, ClientInv, ClientTypes
<1>2. f \in OwnerRec /\ f.cur = Nobody /\ f.queue = owners[o].queue
  BY <1>1 DEF OwnerRec
<1>3. PICK res \in Results :
        /\ Answer(o, owners[o].sess, res)
        /\ \/ UNCHANGED ran /\ (owners[o].cur \in Orders => res \notin {"ok", "stamp"})
           \/ Ran(owners[o].cur) /\ res \in {"ok", "transport"}
  <2>1. CASE Answer(o, owners[o].sess, "ok") /\ Ran(owners[o].cur)
    BY <2>1 DEF Results
  <2>2. CASE \E res \in Refusals(o) : Answer(o, owners[o].sess, res) /\ UNCHANGED ran
    <3>1. \A res \in Refusals(o) : res \in Results /\ res # "ok" /\ (res = "stamp" => owners[o].cur \in Reads)
      BY DEF Refusals, Results
    <3>2. QED
      BY <2>2, <3>1, CallsAssumption DEF CallsAssumption
  <2>3. QED
    BY <2>1, <2>2 DEF Replied
<1>4. /\ owners' = [owners EXCEPT ![o] = f]
      /\ calls' = [calls EXCEPT ![owners[o].cur].pc = "back", ![owners[o].cur].res = res]
  <2>1. owners' = [owners EXCEPT ![o].pc = "get", ![o].cur = Nobody, ![o].sess = owners[o].sess]
    BY <1>3 DEF Answer
  <2>2. owners \in [OwnerIds -> OwnerRec]
    BY DEF ClientInv, ClientTypes
  <2>3. owners' = [owners EXCEPT ![o] = f]
    BY <2>1, <2>2
  <2>4. QED
    BY <1>3, <2>3 DEF Answer
<1> HIDE DEF f
<1>5. QED
  BY <1>1, <1>2, <1>3, <1>4, AnswerKeeps

LEMMA LostKeeps ==
  ASSUME ClientInv, NEW o \in OwnerIds, Lost(o), UNCHANGED oaVars PROVE ClientInv'
<1>1. owners[o] \in OwnerRec /\ UNCHANGED <<ran, creds, swap>> /\ owners \in [OwnerIds -> OwnerRec]
      /\ creds \in Tokens /\ swap.to \in Tokens \cup {NoToken}
  BY DEF Lost, ClientInv, ClientTypes
<1>2. CASE owners[o].attempt < SessionRetries
  <2> DEFINE n == owners[o].attempt + 1
             f == [owners[o] EXCEPT !.pc = "backoff", !.sess = NoToken, !.attempt = n]
  <2>1. owners' = [owners EXCEPT ![o] = f] /\ UNCHANGED calls
    BY <1>1, <1>2 DEF Lost
  <2>2. n \in Nat
    BY <1>1 DEF OwnerRec
  <2> HIDE DEF n
  <2>3. f \in OwnerRec /\ f.cur = owners[o].cur /\ f.queue = owners[o].queue
    BY <1>1, <2>2 DEF OwnerRec
  <2> HIDE DEF f
  <2>4. QED
    BY <1>1, <2>1, <2>3, SameRequests
<1>3. CASE ~(owners[o].attempt < SessionRetries)
  <2> DEFINE f == [owners[o] EXCEPT !.pc = "get", !.cur = Nobody, !.sess = NoToken]
  <2>1. PICK res \in {"auth", "transport"} : Answer(o, NoToken, res)
    BY <1>3 DEF Lost
  <2>2. /\ owners' = [owners EXCEPT ![o] = f]
        /\ calls' = [calls EXCEPT ![owners[o].cur].pc = "back", ![owners[o].cur].res = res]
    BY <1>1, <2>1 DEF Answer
  <2>3. f \in OwnerRec /\ f.cur = Nobody /\ f.queue = owners[o].queue
    BY <1>1 DEF OwnerRec
  <2> HIDE DEF f
  <2>4. res \in Results /\ res \notin {"ok", "stamp"}
    BY DEF Results
  <2>5. QED
    BY <1>1, <2>2, <2>3, <2>4, AnswerKeeps
<1>4. QED
  BY <1>2, <1>3

LEMMA BrokenKeeps ==
  ASSUME ClientInv, NEW o \in OwnerIds, Broken(o), UNCHANGED oaVars PROVE ClientInv'
<1> DEFINE f == GivesUp(o)
<1>1. owners[o] \in OwnerRec /\ UNCHANGED <<creds, swap>> /\ owners' = [owners EXCEPT ![o] = f]
      /\ owners \in [OwnerIds -> OwnerRec]
  BY DEF Broken, ClientInv, ClientTypes
<1>2. f \in OwnerRec /\ f.cur = Nobody /\ f.queue = owners[o].queue
  BY <1>1 DEF GivesUp, OwnerRec
<1> HIDE DEF f
<1>3. owners'[o].cur = Nobody
  BY <1>1, <1>2
<1>4. PICK res \in {"auth", "transport"} :
        /\ calls' = IF owners'[o].cur # Nobody THEN calls
                    ELSE [calls EXCEPT ![owners[o].cur].pc = "back", ![owners[o].cur].res = res]
        /\ UNCHANGED ran \/ (res = "transport" /\ owners[o].pc = "call" /\ Ran(owners[o].cur))
  BY DEF Broken
<1>5. calls' = [calls EXCEPT ![owners[o].cur].pc = "back", ![owners[o].cur].res = res]
  BY <1>3, <1>4
<1>6. res \in Results /\ res \notin {"ok", "stamp"}
  BY DEF Results
<1>7. QED
  BY <1>1, <1>2, <1>4, <1>5, <1>6, AnswerKeeps

\* A cancelled owner tells every caller it leaves, those still in its mailbox too.
LEMMA FinishKeeps ==
  ASSUME ClientInv, NEW o \in OwnerIds, Finish(o), UNCHANGED oaVars PROVE ClientInv'
<1> DEFINE f == [NoOwner EXCEPT !.pc = "gone"]
           x == owners[o].cur
<1>1. /\ owners[o] \in OwnerRec /\ owners' = [owners EXCEPT ![o] = f] /\ calls \in [Calls -> CallRec]
      /\ ran \in [Orders -> 0 .. 2] /\ creds' \in Tokens /\ swap'.to \in Tokens \cup {NoToken}
      /\ calls' = [c \in Calls |-> IF c \in Pending(o) THEN [calls[c] EXCEPT !.pc = "back", !.res = "transport"]
                                   ELSE calls[c]]
      /\ UNCHANGED ran \/ Ran(x)
  BY DEF Finish, ClientInv, ClientTypes
<1>2. f \in OwnerRec /\ f.cur = Nobody /\ f.queue = <<>>
  <2>1. \A r \in OwnerRec :
          LET g == [r EXCEPT !.pc = "gone"] IN g \in OwnerRec /\ g.cur = r.cur /\ g.queue = r.queue
    BY DEF OwnerRec
  <2>2. QED
    BY <2>1, NoOwnerType
<1> HIDE DEF f
<1>3. ASSUME NEW c \in Calls
      PROVE  /\ calls'[c] \in CallRec
             /\ c \in Pending(o) => calls'[c].pc = "back" /\ calls'[c].res = "transport"
             /\ c \notin Pending(o) => calls'[c] = calls[c]
  BY <1>1 DEF CallRec, CallPcs, Results
<1>4. calls' \in [Calls -> CallRec]
  BY <1>1, <1>3
<1>5. /\ ran' \in [Orders -> 0 .. 2] /\ \A c \in Orders : c # x => ran'[c] = ran[c]
      /\ x \in Orders /\ ran[x] = 0 => ran'[x] \in {0, 1}
  <2>1. CASE UNCHANGED ran
    BY <1>1, <2>1
  <2>2. CASE Ran(x)
    BY <1>1, <2>2, RanOne
  <2>3. QED
    BY <1>1, <2>1, <2>2
<1>6. ASSUME NEW c \in Orders
      PROVE  /\ OnceIn(f, c) /\ (HeldIn(f, c) => HeldIn(owners[o], c))
             /\ (calls'[c] = calls[c] /\ ran'[c] = ran[c]) \/ Answered(c, owners[o], f)
  <2>1. c # Nobody /\ c \in Calls
    BY CallsAssumption DEF CallsAssumption, Calls
  <2>2. ~HeldIn(f, c) /\ OnceIn(f, c)
    BY <1>2, <2>1 DEF HeldIn, OnceIn
  <2>3. c \in Pending(o) <=> HeldIn(owners[o], c)
    BY <2>1 DEF Pending, HeldIn
  <2>4. CASE HeldIn(owners[o], c)
    <3>1. calls'[c].pc = "back" /\ calls'[c].res = "transport" /\ (ran[c] = 0 => ran'[c] \in {0, 1})
      BY <1>3, <1>5, <2>1, <2>3, <2>4
    <3>2. QED
      BY <2>2, <2>4, <3>1 DEF Answered
  <2>5. CASE ~HeldIn(owners[o], c)
    <3>1. c # x
      BY <2>5 DEF HeldIn
    <3>2. QED
      BY <1>3, <1>5, <2>1, <2>2, <2>3, <2>5, <3>1
  <2>6. QED
    BY <2>4, <2>5
<1>7. QED
  BY <1>1, <1>2, <1>4, <1>5, <1>6, OwnerMoves

LEMMA CredentialsKeep ==
  ASSUME ClientInv, UNCHANGED <<calls, ran, owners, oaVars>>, creds' \in Tokens, swap'.to \in Tokens \cup {NoToken}
  PROVE  ClientInv'
<1>1. ClientTypes'
  BY DEF ClientInv, ClientTypes, RpcShape, oaVars
<1>2. ASSUME NEW c \in Orders PROVE FateOf(c)' /\ QueuedOnce(c)'
  <2>1. Left(c)
    BY DEF Left, oaVars
  <2>2. QED
    BY <2>1, LeftFate, QueuesStay
<1>3. QED
  BY <1>1, <1>2 DEF ClientInv

LEMMA SwapKeeps ==
  ASSUME ClientInv, (\E t \in Tokens : SetCtrader(t)) \/ SwapEnds, UNCHANGED oaVars PROVE ClientInv'
<1>1. owners \in [OwnerIds -> OwnerRec] /\ creds \in Tokens /\ swap.to \in Tokens \cup {NoToken}
  BY DEF ClientInv, ClientTypes
<1>2. CASE SwapEnds
  <2>1. creds' \in Tokens /\ swap'.to = NoToken /\ UNCHANGED <<calls, ran, owners>>
    BY <1>1, <1>2 DEF SwapEnds, Swapped, NoSwap
  <2>2. QED
    BY <2>1, CredentialsKeep
<1>3. ASSUME NEW t \in Tokens, SetCtrader(t) PROVE ClientInv'
  <2>1. UNCHANGED <<calls, ran>>
    BY <1>3 DEF SetCtrader
  <2>2. CASE UNCHANGED owners
    <3>1. creds' \in Tokens /\ swap'.to \in Tokens \cup {NoToken}
      BY <1>1, <1>3 DEF SetCtrader, Swapped, NoSwap
    <3>2. QED
      BY <2>1, <2>2, <3>1, CredentialsKeep
  <2>3. CASE ~UNCHANGED owners
    <3> DEFINE f == [owners[me] EXCEPT !.doomed = TRUE]
    <3>1. owners' = [owners EXCEPT ![me] = f] /\ swap'.to = t /\ creds' = creds
      BY <1>3, <2>3 DEF SetCtrader
    <3>2. me \in OwnerIds
      BY <1>1, <2>3, <3>1
    <3>3. f \in OwnerRec /\ f.cur = owners[me].cur /\ f.queue = owners[me].queue
      BY <1>1, <3>2 DEF OwnerRec
    <3> HIDE DEF f
    <3>4. QED
      BY <1>1, <2>1, <3>1, <3>2, <3>3, SameRequests
  <2>4. QED
    BY <2>2, <2>3
<1>4. QED
  BY <1>2, <1>3

\* A request is queued once, in the mailbox of the owner there is now.
LEMMA PostKeeps == ASSUME ClientInv, NEW c \in Calls, Post(c), UNCHANGED oaVars PROVE ClientInv'
<1>1. PICK o \in OwnerIds :
        \E fresh \in BOOLEAN :
          owners' = [owners EXCEPT ![o].queue = Append(owners[o].queue, c),
                                   ![o].pc = IF fresh THEN "get" ELSE owners[o].pc]
  <2>1. (me = 0 \/ owners[me].pc = "gone") \in BOOLEAN
    OBVIOUS
  <2>2. QED
    BY <2>1 DEF Post
<1>2. PICK pc \in {"get", owners[o].pc} :
        owners' = [owners EXCEPT ![o].queue = Append(owners[o].queue, c), ![o].pc = pc]
  BY <1>1
<1> DEFINE q == owners[o].queue
           r == [owners[o] EXCEPT !.queue = Append(q, c), !.pc = pc]
<1>3. /\ calls \in [Calls -> CallRec] /\ owners \in [OwnerIds -> OwnerRec] /\ owners[o] \in OwnerRec
      /\ calls[c].pc = "limit" /\ calls' = [calls EXCEPT ![c].pc = "wait"]
      /\ UNCHANGED <<ran, creds, swap, rpc, flight, events>> /\ q \in Seq(Calls)
  BY DEF Post, ClientInv, ClientTypes, oaVars, OwnerRec
<1>4. owners' = [owners EXCEPT ![o] = r]
  BY <1>2, <1>3
<1>5. r \in OwnerRec /\ r.cur = owners[o].cur /\ r.queue = Append(q, c)
  <2>1. Append(q, c) \in Seq(Calls)
    BY <1>3
  <2>2. QED
    BY <1>3, <2>1 DEF OwnerRec
<1> HIDE DEF r
<1>6. /\ owners' \in [OwnerIds -> OwnerRec] /\ owners'[o] = r
      /\ \A p \in OwnerIds : p # o => owners'[p] = owners[p]
  BY <1>3, <1>4, <1>5
<1>7. /\ calls' \in [Calls -> CallRec] /\ calls'[c].pc = "wait" /\ calls'[c].res = calls[c].res
      /\ \A d \in Calls : d # c => calls'[d] = calls[d]
  BY <1>3 DEF CallRec, CallPcs
<1>8. ClientTypes'
  BY <1>3, <1>6, <1>7 DEF ClientInv, ClientTypes, RpcShape
<1>9. /\ Len(q) \in Nat /\ DOMAIN q = 1 .. Len(q) /\ DOMAIN r.queue = 1 .. Len(q) + 1
      /\ r.queue[Len(q) + 1] = c /\ \A i \in DOMAIN q : r.queue[i] = q[i]
  BY <1>3, <1>5
<1>10. ASSUME NEW d \in Orders PROVE FateOf(d)' /\ QueuedOnce(d)'
  <2>1. FateOf(d) /\ QueuedOnce(d) /\ d \in Calls
    BY DEF ClientInv, Calls
  <2> HIDE DEF q
  <2>2. CASE d = c
    <3>1. FateOf(d)'
      BY <1>3, <1>7, <2>1, <2>2 DEF FateOf, Before, Untouched, ToldOk
    <3>2. \A p \in OwnerIds : ~HeldIn(owners[p], d)
      BY <1>3, <2>1, <2>2 DEF QueuedOnce
    <3>3. \A p \in OwnerIds : p # o => ~HeldIn(owners'[p], d)
      BY <1>6, <3>2
    <3>4. r.cur # d /\ \A i \in DOMAIN q : q[i] # d
      BY <1>5, <3>2 DEF HeldIn, q
    <3>5. OnceIn(r, d)
      <4>1. \A i \in DOMAIN r.queue : r.queue[i] = d => i = Len(q) + 1
        BY <1>9, <3>4
      <4>2. QED
        BY <3>4, <4>1 DEF OnceIn
    <3>6. \A p \in OwnerIds : OnceIn(owners'[p], d)
      BY <1>6, <2>1, <3>5 DEF QueuedOnce
    <3>7. QED
      BY <1>7, <2>2, <3>1, <3>3, <3>6 DEF QueuedOnce
  <2>3. CASE d # c
    <3>1. calls'[d] = calls[d]
      BY <1>7, <2>1, <2>3
    <3>2. FateOf(d)'
      BY <1>3, <2>1, <3>1 DEF FateOf, Before, Untouched, ToldOk
    <3>3. \A i \in DOMAIN r.queue : r.queue[i] = d => i \in DOMAIN q /\ q[i] = d
      BY <1>9, <2>3
    <3>4. (HeldIn(r, d) => HeldIn(owners[o], d)) /\ OnceIn(r, d)
      BY <1>5, <2>1, <3>3 DEF QueuedOnce, HeldIn, OnceIn, q
    <3>5. \A p \in OwnerIds : (HeldIn(owners'[p], d) => HeldIn(owners[p], d)) /\ OnceIn(owners'[p], d)
      BY <1>6, <2>1, <3>4 DEF QueuedOnce
    <3>6. QED
      BY <2>1, <3>1, <3>2, <3>5 DEF QueuedOnce
  <2>4. QED
    BY <2>2, <2>3
<1>11. QED
  BY <1>8, <1>10 DEF ClientInv

LEMMA McpKeeps == ASSUME ClientInv, Mcp PROVE ClientInv'
BY PostKeeps, TakeKeeps, OpenedKeeps, RepliedKeeps, LostKeeps, ReopenKeeps, BrokenKeeps, FinishKeeps, SwapKeeps
   DEF Mcp, OwnerStep
-----------------------------------------------------------------------------
(* The Open API client.                                                     *)
LEMMA FailWaitsOf ==
  ASSUME calls \in [Calls -> CallRec], NEW c \in Calls
  PROVE  /\ FailWaits(calls)[c] \in CallRec /\ FailWaits(calls)[c].pc = calls[c].pc
         /\ calls[c].pc # "rpc" => FailWaits(calls)[c] = calls[c]
<1>1. calls[c] \in CallRec /\ "transport" \in Results
  BY DEF Results
<1>2. FailWaits(calls)[c] = IF calls[c].pc = "rpc" /\ calls[c].res = "none"
                            THEN [calls[c] EXCEPT !.res = "transport"] ELSE calls[c]
  BY DEF FailWaits
<1>3. QED
  BY <1>1, <1>2 DEF CallRec

\* One call moves on; every other one is left, or failed with those that wait.
LEMMA CallMoves ==
  ASSUME ClientInv, NEW c \in Calls, NEW f, f = calls \/ f = FailWaits(calls), NEW r \in CallRec,
         calls' = [f EXCEPT ![c] = r], calls[c].pc # "wait", RpcShape',
         \A d \in Orders : d # c => /\ rpc'[d] = rpc[d]
                                    /\ d \in flight' <=> d \in flight
                                    /\ d \in events' <=> d \in events,
         c \in Orders => FateOf(c)',
         UNCHANGED <<mcpVars, ran>>
  PROVE  ClientInv'
<1>1. calls \in [Calls -> CallRec] /\ ran \in [Orders -> 0 .. 2]
  BY DEF ClientInv, ClientTypes
<1>2. f \in [Calls -> CallRec]
  <2>1. CASE f = FailWaits(calls)
    <3>1. f = [d \in Calls |-> f[d]]
      BY <2>1 DEF FailWaits
    <3>2. QED
      BY <1>1, <2>1, <3>1, FailWaitsOf
  <2>2. QED
    BY <1>1, <2>1
<1>3. calls' \in [Calls -> CallRec]
  BY <1>2
<1>4. ASSUME NEW d \in Orders, d # c PROVE Left(d)
  <2>1. calls'[d] = f[d]
    BY <1>2, <1>4 DEF Calls
  <2>2. QED
    BY <1>4, <2>1 DEF Left
<1>5. ASSUME NEW d \in Orders PROVE FateOf(d)' /\ (calls[d].pc = "wait" => calls'[d].pc = "wait")
  BY <1>4, LeftFate
<1>6. QED
  BY <1>1, <1>3, <1>5, OtherMoves

\* A call ends its attempt: with ok only when it ran, refused only when nothing of it did.
LEMMA BackMoves ==
  ASSUME ClientInv, NEW c \in Calls, NEW f, f = calls \/ f = FailWaits(calls), NEW r \in Results,
         calls' = Back(f, c, r), calls[c].pc # "wait", UNCHANGED <<mcpVars, ran, rpc, flight, events>>,
         c \in Orders => /\ r # "stamp" /\ (r = "ok" => ran[c] = 1)
                         /\ r \notin {"ok", "transport"} => Untouched(c)
  PROVE  ClientInv'
<1> DEFINE g == [f[c] EXCEPT !.pc = "back", !.res = r]
<1>1. f[c] \in CallRec
  BY FailWaitsOf DEF ClientInv, ClientTypes
<1>2. g \in CallRec /\ g.pc = "back" /\ g.res = r
  BY <1>1 DEF CallRec, CallPcs
<1>3. calls' = [f EXCEPT ![c] = g] /\ calls'[c] = g
  BY DEF Back, FailWaits, ClientInv, ClientTypes
<1> HIDE DEF g
<1>4. RpcShape'
  BY DEF ClientInv, ClientTypes, RpcShape
<1>5. c \in Orders => FateOf(c)'
  BY <1>2, <1>3 DEF ClientInv, FateOf, Before, Untouched, ToldOk
<1>6. QED
  BY <1>2, <1>3, <1>4, <1>5, CallMoves

\* The same for a step of the call that goes on: pc is where it is then.
LEMMA PcMoves ==
  ASSUME ClientInv, NEW c \in Calls, NEW f, f = calls \/ f = FailWaits(calls), NEW pc \in CallPcs, NEW r \in Results,
         calls' = [f EXCEPT ![c].pc = pc, ![c].res = r], calls[c].pc # "wait",
         UNCHANGED <<mcpVars, ran, rpc, flight, events>>,
         \/ c \in Orders => Untouched(c) /\ pc \in {"lockq", "dial", "hclose"} /\ r # "stamp" /\ r # "ok"
         \/ pc = "tclose" /\ r = "none"
         \/ pc = "xclose" /\ r # "ok" /\ (c \in Orders => r # "stamp" /\ (r # "transport" => Untouched(c)))
  PROVE  ClientInv'
<1> DEFINE g == [f[c] EXCEPT !.pc = pc, !.res = r]
<1>1. f[c] \in CallRec
  BY FailWaitsOf DEF ClientInv, ClientTypes
<1>2. g \in CallRec /\ g.pc = pc /\ g.res = r
  BY <1>1 DEF CallRec
<1>3. calls' = [f EXCEPT ![c] = g] /\ calls'[c] = g
  BY DEF FailWaits, ClientInv, ClientTypes
<1> HIDE DEF g
<1>4. RpcShape'
  BY DEF ClientInv, ClientTypes, RpcShape
<1>5. c \in Orders => FateOf(c)'
  BY <1>2, <1>3 DEF ClientInv, FateOf, Before, Untouched, ToldOk
<1>6. QED
  BY <1>2, <1>3, <1>4, <1>5, CallMoves

\* An order is sent only when the server has nothing of it.
LEMMA SendOnMoves ==
  ASSUME ClientInv, NEW c \in Calls, NEW stage, NEW o, NEW again, SendOn(c, stage, o, again),
         calls[c].pc # "wait", UNCHANGED <<mcpVars, ran, events>>, c \in Orders => Untouched(c)
  PROVE  ClientInv'
<1>1. CASE o.ws = 0
  <2>1. calls' = Back(calls, c, "transport") /\ UNCHANGED <<rpc, flight>> /\ "transport" \in Results
    BY <1>1 DEF SendOn, Results
  <2>2. QED
    BY <2>1, BackMoves
<1>2. CASE o.ws # 0
  <2> DEFINE g == [calls[c] EXCEPT !.pc = "rpc", !.res = "none"]
             q == [stage |-> stage, conn |-> o.ws, ver |-> o.ver, again |-> again]
  <2>1. /\ calls' = [calls EXCEPT ![c] = g] /\ rpc' = [rpc EXCEPT ![c] = q]
        /\ flight' = IF stage = "ask" /\ c \in Orders THEN flight \cup {c} ELSE flight
    BY <1>2 DEF SendOn, ClientInv, ClientTypes
  <2>2. calls[c] \in CallRec /\ calls \in [Calls -> CallRec]
    BY DEF ClientInv, ClientTypes
  <2>3. g \in CallRec /\ g.pc = "rpc" /\ g.res = "none" /\ calls'[c] = g
    BY <2>1, <2>2 DEF CallRec, CallPcs, Results
  <2>4. rpc'[c] = q /\ (\A d \in Calls : d # c => rpc'[d] = rpc[d]) /\ RpcShape'
    BY <2>1 DEF ClientInv, ClientTypes, RpcShape
  <2>5. rpc'[c].stage = stage
    BY <2>4
  <2> HIDE DEF g, q
  <2>6. c \in Orders => FateOf(c)'
    BY <2>1, <2>3, <2>5 DEF ClientInv, FateOf, Before, Untouched, ToldOk
  <2>7. \A d \in Orders : d # c => /\ rpc'[d] = rpc[d]
                                   /\ d \in flight' <=> d \in flight
                                   /\ d \in events' <=> d \in events
    BY <2>1, <2>4 DEF Calls
  <2>8. QED
    BY <2>1, <2>3, <2>4, <2>6, <2>7, CallMoves
<1>3. QED
  BY <1>1, <1>2

\* An error is a refusal only for an order the server has nothing of.
LEMMA RaiseMoves ==
  ASSUME ClientInv, NEW c \in Calls, NEW r \in Results, NEW o, Raise(c, r, o), calls[c].pc # "wait",
         UNCHANGED <<mcpVars, ran, rpc, flight, events>>, r # "ok",
         c \in Orders => r # "stamp" /\ (r # "transport" => Untouched(c))
  PROVE  ClientInv'
<1>1. CASE calls' = Back(calls, c, r) \/ calls' = Back(FailWaits(calls), c, r)
  BY <1>1, BackMoves
<1>2. CASE calls' = [calls EXCEPT ![c].pc = "xclose", ![c].res = r]
  <2>1. "xclose" \in CallPcs
    BY DEF CallPcs
  <2>2. QED
    BY <1>2, <2>1, PcMoves
<1>3. QED
  BY <1>1, <1>2 DEF Raise

LEMMA BeforeMeans == ASSUME ClientInv, NEW c \in Orders, Before(c) PROVE Untouched(c)
BY DEF ClientInv, FateOf

LEMMA TypedCall == ASSUME ClientInv, NEW c \in Calls PROVE calls[c] \in CallRec /\ calls[c].res \in Results
BY DEF ClientInv, ClientTypes, CallRec

LEMMA EnsureKeeps == ASSUME ClientInv, NEW c \in Calls, Ensure(c), UNCHANGED mcpVars PROVE ClientInv'
<1>1. calls[c].pc \in {"limit", "lockq"} /\ UNCHANGED <<ran, events>>
  BY DEF Ensure
<1>2. c \in Orders => Untouched(c)
  BY <1>1, BeforeMeans DEF Before
<1>3. CASE SendOn(c, "ask", oa, FALSE)
  BY <1>1, <1>2, <1>3, SendOnMoves
<1>4. CASE UNCHANGED <<rpc, flight>> /\ calls' = Back(FailWaits(calls), c, "transport")
  <2>1. "transport" \in Results
    BY DEF Results
  <2>2. QED
    BY <1>1, <1>2, <1>4, <2>1, BackMoves
<1>5. ASSUME UNCHANGED <<rpc, flight>>, NEW f, f = calls \/ f = FailWaits(calls),
             NEW pc \in {"lockq", "dial"}, calls' = [f EXCEPT ![c].pc = pc]
      PROVE  ClientInv'
  <2> DEFINE r == calls[c].res
  <2>1. r \in Results /\ pc \in CallPcs
    BY TypedCall DEF CallPcs
  <2>2. f[c] = calls[c] /\ f[c] \in CallRec
    BY <1>1, <1>5, FailWaitsOf, TypedCall DEF ClientInv, ClientTypes
  <2>3. [f[c] EXCEPT !.pc = pc] \in CallRec
    BY <2>1, <2>2 DEF CallRec
  <2> DEFINE g == [f[c] EXCEPT !.pc = pc]
  <2>4. g \in CallRec /\ g.pc = pc /\ calls' = [f EXCEPT ![c] = g] /\ calls'[c] = g /\ g.res = calls[c].res
    BY <1>5, <2>2, <2>3 DEF CallRec, FailWaits, ClientInv, ClientTypes
  <2> HIDE DEF g
  <2>5. RpcShape'
    BY <1>5 DEF ClientInv, ClientTypes, RpcShape
  <2>6. c \in Orders => FateOf(c)'
    BY <1>1, <1>2, <1>5, <2>4 DEF ClientInv, FateOf, Before, Untouched, ToldOk
  <2>7. QED
    BY <1>1, <1>5, <2>4, <2>5, <2>6, CallMoves
<1>6. QED
  BY <1>3, <1>4, <1>5 DEF Ensure

LEMMA DialKeeps ==
  ASSUME ClientInv, NEW c \in Calls, Dialed(c) \/ DialFails(c), UNCHANGED mcpVars PROVE ClientInv'
<1>1. calls[c].pc = "dial" /\ UNCHANGED <<ran, events>>
  BY DEF Dialed, DialFails
<1>2. c \in Orders => Untouched(c)
  BY <1>1, BeforeMeans DEF Before
<1>3. ASSUME NEW o, SendOn(c, "app", o, FALSE) PROVE ClientInv'
  BY <1>1, <1>2, <1>3, SendOnMoves
<1>4. CASE Raise(c, "transport", oa) /\ UNCHANGED <<rpc, flight>>
  <2>1. "transport" \in Results
    BY DEF Results
  <2>2. QED
    BY <1>1, <1>2, <1>4, <2>1, RaiseMoves
<1>5. QED
  BY <1>3, <1>4 DEF Dialed, DialFails

LEMMA GotAnswerKeeps == ASSUME ClientInv, NEW c \in Calls, GotAnswer(c), UNCHANGED mcpVars PROVE ClientInv'
<1>1. calls[c].pc = "rpc" /\ calls[c].res = "ok" /\ UNCHANGED <<ran, events>>
  BY DEF GotAnswer
<1>2. "ok" \in Results /\ "transport" \in Results /\ "none" \in Results /\ "hclose" \in CallPcs
  BY DEF Results, CallPcs
<1>3. CASE rpc[c].stage = "ask"
  <2>1. c \in Orders => ran[c] = 1
    BY <1>1, <1>3 DEF ClientInv, FateOf, ToldOk
  <2>2. calls' = Back(calls, c, "ok") /\ UNCHANGED <<rpc, flight>>
    BY <1>3 DEF GotAnswer
  <2>3. QED
    BY <1>1, <1>2, <2>1, <2>2, BackMoves
<1>4. CASE rpc[c].stage # "ask"
  <2>1. c \in Orders => Untouched(c)
    BY <1>1, <1>4, BeforeMeans DEF Before
  <2>2. CASE calls' = [calls EXCEPT ![c].pc = "hclose", ![c].res = "none"] /\ UNCHANGED <<rpc, flight>>
    BY <1>1, <1>2, <2>1, <2>2, PcMoves
  <2>3. CASE Raise(c, "transport", Learnt(c)) /\ UNCHANGED <<rpc, flight>>
    BY <1>1, <1>2, <2>1, <2>3, RaiseMoves
  <2>4. CASE SendOn(c, Followed(rpc[c].stage), Learnt(c), Again(c))
    BY <1>1, <2>1, <2>4, SendOnMoves
  <2>5. QED
    BY <1>4, <2>2, <2>3, <2>4 DEF GotAnswer
<1>5. QED
  BY <1>3, <1>4

\* A refused token: the request is sent again, and the server has nothing of it.
LEMMA GotErrorKeeps == ASSUME ClientInv, NEW c \in Calls, GotError(c), UNCHANGED mcpVars PROVE ClientInv'
<1>1. calls[c].pc = "rpc" /\ calls[c].res \notin {"none", "ok"} /\ UNCHANGED <<ran, events>>
  BY DEF GotError
<1>2. calls[c].res \in Results /\ "transport" \in Results
  BY TypedCall DEF Results
<1>3. c \in Orders => calls[c].res # "stamp" /\ (calls[c].res # "transport" => Untouched(c))
  BY <1>1 DEF ClientInv, FateOf, Before
<1>4. CASE Raise(c, calls[c].res, oa) /\ UNCHANGED <<rpc, flight>>
  BY <1>1, <1>2, <1>3, <1>4, RaiseMoves
<1>5. CASE Raise(c, "transport", oa) /\ UNCHANGED <<rpc, flight>>
  BY <1>1, <1>2, <1>5, RaiseMoves
<1>6. CASE SendOn(c, Refresh(rpc[c].stage), oa, FALSE) /\ calls[c].res = "token"
  BY <1>1, <1>3, <1>6, SendOnMoves
<1>7. QED
  BY <1>4, <1>5, <1>6 DEF GotError

LEMMA TimesOutKeeps == ASSUME ClientInv, NEW c \in Calls, TimesOut(c), UNCHANGED mcpVars PROVE ClientInv'
<1>1. calls[c].pc = "rpc" /\ calls[c].res = "none" /\ UNCHANGED <<ran, rpc, flight, events>>
  BY DEF TimesOut
<1>2. "transport" \in Results /\ "none" \in Results /\ "tclose" \in CallPcs
  BY DEF Results, CallPcs
<1>3. CASE Raise(c, "transport", oa)
  BY <1>1, <1>2, <1>3, RaiseMoves
<1>4. CASE calls' = [calls EXCEPT ![c].pc = "tclose"]
  <2>1. calls[c] = [calls[c] EXCEPT !.res = "none"]
    BY <1>1, TypedCall DEF CallRec
  <2>2. calls' = [calls EXCEPT ![c].pc = "tclose", ![c].res = "none"]
    BY <1>1, <1>4, TypedCall DEF CallRec, ClientInv, ClientTypes
  <2>3. QED
    BY <1>1, <1>2, <2>2, PcMoves
<1>5. QED
  BY <1>3, <1>4 DEF TimesOut

LEMMA ClosedKeeps == ASSUME ClientInv, NEW c \in Calls, Closed(c), UNCHANGED mcpVars PROVE ClientInv'
<1>1. calls[c].pc \in {"tclose", "xclose", "hclose"} /\ UNCHANGED <<ran, rpc, flight, events>>
  BY DEF Closed
<1>2. calls[c].res \in Results /\ "transport" \in Results
  BY TypedCall DEF Results
<1>3. CASE calls' = Back(FailWaits(calls), c, "transport")
  BY <1>1, <1>2, <1>3, BackMoves
<1>4. CASE calls[c].pc = "xclose" /\ calls' = Back(FailWaits(calls), c, calls[c].res)
  <2>1. c \in Orders => /\ calls[c].res # "stamp" /\ calls[c].res # "ok"
                        /\ calls[c].res \notin {"ok", "transport"} => Untouched(c)
    BY <1>4 DEF ClientInv, FateOf, Before
  <2>2. QED
    BY <1>1, <1>2, <1>4, <2>1, BackMoves
<1>5. CASE calls[c].pc = "hclose" /\ calls' = [FailWaits(calls) EXCEPT ![c].pc = "dial"]
  <2> DEFINE f == FailWaits(calls)
             g == [f[c] EXCEPT !.pc = "dial"]
  <2>1. f[c] = calls[c] /\ f[c] \in CallRec
    BY <1>5, FailWaitsOf, TypedCall DEF ClientInv, ClientTypes
  <2>2. g \in CallRec /\ g.pc = "dial" /\ g.res = calls[c].res
    BY <2>1 DEF CallRec, CallPcs
  <2>3. calls' = [f EXCEPT ![c] = g] /\ calls'[c] = g
    BY <1>5 DEF FailWaits
  <2>4. c \in Orders => Untouched(c)
    BY <1>5, BeforeMeans DEF Before
  <2> HIDE DEF g, f
  <2>5. RpcShape'
    BY <1>1 DEF ClientInv, ClientTypes, RpcShape
  <2>6. c \in Orders => FateOf(c)'
    BY <1>1, <2>2, <2>3, <2>4 DEF ClientInv, FateOf, Before, Untouched, ToldOk
  <2>7. f = FailWaits(calls)
    BY DEF f
  <2>8. QED
    BY <1>1, <1>5, <2>2, <2>3, <2>5, <2>6, <2>7, CallMoves
<1>6. QED
  BY <1>1, <1>3, <1>4, <1>5 DEF Closed
-----------------------------------------------------------------------------
(* The server of the Open API client and the network.                       *)
\* A request gets its result: ok only for a request that is no order.
LEMMA ResultMoves ==
  ASSUME ClientInv, NEW c \in Calls, NEW r \in Results, calls' = [calls EXCEPT ![c].res = r], calls[c].pc = "rpc",
         RpcShape', rpc'[c].stage = rpc[c].stage, \A d \in Calls : d # c => rpc'[d] = rpc[d],
         \A d \in Orders : d # c => (d \in flight' <=> d \in flight),
         UNCHANGED <<mcpVars, ran, events>>,
         c \in Orders => /\ ran[c] = 0 /\ c \notin flight' /\ c \notin events
                         /\ r # "stamp" /\ (r = "ok" => rpc[c].stage # "ask")
  PROVE  ClientInv'
<1> DEFINE g == [calls[c] EXCEPT !.res = r]
<1>1. calls[c] \in CallRec /\ calls \in [Calls -> CallRec]
  BY TypedCall DEF ClientInv, ClientTypes
<1>2. g \in CallRec /\ g.pc = "rpc" /\ g.res = r
  BY <1>1 DEF CallRec
<1>3. calls' = [calls EXCEPT ![c] = g] /\ calls'[c] = g
  BY <1>1
<1> HIDE DEF g
<1>4. c \in Orders => FateOf(c)'
  BY <1>2, <1>3 DEF ClientInv, FateOf, Before, Untouched, ToldOk
<1>5. calls' \in [Calls -> CallRec] /\ ran' \in [Orders -> 0 .. 2]
  BY <1>1, <1>2, <1>3 DEF ClientInv, ClientTypes
<1>6. ASSUME NEW d \in Orders, d # c PROVE Left(d)
  <2>1. calls'[d] = calls[d] /\ rpc'[d] = rpc[d] /\ (d \in flight' <=> d \in flight)
    BY <1>3, <1>6 DEF Calls
  <2>2. QED
    BY <2>1 DEF Left
<1>7. \A d \in Orders : FateOf(d)' /\ (calls[d].pc = "wait" => calls'[d].pc = "wait")
  BY <1>2, <1>3, <1>4, <1>6, LeftFate
<1>8. QED
  BY <1>5, <1>7, OtherMoves

LEMMA ServesKeeps == ASSUME ClientInv, NEW c \in Calls, Serves(c), UNCHANGED mcpVars PROVE ClientInv'
<1>1. /\ calls[c].pc = "rpc" /\ UNCHANGED <<ran, flight, events>>
      /\ c \in Orders => rpc[c].stage # "ask"
  BY DEF Serves, Waiting
<1>2. calls' = [calls EXCEPT ![c].res = Reply(c)] /\ Reply(c) \in {"ok", "token", "auth"}
  BY DEF Serves, Reply
<1> DEFINE r == Reply(c)
<1>3. r \in Results /\ r # "stamp"
  BY <1>2 DEF Results
<1>4. RpcShape' /\ rpc'[c].stage = rpc[c].stage /\ \A d \in Calls : d # c => rpc'[d] = rpc[d]
  <2>0. UNCHANGED rpc \/ rpc' = [rpc EXCEPT ![c].ver = srv.ver + 1]
    BY DEF Serves
  <2>1. CASE UNCHANGED rpc
    BY <2>1 DEF ClientInv, ClientTypes, RpcShape
  <2>2. CASE rpc' = [rpc EXCEPT ![c].ver = srv.ver + 1]
    BY <2>2 DEF ClientInv, ClientTypes, RpcShape
  <2>3. QED
    BY <2>0, <2>1, <2>2
<1>5. c \in Orders => Untouched(c)
  BY <1>1, BeforeMeans DEF Before
<1>6. QED
  BY <1>1, <1>2, <1>3, <1>4, <1>5, ResultMoves DEF Untouched

LEMMA RefusesKeeps == ASSUME ClientInv, NEW c \in Calls, Refuses(c), UNCHANGED mcpVars PROVE ClientInv'
<1>1. /\ calls[c].pc = "rpc" /\ UNCHANGED <<ran, rpc, flight, events>>
      /\ c \in Orders => rpc[c].stage # "ask"
  BY DEF Refuses, Waiting, oaVars
<1>2. PICK r \in {"tool", "rate", "auth"} : calls' = [calls EXCEPT ![c].res = r]
  BY DEF Refuses
<1>3. r \in Results /\ r \notin {"stamp", "ok"}
  BY <1>2 DEF Results
<1>4. RpcShape'
  BY <1>1 DEF ClientInv, ClientTypes, RpcShape
<1>5. c \in Orders => Untouched(c)
  BY <1>1, BeforeMeans DEF Before
<1>6. QED
  BY <1>1, <1>2, <1>3, <1>4, <1>5, ResultMoves DEF Untouched

\* An order under way runs: none of its requests has been answered yet.
LEMMA OrderRunsKeeps == ASSUME ClientInv, NEW c \in Orders, OrderRuns(c), UNCHANGED mcpVars PROVE ClientInv'
<1>1. /\ c \in flight /\ ran \in [Orders -> 0 .. 2] /\ ran' = [ran EXCEPT ![c] = IF ran[c] = 2 THEN 2 ELSE ran[c] + 1]
      /\ flight' = flight \ {c} /\ events' = events \cup {c} /\ UNCHANGED <<calls, rpc>>
  BY DEF OrderRuns, ClientInv, ClientTypes
<1>2. FateOf(c) /\ ran[c] = 0 /\ ~Before(c) /\ ran'[c] = 1
  BY <1>1 DEF ClientInv, FateOf, Untouched
<1>3. calls' \in [Calls -> CallRec] /\ ran' \in [Orders -> 0 .. 2] /\ RpcShape'
  BY <1>1 DEF ClientInv, ClientTypes, RpcShape
<1>4. ASSUME NEW d \in Orders PROVE FateOf(d)' /\ (calls[d].pc = "wait" => calls'[d].pc = "wait")
  <2>1. CASE d = c
    BY <1>1, <1>2, <2>1 DEF FateOf, Before, Untouched, ToldOk
  <2>2. CASE d # c
    BY <1>1, <2>2, LeftFate DEF Left
  <2>3. QED
    BY <2>1, <2>2
<1>5. QED
  BY <1>3, <1>4, OtherMoves

LEMMA OrderRefusedKeeps == ASSUME ClientInv, NEW c \in Orders, OrderRefused(c), UNCHANGED mcpVars PROVE ClientInv'
<1>1. /\ c \in flight /\ flight' = flight \ {c} /\ UNCHANGED <<ran, rpc, events>> /\ c \in Calls
  BY DEF OrderRefused, Calls
<1>2. ran[c] = 0 /\ c \notin events
  BY <1>1 DEF ClientInv, FateOf
<1>3. RpcShape'
  BY <1>1 DEF ClientInv, ClientTypes, RpcShape
<1>4. CASE calls' = calls
  <2>1. calls' \in [Calls -> CallRec] /\ ran' \in [Orders -> 0 .. 2]
    BY <1>1, <1>4 DEF ClientInv, ClientTypes
  <2>2. ASSUME NEW d \in Orders PROVE FateOf(d)' /\ (calls[d].pc = "wait" => calls'[d].pc = "wait")
    <3>1. CASE d = c
      BY <1>1, <1>2, <1>4, <3>1 DEF ClientInv, FateOf, Before, Untouched, ToldOk
    <3>2. CASE d # c
      BY <1>1, <1>4, <3>2, LeftFate DEF Left
    <3>3. QED
      BY <3>1, <3>2
  <2>3. QED
    BY <1>3, <2>1, <2>2, OtherMoves
<1>5. CASE Waiting(c) /\ \E r \in {"tool", "auth", "token"} : calls' = [calls EXCEPT ![c].res = r]
  <2>1. PICK r \in {"tool", "auth", "token"} : calls' = [calls EXCEPT ![c].res = r]
    BY <1>5
  <2>2. r \in Results /\ r \notin {"stamp", "ok"} /\ calls[c].pc = "rpc"
    BY <1>5, <2>1 DEF Results, Waiting
  <2>3. QED
    BY <1>1, <1>2, <1>3, <2>1, <2>2, ResultMoves
<1>6. QED
  BY <1>4, <1>5 DEF OrderRefused

\* An execution event answers the request of its own order, and no other.
LEMMA EventKeeps ==
  ASSUME ClientInv, NEW c \in Orders, EventArrives(c) \/ EventLost(c), UNCHANGED mcpVars PROVE ClientInv'
<1>1. c \in events /\ events' = events \ {c} /\ UNCHANGED <<ran, rpc, flight>>
  BY DEF EventArrives, EventLost, callVars
<1>2. ran[c] = 1 /\ c \notin flight /\ c \in Calls /\ ~Before(c)
  BY <1>1 DEF ClientInv, FateOf, Untouched, Calls
<1>3. ran' \in [Orders -> 0 .. 2] /\ RpcShape' /\ calls \in [Calls -> CallRec] /\ "ok" \in Results
  BY <1>1 DEF ClientInv, ClientTypes, RpcShape, Results
<1>4. \/ calls' = calls
      \/ /\ calls[c].pc = "rpc" /\ rpc[c].stage = "ask"
         /\ calls' = [calls EXCEPT ![c] = [calls[c] EXCEPT !.res = "ok"]]
  <2>1. CASE EventLost(c)
    BY <2>1 DEF EventLost, callVars
  <2>2. CASE EventArrives(c)
    <3>1. calls' = [d \in Calls |-> IF d \in Orders /\ Waiting(d) /\ rpc[d].stage = "ask" /\ c = d
                                    THEN [calls[d] EXCEPT !.res = "ok"] ELSE calls[d]]
      BY <2>2 DEF EventArrives, Routed
    <3>2. CASE Waiting(c) /\ rpc[c].stage = "ask"
      <4>1. calls' = [calls EXCEPT ![c] = [calls[c] EXCEPT !.res = "ok"]]
        BY <1>3, <3>1, <3>2
      <4>2. QED
        BY <3>2, <4>1 DEF Waiting
    <3>3. CASE ~(Waiting(c) /\ rpc[c].stage = "ask")
      BY <1>3, <3>1, <3>3
    <3>4. QED
      BY <3>2, <3>3
  <2>3. QED
    BY <2>1, <2>2
<1>5. calls' \in [Calls -> CallRec]
  <2>1. [calls[c] EXCEPT !.res = "ok"] \in CallRec
    BY <1>2, <1>3 DEF CallRec
  <2>2. QED
    BY <1>3, <1>4, <2>1
<1>6. ASSUME NEW d \in Orders PROVE FateOf(d)' /\ (calls[d].pc = "wait" => calls'[d].pc = "wait")
  <2>1. CASE d = c
    <3>1. CASE calls' = calls
      BY <1>1, <1>2, <2>1, <3>1 DEF ClientInv, FateOf, Before, Untouched, ToldOk
    <3>2. CASE calls' # calls
      <4>1. calls'[c].pc = "rpc" /\ calls'[c].res = "ok" /\ rpc'[c].stage = "ask" /\ calls[c].pc = "rpc"
        BY <1>1, <1>2, <1>3, <1>4, <3>2 DEF CallRec
      <4>2. QED
        BY <1>1, <1>2, <2>1, <4>1 DEF FateOf, Before, Untouched, ToldOk
    <3>3. QED
      BY <3>1, <3>2
  <2>2. CASE d # c
    <3>1. calls'[d] = calls[d]
      BY <1>2, <1>3, <1>4, <2>2 DEF Calls
    <3>2. Left(d)
      BY <1>1, <2>2, <3>1 DEF Left
    <3>3. QED
      BY <3>2, LeftFate
  <2>3. QED
    BY <2>1, <2>2
<1>7. QED
  BY <1>3, <1>5, <1>6, OtherMoves

LEMMA DropKeeps == ASSUME ClientInv, NEW n \in ConnIds, Drop(n), UNCHANGED mcpVars PROVE ClientInv'
<1>1. UNCHANGED <<ran, rpc, flight, events>> /\ (calls' = calls \/ calls' = FailWaits(calls))
  BY DEF Drop
<1>2. ran' \in [Orders -> 0 .. 2] /\ RpcShape'
  BY <1>1 DEF ClientInv, ClientTypes, RpcShape
<1>3. calls' \in [Calls -> CallRec]
  <2>1. calls \in [Calls -> CallRec]
    BY DEF ClientInv, ClientTypes
  <2>2. CASE calls' = FailWaits(calls)
    <3>1. calls' = [d \in Calls |-> calls'[d]]
      BY <2>2 DEF FailWaits
    <3>2. QED
      BY <2>1, <2>2, <3>1, FailWaitsOf
  <2>3. QED
    BY <1>1, <2>1, <2>2
<1>4. \A d \in Orders : Left(d)
  BY <1>1 DEF Left
<1>5. QED
  BY <1>2, <1>3, <1>4, LeftFate, OtherMoves

LEMMA OpenApiKeeps == ASSUME ClientInv, OpenApi PROVE ClientInv'
<1>1. UNCHANGED mcpVars
  BY DEF OpenApi
<1>2. ASSUME NEW c \in Calls, CallStep(c) PROVE ClientInv'
  BY <1>1, <1>2, EnsureKeeps, DialKeeps, GotAnswerKeeps, GotErrorKeeps, TimesOutKeeps, ClosedKeeps DEF CallStep
<1>3. CASE CoolDown \/ TokenExpires
  BY <1>1, <1>3, IdleKeepsCalls DEF CoolDown, TokenExpires, callVars
<1>4. QED
  BY <1>1, <1>2, <1>3, ServesKeeps, RefusesKeeps, OrderRunsKeeps, OrderRefusedKeeps, EventKeeps, DropKeeps DEF OpenApi
-----------------------------------------------------------------------------
LEMMA NextKeepsClients == ClientInv /\ [Next]_vars => ClientInv'
<1>1. ASSUME ClientInv, UNCHANGED vars PROVE ClientInv'
  BY <1>1, IdleKeepsCalls DEF vars, callVars, oaVars
<1>2. QED
  BY <1>1, AppKeeps, McpKeeps, OpenApiKeeps DEF Next

LEMMA AlwaysClientInv == Spec => []ClientInv
BY InitClients, NextKeepsClients, PTL DEF Spec

\* CTraderClient.call, MCPClient._serve, OpenAPIClient.call: whatever is lost, late, retried
\* or refused on the way, the server runs an order at most once.
THEOREM OrderOnceHolds == Spec => []OrderOnce
BY InvImplies, AlwaysClientInv, PTL

\* TradeManager tries an order again after a refusal: an order its caller is told was
\* refused has not run and never will, on either client.
THEOREM RejectedNeverRunsHolds == Spec => []RejectedNeverRuns
BY InvImplies, AlwaysClientInv, PTL

\* An order whose caller is told it went through has run: an answer and an execution event
\* reach the request they belong to.
THEOREM FilledDidRunHolds == Spec => []FilledDidRun
BY InvImplies, AlwaysClientInv, PTL
-----------------------------------------------------------------------------
\* What the service believes of its account, and the kill switch.
AppShape ==
  /\ DOMAIN app = {"env", "mode", "kill", "open", "resumed"}
  /\ app.mode \in {"paper", "live"} /\ app.kill \in BOOLEAN /\ app.open \in BOOLEAN /\ app.resumed \in BOOLEAN
AppInv == AppShape /\ SwitchStops

LEMMA ModeIs == \A e : ModeFor(e) \in {"paper", "live"} /\ (ModeFor(e) = "live" => Allowed(e))
BY DEF ModeFor

LEMMA InitApp == Init => AppInv
<1> SUFFICES ASSUME NEW e, app = [env |-> e, mode |-> ModeFor(e), kill |-> FALSE, open |-> FALSE, resumed |-> FALSE]
             PROVE  AppInv
  BY DEF Init, CallsInit
<1>1. /\ app.env = e /\ app.mode = ModeFor(e) /\ app.kill = FALSE /\ app.open = FALSE /\ app.resumed = FALSE
      /\ DOMAIN app = {"env", "mode", "kill", "open", "resumed"}
  OBVIOUS
<1>2. QED
  BY <1>1, ModeIs DEF AppInv, AppShape, SwitchStops

\* The account turns out to be another one: the mode follows, or the kill switch stands for it.
LEMMA SwitchStep == ASSUME AppInv, NEW e, app' = Switched(app, e) PROVE AppInv'
<1> DEFINE b == [app EXCEPT !.env = e, !.resumed = FALSE]
<1>1. /\ DOMAIN app = {"env", "mode", "kill", "open", "resumed"}
      /\ app.mode \in {"paper", "live"} /\ app.kill \in BOOLEAN /\ app.open \in BOOLEAN
  BY DEF AppInv, AppShape
<1>2. /\ DOMAIN b = DOMAIN app /\ b.env = e /\ b.resumed = FALSE
      /\ b.mode = app.mode /\ b.kill = app.kill /\ b.open = app.open
  BY <1>1
<1>3. app' = IF ModeFor(e) = app.mode THEN b
             ELSE IF app.open THEN [b EXCEPT !.kill = TRUE] ELSE [b EXCEPT !.mode = ModeFor(e)]
  BY DEF Switched, AccountChanged
<1> HIDE DEF b
<1>4. CASE ModeFor(e) = app.mode
  <2>1. app' = b
    BY <1>3, <1>4
  <2>2. QED
    BY <1>1, <1>2, <1>4, <2>1, ModeIs DEF AppInv, AppShape, SwitchStops
<1>5. CASE ModeFor(e) # app.mode /\ app.open
  <2>1. app' = [b EXCEPT !.kill = TRUE]
    BY <1>3, <1>5
  <2>2. /\ DOMAIN app' = DOMAIN app /\ app'.resumed = FALSE /\ app'.mode = app.mode
        /\ app'.kill = TRUE /\ app'.open = app.open
    BY <1>1, <1>2, <2>1
  <2>3. QED
    BY <1>1, <2>2 DEF AppInv, AppShape, SwitchStops
<1>6. CASE ModeFor(e) # app.mode /\ ~app.open
  <2>1. app' = [b EXCEPT !.mode = ModeFor(e)]
    BY <1>3, <1>6
  <2>2. /\ DOMAIN app' = DOMAIN app /\ app'.env = e /\ app'.resumed = FALSE /\ app'.mode = ModeFor(e)
        /\ app'.kill = app.kill /\ app'.open = app.open
    BY <1>1, <1>2, <2>1
  <2>3. QED
    BY <1>1, <2>2, ModeIs DEF AppInv, AppShape, SwitchStops
<1>7. QED
  BY <1>4, <1>5, <1>6

\* What is left to show when neither the account nor the mode changes.
LEMMA TurnStep ==
  ASSUME AppInv, DOMAIN app' = DOMAIN app, app'.env = app.env, app'.mode = app.mode,
         app'.kill \in BOOLEAN, app'.open \in BOOLEAN, app'.resumed \in BOOLEAN,
         app.kill \/ app.resumed => app'.kill \/ app'.resumed
  PROVE  AppInv'
<1>1. AppShape'
  BY DEF AppInv, AppShape
<1>2. SwitchStops'
  BY DEF AppInv, AppShape, SwitchStops, Allowed
<1>3. QED
  BY <1>1, <1>2 DEF AppInv

LEMMA AppStep == ASSUME AppInv, App PROVE AppInv'
<1>1. /\ DOMAIN app = {"env", "mode", "kill", "open", "resumed"}
      /\ app.kill \in BOOLEAN /\ app.open \in BOOLEAN /\ app.resumed \in BOOLEAN
  BY DEF AppInv, AppShape
<1>2. ASSUME app' = app PROVE AppInv'
  BY <1>1, <1>2, TurnStep
<1>3. ASSUME NEW c \in Calls, Begin(c) PROVE AppInv'
  <2>1. CASE c \in Orders
    <3>1. app' = [app EXCEPT !.open = TRUE]
      BY <1>3, <2>1 DEF Begin
    <3>2. /\ DOMAIN app' = DOMAIN app /\ app'.env = app.env /\ app'.mode = app.mode
          /\ app'.kill = app.kill /\ app'.open = TRUE /\ app'.resumed = app.resumed
      BY <1>1, <3>1
    <3>3. QED
      BY <1>1, <3>2, TurnStep
  <2>2. CASE c \notin Orders
    BY <1>2, <1>3, <2>2 DEF Begin
  <2>3. QED
    BY <2>1, <2>2
<1>4. ASSUME NEW c \in Calls, Settle(c, Found) PROVE AppInv'
  <2>1. app' = app \/ app' = Switched(app, Found) \/ \E late \in BOOLEAN : app' = [app EXCEPT !.kill = app.kill \/ late]
    BY <1>4 DEF Settle
  <2>2. ASSUME NEW late \in BOOLEAN, app' = [app EXCEPT !.kill = app.kill \/ late] PROVE AppInv'
    <3> DEFINE k == app.kill \/ late
    <3>1. k \in BOOLEAN /\ (app.kill => k)
      BY <1>1
    <3>2. app' = [app EXCEPT !.kill = k]
      BY <2>2
    <3> HIDE DEF k
    <3>3. /\ DOMAIN app' = DOMAIN app /\ app'.env = app.env /\ app'.mode = app.mode
          /\ app'.kill = k /\ app'.open = app.open /\ app'.resumed = app.resumed
      BY <1>1, <3>2
    <3>4. QED
      BY <1>1, <3>1, <3>3, TurnStep
  <2>3. QED
    BY <1>2, <2>1, <2>2, SwitchStep
<1>5. CASE TradesClosed
  <2>1. app' = [app EXCEPT !.open = FALSE]
    BY <1>5 DEF TradesClosed
  <2>2. /\ DOMAIN app' = DOMAIN app /\ app'.env = app.env /\ app'.mode = app.mode
        /\ app'.kill = app.kill /\ app'.open = FALSE /\ app'.resumed = app.resumed
    BY <1>1, <2>1
  <2>3. QED
    BY <1>1, <2>2, TurnStep
<1>6. CASE Resume
  <2>1. app' = [app EXCEPT !.kill = FALSE, !.resumed = TRUE]
    BY <1>6 DEF Resume
  <2>2. /\ DOMAIN app' = DOMAIN app /\ app'.env = app.env /\ app'.mode = app.mode
        /\ app'.kill = FALSE /\ app'.open = app.open /\ app'.resumed = TRUE
    BY <1>1, <2>1
  <2>3. QED
    BY <1>1, <2>2, TurnStep
<1>7. QED
  BY <1>3, <1>4, <1>5, <1>6 DEF App

LEMMA McpSwitch == ASSUME Mcp PROVE app' = app \/ \E t : app' = Switched(app, TokenEnv[t])
<1>1. ASSUME NEW c \in Calls, Post(c) PROVE app' = app
  BY <1>1 DEF Post
<1>2. ASSUME NEW o \in OwnerIds, OwnerStep(o) PROVE app' = app
  BY <1>2 DEF OwnerStep, Take, Opened, Listed, Replied, Lost, Reopen, Broken, Finish, callVars
<1>3. ASSUME NEW t \in Tokens, SetCtrader(t) PROVE app' = app \/ app' = Switched(app, TokenEnv[t])
  BY <1>3 DEF SetCtrader, Swapped
<1>4. CASE SwapEnds
  BY <1>4 DEF SwapEnds, Swapped
<1>5. QED
  BY <1>1, <1>2, <1>3, <1>4 DEF Mcp

LEMMA OpenApiSwitch == ASSUME OpenApi PROVE app' = app
<1>1. ASSUME NEW c \in Calls, CallStep(c) PROVE app' = app
  BY <1>1 DEF CallStep, Ensure, Dialed, DialFails, GotAnswer, GotError, TimesOut, Closed
<1>2. ASSUME NEW c \in Calls, Serves(c) \/ Refuses(c) PROVE app' = app
  BY <1>2 DEF Serves, Refuses
<1>3. ASSUME NEW c \in Orders, OrderRuns(c) \/ OrderRefused(c) \/ EventArrives(c) \/ EventLost(c) PROVE app' = app
  BY <1>3 DEF OrderRuns, OrderRefused, EventArrives, EventLost, callVars
<1>4. ASSUME NEW n \in ConnIds, Drop(n) PROVE app' = app
  BY <1>4 DEF Drop
<1>5. CASE CoolDown \/ TokenExpires
  BY <1>5 DEF CoolDown, TokenExpires, callVars
<1>6. QED
  BY <1>1, <1>2, <1>3, <1>4, <1>5 DEF OpenApi

\* App.apply_env, App.resume, /ctrader: on a live account that nobody confirmed the service
\* trades live only behind the kill switch, unless the owner resumed since it changed.
THEOREM SwitchHolds == Spec => []SwitchStops
<1>1. AppInv /\ [Next]_vars => AppInv'
  <2>1. ASSUME AppInv, app' = app PROVE AppInv'
    BY <2>1, TurnStep DEF AppInv, AppShape
  <2>2. ASSUME UNCHANGED vars PROVE app' = app
    BY <2>2 DEF vars, callVars
  <2>3. QED
    BY <2>1, <2>2, AppStep, McpSwitch, OpenApiSwitch, SwitchStep DEF Next
<1>2. AppInv => SwitchStops
  BY DEF AppInv
<1>3. QED
  BY <1>1, <1>2, InitApp, PTL DEF Spec
===============================================================================
