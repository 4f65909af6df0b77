----------------------------- MODULE McpSession ------------------------------
(***************************************************************************)
(* The Remote MCP client (ctrader/client.py): one task owns the session    *)
(* and serves the requests of its mailbox in turn; a session the server    *)
(* has lost is reopened and the request sent again, a timeout is not; new  *)
(* credentials (/ctrader) stop the owner first.  A step is the code from   *)
(* one await to the next; closing a dead session belongs to the step that  *)
(* found it dead.                                                          *)
(***************************************************************************)
EXTENDS ClientCalls

CONSTANTS
  Tokens,          \* configurations of the account, url and token together
  TokenEnv,        \* the environment each token names
  Trading,         \* the tokens that offer create_order
  NoToken,
  SessionRetries,  \* SESSION_RETRIES
  MaxOwners,       \* bound: owner tasks started
  MaxSwaps         \* bound: /ctrader commands

ASSUME McpAssumption ==
  /\ NoToken \notin Tokens /\ TokenEnv \in [Tokens -> Envs] /\ Trading \subseteq Tokens
  /\ SessionRetries \in Nat /\ MaxOwners \in Nat \ {0} /\ MaxSwaps \in Nat

VARIABLES
  creds,   \* url and token
  tools,   \* the token whose session listed the tools known now
  me,      \* _owner and its _queue, 0 when there is none
  owners,  \* the _serve tasks, the stopped ones included
  swap     \* set_credentials waiting for close()

mcpVars == <<creds, tools, me, owners, swap>>

OwnerIds == 1 .. MaxOwners
NoOwner == [pc |-> "none", sess |-> NoToken, cur |-> Nobody, attempt |-> 0, queue |-> <<>>, doomed |-> FALSE]
NoSwap == [to |-> NoToken, of |-> 0, count |-> 0]

McpInit(e) ==
  /\ creds \in {t \in Tokens : TokenEnv[t] = e} /\ tools = NoToken /\ me = 0
  /\ owners = [o \in OwnerIds |-> NoOwner] /\ swap = NoSwap
-----------------------------------------------------------------------------
\* _call_once and _mailbox: the request is queued, behind a new owner when there is none.
Post(c) ==
  /\ calls[c].pc = "limit"
  /\ LET fresh == me = 0 \/ owners[me].pc = "gone"
         o == IF fresh THEN Cardinality({i \in OwnerIds : owners[i].pc # "none"}) + 1 ELSE me
     IN /\ o \in OwnerIds
        /\ me' = o
        /\ owners' = [owners EXCEPT ![o].queue = Append(@, c), ![o].pc = IF fresh THEN "get" ELSE @]
  /\ calls' = [calls EXCEPT ![c].pc = "wait"]
  /\ UNCHANGED <<backend, wanted, stamps, ran, app, creds, tools, swap>>

\* The caller's future is done: the owner goes on with its mailbox.
Answer(o, sess, r) ==
  /\ owners' = [owners EXCEPT ![o].pc = "get", ![o].cur = Nobody, ![o].sess = sess]
  /\ calls' = [calls EXCEPT ![owners[o].cur].pc = "back", ![owners[o].cur].res = r]

Offers(t, c) == t # NoToken /\ (c \in Orders => t \in Trading)

\* The session is open: the request goes out, or the tool is not offered.
Ask(o, r, known) ==
  IF Offers(known, r.cur)
  THEN owners' = [owners EXCEPT ![o] = [r EXCEPT !.pc = "call"]] /\ UNCHANGED calls
  ELSE /\ owners' = [owners EXCEPT ![o] = [r EXCEPT !.pc = "get", !.cur = Nobody]]
       /\ calls' = [calls EXCEPT ![r.cur].pc = "back", ![r.cur].res = "tool"]

Free(o) == ~owners[o].doomed
Opening(r) == [r EXCEPT !.pc = "open", !.sess = creds]

Take(o) ==
  /\ Free(o) /\ owners[o].pc = "get" /\ owners[o].queue # <<>>
  /\ LET r == [owners[o] EXCEPT !.queue = Tail(@), !.cur = Head(owners[o].queue), !.attempt = 0]
     IN IF r.sess = NoToken THEN owners' = [owners EXCEPT ![o] = Opening(r)] /\ UNCHANGED calls
        ELSE Ask(o, r, tools)
  /\ UNCHANGED <<backend, wanted, stamps, ran, app, creds, tools, me, swap>>

Opened(o) ==
  /\ Free(o) /\ owners[o].pc = "open"
  /\ IF tools = NoToken THEN owners' = [owners EXCEPT ![o].pc = "list"] /\ UNCHANGED calls
     ELSE Ask(o, owners[o], tools)
  /\ UNCHANGED <<backend, wanted, stamps, ran, app, creds, tools, me, swap>>

Listed(o) ==
  /\ Free(o) /\ owners[o].pc = "list"
  /\ tools' = owners[o].sess /\ Ask(o, owners[o], tools')
  /\ UNCHANGED <<backend, wanted, stamps, ran, app, creds, me, swap>>

\* The server ran the request, or refused it; an error that is not about the session
\* leaves the session open, also when it was the list of tools that failed.
Ran(c) == ran' = IF c \in Orders THEN [ran EXCEPT ![c] = IF @ = 2 THEN 2 ELSE @ + 1] ELSE ran
Refusals(o) ==
  {"auth", "transport"} \cup (IF owners[o].pc = "call" THEN {"tool", "rate"} ELSE {})
                        \cup (IF owners[o].pc = "call" /\ owners[o].cur \in Reads \ Connects THEN {"stamp"} ELSE {})

Replied(o) ==
  /\ Free(o) /\ owners[o].pc \in {"list", "call"}
  /\ \/ owners[o].pc = "call" /\ Answer(o, owners[o].sess, "ok") /\ Ran(owners[o].cur)
     \/ (\E r \in Refusals(o) : Answer(o, owners[o].sess, r)) /\ UNCHANGED ran
  /\ UNCHANGED <<backend, wanted, stamps, app, creds, tools, me, swap>>

\* "Session not found": nothing ran, the request is sent again on a reopened session.
Lost(o) ==
  /\ Free(o) /\ owners[o].pc \in {"list", "call"}
  /\ IF owners[o].attempt < SessionRetries
     THEN /\ owners' = [owners EXCEPT ![o].pc = "backoff", ![o].sess = NoToken, ![o].attempt = @ + 1]
          /\ UNCHANGED calls
     ELSE \E r \in {"auth", "transport"} : Answer(o, NoToken, r)
  /\ UNCHANGED <<backend, wanted, stamps, ran, app, creds, tools, me, swap>>

Reopen(o) ==
  /\ Free(o) /\ owners[o].pc = "backoff"
  /\ owners' = [owners EXCEPT ![o] = Opening(owners[o])]
  /\ UNCHANGED <<callVars, creds, tools, me, swap>>

\* A timeout or a broken connection, and a request the server may still have run, or HTTP
\* 401 before it did: the session is dropped.
ResendsLate(o) == [owners[o] EXCEPT !.pc = "backoff", !.sess = NoToken]       \* mutant
GivesUp(o) == [owners[o] EXCEPT !.pc = "get", !.sess = NoToken, !.cur = Nobody]

Broken(o) ==
  /\ Free(o) /\ owners[o].pc \in {"open", "list", "call"}
  /\ owners' = [owners EXCEPT ![o] = GivesUp(o)]
  /\ \E r \in {"auth", "transport"} :
       /\ calls' = IF owners'[o].cur # Nobody THEN calls
                   ELSE [calls EXCEPT ![owners[o].cur].pc = "back", ![owners[o].cur].res = r]
       /\ UNCHANGED ran \/ (r = "transport" /\ owners[o].pc = "call" /\ Ran(owners[o].cur))
  /\ UNCHANGED <<backend, wanted, stamps, app, creds, tools, me, swap>>

\* The owner was cancelled: every caller it leaves is told, then it closes its session.
LeavesQueue(o) == {owners[o].cur} \ {Nobody}                                \* mutant
Pending(o) == ({owners[o].cur} \ {Nobody}) \cup {owners[o].queue[i] : i \in DOMAIN owners[o].queue}

Finish(o) ==
  /\ owners[o].doomed /\ owners[o].pc # "gone"
  /\ calls' = [c \in Calls |-> IF c \in Pending(o) THEN [calls[c] EXCEPT !.pc = "back", !.res = "transport"]
                               ELSE calls[c]]
  /\ owners' = [owners EXCEPT ![o] = [NoOwner EXCEPT !.pc = "gone"]]
  /\ UNCHANGED ran \/ (owners[o].pc = "call" /\ Ran(owners[o].cur))
  /\ UNCHANGED <<backend, wanted, stamps, app, creds, tools, me, swap>>
-----------------------------------------------------------------------------
\* /ctrader: set_credentials, then the mode of the new account, with no await between.
Swapped(t) ==
  /\ creds' = t /\ tools' = NoToken /\ stamps' = FALSE
  /\ app' = Switched(app, TokenEnv[t])

SetCtrader(t) ==
  /\ swap.to = NoToken /\ swap.count < MaxSwaps
  /\ me' = 0
  /\ IF me = 0 \/ owners[me].pc = "gone"
     THEN Swapped(t) /\ swap' = [NoSwap EXCEPT !.count = swap.count + 1] /\ UNCHANGED owners
     ELSE /\ owners' = [owners EXCEPT ![me].doomed = TRUE]
          /\ swap' = [to |-> t, of |-> me, count |-> swap.count + 1]
          /\ UNCHANGED <<creds, tools, stamps, app>>
  /\ UNCHANGED <<backend, wanted, calls, ran>>

SwapEnds ==
  /\ swap.to # NoToken /\ owners[swap.of].pc = "gone"
  /\ Swapped(swap.to) /\ swap' = [NoSwap EXCEPT !.count = swap.count]
  /\ UNCHANGED <<backend, wanted, calls, ran, me, owners>>

OwnerStep(o) ==
  \/ Take(o) \/ Opened(o) \/ Listed(o) \/ Replied(o) \/ Lost(o) \/ Reopen(o) \/ Broken(o) \/ Finish(o)
=============================================================================
