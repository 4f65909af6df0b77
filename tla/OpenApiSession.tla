--------------------------- MODULE OpenApiSession ----------------------------
(***************************************************************************)
(* The Open API client (ctrader/openapi.py): one websocket, opened under a *)
(* lock by the first call that finds none, application auth, account auth, *)
(* the refresh of an expired token, requests matched to their answers, and *)
(* execution events matched by comment.  Every call runs in the task of    *)
(* its caller; a step is the code from one await to the next.              *)
(***************************************************************************)
EXTENDS ClientCalls

CONSTANTS
  MaxConns,  \* bound: sockets opened
  MaxVer     \* bound: tokens issued

ASSUME OpenApiAssumption == MaxConns \in Nat /\ MaxVer \in Nat \ {0}

VARIABLES
  oa,      \* the client: ws, lock, retry_at in the future, token, host, subscriptions
  conns,   \* the sockets: reader running, and what the server has authorised
  rpc,     \* per call: the request it waits for, on which socket, with which token
  srv,     \* the server: the account, the token it accepts, whether it is good, and may expire (bound)
  flight,  \* orders sent and not run yet
  events   \* execution events under way

oaVars == <<oa, conns, rpc, srv, flight, events>>

ConnIds == 1 .. MaxConns
NoRpc == [stage |-> "none", conn |-> 0, ver |-> 0, again |-> FALSE]

\* The client has just been made, or its socket dropped after it had connected.
OaInit(known, expires, e) ==
  /\ conns = [n \in ConnIds |-> [st |-> "none", auth |-> "none"]]
  /\ rpc = [c \in Calls |-> NoRpc] /\ srv = [env |-> e, ver |-> 1, good |-> TRUE, ends |-> expires]
  /\ oa = [ws |-> 0, lock |-> Nobody, cool |-> FALSE, ver |-> 1, host |-> IF known THEN e ELSE "demo",
           found |-> known, subs |-> known]
  /\ flight = {} /\ events = {}
-----------------------------------------------------------------------------
\* _fail_waits: every request that waits, on whichever socket, is failed.
FailWaits(f) ==
  [c \in Calls |-> IF f[c].pc = "rpc" /\ f[c].res = "none" THEN [f[c] EXCEPT !.res = "transport"] ELSE f[c]]
Gone(n) == IF n = 0 THEN conns ELSE [conns EXCEPT ![n].st = "gone"]
Back(f, c, r) == [f EXCEPT ![c].pc = "back", ![c].res = r]

\* An error leaves the caller; out of _connect it closes the socket, backs off and
\* releases the lock.
Unlocked(o) == [o EXCEPT !.cool = TRUE, !.lock = Nobody]

Raise(c, r, o) ==
  IF o.lock # c THEN calls' = Back(calls, c, r) /\ oa' = o /\ UNCHANGED conns
  ELSE IF o.ws = 0 THEN calls' = Back(FailWaits(calls), c, r) /\ oa' = Unlocked(o) /\ UNCHANGED conns
  ELSE /\ calls' = [calls EXCEPT ![c].pc = "xclose", ![c].res = r]
       /\ oa' = [o EXCEPT !.ws = 0] /\ conns' = Gone(o.ws)

\* _send: the request is registered and sent on the socket there is.
SendOn(c, stage, o, again) ==
  /\ oa' = o
  /\ IF o.ws = 0 THEN calls' = Back(calls, c, "transport") /\ UNCHANGED <<rpc, flight>>
     ELSE /\ calls' = [calls EXCEPT ![c].pc = "rpc", ![c].res = "none"]
          /\ rpc' = [rpc EXCEPT ![c] = [stage |-> stage, conn |-> o.ws, ver |-> o.ver, again |-> again]]
          /\ flight' = IF stage = "ask" /\ c \in Orders THEN flight \cup {c} ELSE flight

\* _call_once and _ensure: the open socket is used as it is, else one is opened.
Ensure(c) ==
  /\ calls[c].pc = "limit" \/ (calls[c].pc = "lockq" /\ oa.lock = Nobody)
  /\ IF oa.ws # 0 THEN SendOn(c, "ask", oa, FALSE)
     ELSE /\ UNCHANGED <<rpc, flight>>
          /\ IF oa.lock # Nobody THEN calls' = [calls EXCEPT ![c].pc = "lockq"] /\ oa' = oa
             ELSE IF oa.cool THEN calls' = Back(FailWaits(calls), c, "transport") /\ oa' = oa
             ELSE calls' = [FailWaits(calls) EXCEPT ![c].pc = "dial"] /\ oa' = [oa EXCEPT !.lock = c]
  /\ UNCHANGED <<backend, wanted, stamps, ran, app, conns, srv, events>>

\* _open: the socket is there for every caller before it is authorised.
Dialed(c) ==
  LET n == Cardinality({i \in ConnIds : conns[i].st # "none"}) + 1 IN
  /\ calls[c].pc = "dial" /\ n \in ConnIds
  /\ conns' = [conns EXCEPT ![n].st = "open"]
  /\ SendOn(c, "app", [oa EXCEPT !.ws = n], FALSE)
  /\ UNCHANGED <<backend, wanted, stamps, ran, app, srv, events>>

DialFails(c) ==
  /\ calls[c].pc = "dial" /\ Raise(c, "transport", oa)
  /\ UNCHANGED <<backend, wanted, stamps, ran, app, rpc, srv, flight, events>>

\* What follows an answer: the next request of _connect, of _with_token or of _call_once.
Followed(stage) ==
  CASE stage = "app" -> IF oa.found /\ oa.host = srv.env THEN "acct" ELSE "find"
    [] stage = "find" -> "acct"
    [] stage = "acct" -> IF oa.subs THEN "sub" ELSE "ask"
    [] stage = "sub" -> "ask"
    [] stage = "findRefresh" -> "find"
    [] stage = "acctRefresh" -> "acct"
    [] stage = "askRefresh" -> "askAcct"
    [] stage = "askAcct" -> "ask"

Refresh(stage) == CASE stage = "find" -> "findRefresh" [] stage = "acct" -> "acctRefresh" [] stage = "ask" -> "askRefresh"
Refreshes == {"findRefresh", "acctRefresh", "askRefresh"}

\* The client after the answer: what it has learnt, and the lock _ensure releases.
Learnt(c) ==
  LET stage == rpc[c].stage
      o == [oa EXCEPT !.ver = IF stage \in Refreshes THEN rpc[c].ver ELSE @, !.found = @ \/ stage = "find"]
  IN IF oa.lock = c /\ Followed(stage) = "ask" THEN [o EXCEPT !.lock = Nobody] ELSE o

Again(c) == rpc[c].stage \in Refreshes \cup {"askAcct"}

GotAnswer(c) ==
  /\ calls[c].pc = "rpc" /\ calls[c].res = "ok"
  /\ IF rpc[c].stage = "ask"
     THEN /\ calls' = Back(calls, c, "ok") /\ oa' = [oa EXCEPT !.subs = @ \/ c \in Reads]
          /\ UNCHANGED <<conns, rpc, flight>>
     ELSE IF rpc[c].stage = "find" /\ srv.env # oa.host
     THEN /\ calls' = [calls EXCEPT ![c].pc = "hclose", ![c].res = "none"]
          /\ oa' = [oa EXCEPT !.ws = 0, !.found = TRUE] /\ conns' = Gone(oa.ws)
          /\ UNCHANGED <<rpc, flight>>
     ELSE IF oa.ws = 0
     THEN Raise(c, "transport", Learnt(c)) /\ UNCHANGED <<rpc, flight>>
     ELSE SendOn(c, Followed(rpc[c].stage), Learnt(c), Again(c)) /\ UNCHANGED conns
  /\ UNCHANGED <<backend, wanted, stamps, ran, app, srv, events>>

\* A refused token is refreshed once and the refused request, which ran nothing, sent
\* again; any other error is raised.
GotError(c) ==
  /\ calls[c].pc = "rpc" /\ calls[c].res \notin {"none", "ok"}
  /\ IF calls[c].res # "token" \/ rpc[c].stage \notin {"find", "acct", "ask"} \/ rpc[c].again
     THEN Raise(c, calls[c].res, oa) /\ UNCHANGED <<rpc, flight>>
     ELSE IF oa.ws = 0 THEN Raise(c, "transport", oa) /\ UNCHANGED <<rpc, flight>>
     ELSE SendOn(c, Refresh(rpc[c].stage), oa, FALSE) /\ UNCHANGED conns
  /\ UNCHANGED <<backend, wanted, stamps, ran, app, srv, events>>

\* No answer within call_timeout: the socket is taken for dead.
TimesOut(c) ==
  /\ calls[c].pc = "rpc" /\ calls[c].res = "none"
  /\ IF oa.ws = rpc[c].conn
     THEN /\ calls' = [calls EXCEPT ![c].pc = "tclose"]
          /\ oa' = [oa EXCEPT !.ws = 0] /\ conns' = Gone(oa.ws)
     ELSE Raise(c, "transport", oa)
  /\ UNCHANGED <<backend, wanted, stamps, ran, app, rpc, srv, flight, events>>

\* close() is back from closing the socket and fails every request that waits by now.
Closed(c) ==
  /\ calls[c].pc \in {"tclose", "xclose", "hclose"}
  /\ LET f == FailWaits(calls)
     IN CASE calls[c].pc = "hclose" -> calls' = [f EXCEPT ![c].pc = "dial"] /\ oa' = [oa EXCEPT !.host = srv.env]
          [] calls[c].pc = "tclose" -> calls' = Back(f, c, "transport") /\ oa' = IF oa.lock = c THEN Unlocked(oa) ELSE oa
          [] OTHER -> calls' = Back(f, c, calls[c].res) /\ oa' = Unlocked(oa)
  /\ UNCHANGED <<backend, wanted, stamps, ran, app, conns, rpc, srv, flight, events>>

CoolDown ==
  /\ oa.cool /\ oa' = [oa EXCEPT !.cool = FALSE]
  /\ UNCHANGED <<callVars, conns, rpc, srv, flight, events>>
-----------------------------------------------------------------------------
\* The server and the network.  The reader task hands an answer to its request.
Waiting(c) == calls[c].pc = "rpc" /\ calls[c].res = "none" /\ conns[rpc[c].conn].st = "open"
Accepts(ver) == ver = srv.ver /\ srv.good

Reply(c) ==
  CASE rpc[c].stage \in {"find", "acct", "askAcct"} -> IF Accepts(rpc[c].ver) THEN "ok" ELSE "token"
    [] rpc[c].stage \in Refreshes -> IF rpc[c].ver = srv.ver /\ srv.ver < MaxVer THEN "ok" ELSE "auth"
    [] rpc[c].stage \in {"ask", "sub"} ->
         IF conns[rpc[c].conn].auth # "acct" THEN "auth" ELSE IF srv.good THEN "ok" ELSE "token"
    [] OTHER -> "ok"

Serves(c) ==
  /\ Waiting(c) /\ ~(rpc[c].stage = "ask" /\ c \in Orders)
  /\ LET n == rpc[c].conn
         r == Reply(c)
     IN /\ calls' = [calls EXCEPT ![c].res = r]
        /\ conns' = IF r = "ok" /\ rpc[c].stage = "app" THEN [conns EXCEPT ![n].auth = "app"]
                    ELSE IF r = "ok" /\ rpc[c].stage \in {"acct", "askAcct"} THEN [conns EXCEPT ![n].auth = "acct"]
                    ELSE conns
        /\ IF rpc[c].stage \in Refreshes /\ r = "ok"
           THEN srv' = [srv EXCEPT !.ver = @ + 1, !.good = TRUE] /\ rpc' = [rpc EXCEPT ![c].ver = srv.ver + 1]
           ELSE UNCHANGED <<srv, rpc>>
  /\ UNCHANGED <<backend, wanted, stamps, ran, app, oa, flight, events>>

Refuses(c) ==
  /\ Waiting(c) /\ ~(c \in Orders /\ rpc[c].stage = "ask")
  /\ \E r \in {"tool"} \cup IF rpc[c].stage = "ask" THEN {"rate"} ELSE {"auth"} : calls' = [calls EXCEPT ![c].res = r]
  /\ UNCHANGED <<backend, wanted, stamps, ran, app, oaVars>>

\* An order that reached the server runs, at once or after its caller gave up.
OrderRuns(c) ==
  /\ c \in flight /\ conns[rpc[c].conn].auth = "acct" /\ srv.good
  /\ ran' = [ran EXCEPT ![c] = IF @ = 2 THEN 2 ELSE @ + 1]
  /\ flight' = flight \ {c} /\ events' = events \cup {c}
  /\ UNCHANGED <<backend, wanted, calls, stamps, app, oa, conns, rpc, srv>>

OrderRefused(c) ==
  /\ c \in flight
  /\ \E r \in {"tool", "auth", "token"} :
       /\ r = "auth" => conns[rpc[c].conn].auth # "acct"
       /\ r = "token" => ~srv.good
       /\ calls' = IF Waiting(c) /\ rpc[c].stage = "ask" THEN [calls EXCEPT ![c].res = r] ELSE calls
  /\ flight' = flight \ {c}
  /\ UNCHANGED <<backend, wanted, stamps, ran, app, oa, conns, rpc, srv, events>>

\* An execution event arrives, with the id of its request or with its comment only.
RoutesAny(c, d) == TRUE                                                       \* mutant
Routed(c, d) == c = d
EventArrives(c) ==
  /\ c \in events /\ \E n \in ConnIds : conns[n].st = "open" /\ conns[n].auth = "acct"
  /\ calls' = [d \in Calls |-> IF d \in Orders /\ Waiting(d) /\ rpc[d].stage = "ask" /\ Routed(c, d)
                               THEN [calls[d] EXCEPT !.res = "ok"] ELSE calls[d]]
  /\ events' = events \ {c}
  /\ UNCHANGED <<backend, wanted, stamps, ran, app, oa, conns, rpc, srv, flight>>

EventLost(c) ==
  /\ c \in events /\ \A n \in ConnIds : conns[n].st # "open"
  /\ events' = events \ {c}
  /\ UNCHANGED <<callVars, oa, conns, rpc, srv, flight>>

\* The socket drops, or the server says it will: the reader fails what waits.
Drop(n) ==
  /\ conns[n].st = "open"
  /\ conns' = Gone(n)
  /\ IF oa.ws = n THEN oa' = [oa EXCEPT !.ws = 0] /\ calls' = FailWaits(calls) ELSE UNCHANGED <<oa, calls>>
  /\ UNCHANGED <<backend, wanted, stamps, ran, app, rpc, srv, flight, events>>

TokenExpires ==
  /\ srv.good /\ srv.ends /\ srv.ver < MaxVer
  /\ srv' = [srv EXCEPT !.good = FALSE]
  /\ UNCHANGED <<callVars, oa, conns, rpc, flight, events>>

CallStep(c) ==
  \/ Ensure(c) \/ Dialed(c) \/ DialFails(c) \/ GotAnswer(c) \/ GotError(c) \/ TimesOut(c) \/ Closed(c)
=============================================================================
