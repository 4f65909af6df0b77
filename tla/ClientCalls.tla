----------------------------- MODULE ClientCalls -----------------------------
(***************************************************************************)
(* Calls of the service to its cTrader account (ctrader/client.py,         *)
(* CTraderClient.call), whichever client carries them, and the account the *)
(* service believes to trade (main.py: effective_mode, apply_env, /ctrader).*)
(* A call is made once here; Orders are mutations, each with its own       *)
(* comment, and are made by a conversation that holds TradeManager.lock.   *)
(***************************************************************************)
EXTENDS Naturals, Sequences, FiniteSets

CONSTANTS
  Orders,       \* calls of create_order
  Reads,        \* calls of a tool in none of MUTATIONS
  Connects,     \* the reads made by App.connect, which take no timestamp
  Nobody,       \* no call
  ReadRetries,  \* READ_RETRIES
  TradingMode,  \* TRADING_MODE
  Confirmed     \* CONFIRM_LIVE_ACCOUNT=YES

Calls == Orders \cup Reads
Envs == {"demo", "live", "unknown"}
ASSUME CallsAssumption ==
  /\ IsFiniteSet(Calls) /\ Orders \cap Reads = {} /\ Connects \subseteq Reads /\ Nobody \notin Calls
  /\ ReadRetries \in Nat /\ TradingMode \in {"paper", "live"} /\ Confirmed \in BOOLEAN

VARIABLES
  backend,  \* which client the service was started with
  wanted,   \* bound: the calls that are made
  calls,    \* the calls: where each is, its retries and what its last attempt gave
  stamps,   \* ms_text: timestamps are sent as text
  ran,      \* history: how often the server ran each order, up to 2
  app       \* env, mode (and with it the venue), kill switch, open trades

callVars == <<backend, wanted, calls, stamps, ran, app>>

Started == [pc |-> "limit", attempt |-> 0, res |-> "none"]

\* effective_mode: a live account, or one that cannot be told, needs the confirmation.
Allowed(env) == env = "demo" \/ Confirmed
ModeFor(env) == IF TradingMode = "live" /\ Allowed(env) THEN "live" ELSE "paper"

CallsInit(e) ==
  /\ calls = [c \in Calls |-> [Started EXCEPT !.pc = "idle"]]
  /\ stamps = FALSE /\ ran = [c \in Orders |-> 0]
  /\ app = [env |-> e, mode |-> ModeFor(e), kill |-> FALSE, open |-> FALSE, resumed |-> FALSE]
-----------------------------------------------------------------------------
Active(c) == calls[c].pc \notin {"idle", "ended"}

\* check_entry and the claim come before an order; a read is made at any time.
Begin(c) ==
  /\ c \in wanted /\ calls[c].pc = "idle"
  /\ c \in Orders => app.mode = "live" /\ ~app.kill /\ \A d \in Orders : ~Active(d)
  /\ calls' = [calls EXCEPT ![c] = Started]
  /\ app' = IF c \in Orders THEN [app EXCEPT !.open = TRUE] ELSE app
  /\ UNCHANGED <<backend, wanted, stamps, ran>>

\* The account turned out to be e: the mode follows, unless trades are open.
KeepsTrading(a) == a                                                       \* mutant
AccountChanged(a) == [a EXCEPT !.kill = TRUE]

Switched(a, e) ==
  LET b == [a EXCEPT !.env = e, !.resumed = FALSE]
  IN IF ModeFor(e) = a.mode THEN b
     ELSE IF a.open THEN AccountChanged(b) ELSE [b EXCEPT !.mode = ModeFor(e)]

RetriesOrders(c) == calls[c].attempt < ReadRetries                         \* mutant
MayRetry(c) == c \in Reads /\ calls[c].attempt < ReadRetries

Retried(c) == calls[c].res \in {"rate", "transport"} /\ MayRetry(c)
Restamped(c) == calls[c].res = "stamp" /\ ~stamps

\* What the order flow is told: filled, rejected, or nothing certain.
Told(c) == IF c \in Reads THEN "none"
           ELSE IF calls[c].res \in {"ok", "transport"} THEN calls[c].res ELSE "rejected"

\* call(): a failed attempt of a read is made again, anything else goes to the caller;
\* what connect() learns of the account is applied at once, an auth error alerts and,
\* after AUTH_TRIP_S, trips.  found is the environment the client has found out.
Settle(c, found) ==
  /\ calls[c].pc = "back"
  /\ LET r == calls[c].res
         again == Retried(c) \/ Restamped(c)
     IN /\ calls' = [calls EXCEPT ![c] =
              IF again THEN [Started EXCEPT !.attempt = calls[c].attempt + IF Retried(c) THEN 1 ELSE 0]
              ELSE [Started EXCEPT !.pc = "ended", !.res = Told(c)]]
        /\ stamps' = (stamps \/ Restamped(c))
        /\ IF c \in Connects /\ r = "ok" /\ found \notin {"unknown", app.env} THEN app' = Switched(app, found)
           ELSE IF c \in Connects /\ r \in {"auth", "token"}
                THEN \E late \in BOOLEAN : app' = [app EXCEPT !.kill = @ \/ late]
                ELSE app' = app
  /\ UNCHANGED <<backend, wanted, ran>>

\* Seen from here: the trades of the service are closed, and /resume.
TradesClosed ==
  /\ app.open /\ \A c \in Orders : ~Active(c)
  /\ app' = [app EXCEPT !.open = FALSE]
  /\ UNCHANGED <<backend, wanted, calls, stamps, ran>>

Resume ==
  /\ app.kill /\ app' = [app EXCEPT !.kill = FALSE, !.resumed = TRUE]
  /\ UNCHANGED <<backend, wanted, calls, stamps, ran>>
=============================================================================
