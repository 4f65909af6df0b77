------------------------------- MODULE Clients -------------------------------
(***************************************************************************)
(* The service on one of its two clients (main.py, App.__init__: openapi   *)
(* when CTRADER_CLIENT_ID is set, else the Remote MCP).                    *)
(***************************************************************************)
EXTENDS McpSession, OpenApiSession

CONSTANT Loads   \* bound: the client, its account, whether it has connected before, whether
                 \* its token expires, and the calls made
ASSUME LoadsAssumption ==
  Loads \subseteq [backend : {"mcp", "openapi"}, env : {"demo", "live"}, known : BOOLEAN,
            expires : BOOLEAN, calls : SUBSET Calls]

vars == <<callVars, mcpVars, oaVars>>

Init ==
  \E l \in Loads :
    /\ backend = l.backend /\ wanted = l.calls
    /\ McpInit(l.env) /\ OaInit(l.known, l.expires, l.env)
    /\ CallsInit(IF l.backend = "mcp" \/ l.known THEN l.env ELSE "unknown")

\* getattr(self.client, "env", "unknown"): the Open API account is known once found.
Found == IF backend = "openapi" /\ oa.found THEN srv.env ELSE "unknown"

App ==
  /\ \/ \E c \in Calls : Begin(c) \/ Settle(c, Found)
     \/ TradesClosed \/ Resume
  /\ UNCHANGED <<mcpVars, oaVars>>

Mcp ==
  /\ backend = "mcp"
  /\ \/ \E c \in Calls : Post(c)
     \/ \E o \in OwnerIds : OwnerStep(o)
     \/ \E t \in Tokens : SetCtrader(t)
     \/ SwapEnds
  /\ UNCHANGED oaVars

OpenApi ==
  /\ backend = "openapi"
  /\ \/ \E c \in Calls : CallStep(c) \/ Serves(c) \/ Refuses(c)
     \/ \E c \in Orders : OrderRuns(c) \/ OrderRefused(c) \/ EventArrives(c) \/ EventLost(c)
     \/ \E n \in ConnIds : Drop(n)
     \/ CoolDown \/ TokenExpires
  /\ UNCHANGED mcpVars

Next == App \/ Mcp \/ OpenApi

Spec == Init /\ [][Next]_vars

\* Every await of the clients ends: each has a timeout, and cancelled tasks are run.
Fairness ==
  /\ \A c \in Calls :
       WF_vars((Settle(c, Found) /\ UNCHANGED <<mcpVars, oaVars>>)
               \/ (Mcp /\ Post(c)) \/ (OpenApi /\ CallStep(c)))
  /\ \A o \in OwnerIds : WF_vars(Mcp /\ OwnerStep(o))

FairSpec == Spec /\ Fairness
=============================================================================
