------------------------------ MODULE MCClients ------------------------------
(* Values of the constants of Clients for TLC. *)
EXTENDS ClientProperties

CONSTANTS t1, t2, k1, k2, r1, r2

\* t1 is a demo account that may trade, t2 a live one whose token offers no orders.
EnvOf == [t \in Tokens |-> IF t = t1 THEN "demo" ELSE "live"]

\* Two orders after each other, an order beside a read, and the reads of connect(), on
\* either client; r1 is a read of connect(), r2 any other.  The token of the Open API
\* expires under two orders in turn and under connect().
On(b, e, k, x, cs) == [backend |-> b, env |-> e, known |-> k, expires |-> x, calls |-> cs]
LoadSet ==
  {On("mcp", "demo", FALSE, FALSE, {k1, r1}), On("mcp", "demo", FALSE, FALSE, {k1, k2}),
   On("mcp", "live", FALSE, FALSE, {r2}),
   On("openapi", "demo", TRUE, FALSE, {k1, r2}), On("openapi", "demo", TRUE, TRUE, {k1, k2}),
   On("openapi", "demo", FALSE, TRUE, {r1}), On("openapi", "live", FALSE, TRUE, {r1})}
=============================================================================
