-------------------------- MODULE ClientProperties ---------------------------
(* What the order flow and the owner rely on, whichever client is used. *)
EXTENDS Clients

\* An order runs at most once, whatever is lost, dropped, refreshed, reopened, swapped
\* or late: the order flow reconciles a timeout because nothing below it resends.
OrderOnce == \A c \in Orders : ran[c] <= 1

\* An order that was answered with a rejection has not run and will not: the order flow
\* marks it FAILED without looking for a position.
RejectedNeverRuns == \A c \in Orders : calls[c].res = "rejected" => ran[c] = 0 /\ c \notin flight

\* An order told as filled did run: no answer or event of another order is taken for it.
FilledDidRun == \A c \in Orders : calls[c].pc \in {"back", "ended"} /\ calls[c].res = "ok" => ran[c] = 1

\* Live orders on an account that is neither demo nor confirmed: only behind the kill
\* switch, unless the owner has resumed since the account changed.
SwitchStops == app.mode = "live" /\ ~Allowed(app.env) => app.kill \/ app.resumed

\* README.md:45: a live account without CONFIRM_LIVE_ACCOUNT=YES runs in paper: entries
\* are on only when the account is demo or confirmed.
LiveIsConfirmed == app.mode = "live" /\ ~app.kill => Allowed(app.env)

\* Every call ends: a caller never waits for a queue that is gone, a lock nobody
\* releases or a future nobody completes.
CallEnds == \A c \in Calls : (calls[c].pc # "idle") ~> (calls[c].pc = "ended")
=============================================================================
