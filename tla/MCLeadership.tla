---------------------------- MODULE MCLeadership ----------------------------
(* Values of the constants of Leadership for TLC. *)
EXTENDS LeadershipProperties

CONSTANTS p1, p2, a1, s1

\* The outbox and the commands meet only in the lease and the kill switch: each is
\* exercised alone, two commands or two messages.
LoadSet == {[updates |-> 2, keys |-> {}], [updates |-> 0, keys |-> {a1, s1}]}

\* The text of a1 is longer than one message.
TwoParts == [k \in Keys |-> IF k = a1 THEN 2 ELSE 1]
ResumeStop == <<"/resume", "/stop">>
=============================================================================
