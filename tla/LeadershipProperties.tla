------------------------ MODULE LeadershipProperties -------------------------
(* What must be true of several processes on one database. *)
EXTENDS Leadership

\* A process that renewed its lease within the TTL owns it: two processes act at once
\* only when one of them has not run its lease_tick for longer than the TTL.
FreshLeaderOwns ==
  \A p \in Procs : app[p].leader /\ app[p].age <= TTL => lease.owner = p

\* A message marked as sent reached the chat with every one of its parts, however the
\* flushes of a process that lost the lease and of its successor overlap.
SentWasDelivered ==
  \A i \in Ids : outbox[i].sent => delivered[outbox[i].key] = 1 .. Parts[outbox[i].key]

\* The owner reads the messages in the order they were written: none is shown before an
\* earlier one is complete, unless that one was given up after MaxAttempts.
DeliveredInOrder ==
  \A i, j \in Ids :
    i < j /\ delivered[outbox[j].key] # {} =>
      delivered[outbox[i].key] = 1 .. Parts[outbox[i].key] \/ outbox[i].attempts >= MaxAttempts

\* A command runs at most once, through crashes and dropped batches, as long as
\* deployments do not overlap (a second process starts with the offset of its boot).
CommandOnce == ~overlapped => \A u \in Updates : handled[u] <= 1

\* Every message is told or given up, through lost leases, crashes and failing calls.
MessageSettles ==
  \A i \in 1 .. Cardinality(Keys) :
    (i \in Ids) ~> (i \in Ids /\ (outbox[i].sent \/ outbox[i].attempts >= MaxAttempts))

\* Every command the owner sends is run, unless the process was killed between saving
\* the offset and running it: a batch cut short by a failed reply is fetched again.
CommandIsRun == \A u \in Updates : (arrived >= u) ~> (handled[u] > 0 \/ u \in lost)
=============================================================================
