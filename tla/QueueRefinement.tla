-------------------------- MODULE QueueRefinement --------------------------
(***************************************************************************)
(* ProvisioningQueue implements JobQueue.                                  *)
(***************************************************************************)
EXTENDS ProvisioningQueue

\* What a user of the queue sees of a row at the instant t.
Seen(r, t) ==
  [identity |-> r.identity, status |-> r.status, attempts |-> r.attempts,
   owner |-> r.owner, live |-> IF r.expires > t THEN 1 ELSE 0,
   ready |-> IF r.available <= t THEN 1 ELSE 0, cancel |-> r.cancel]

Table == [i \in DOMAIN job |-> Seen(job[i], now)]

Abstract == INSTANCE JobQueue WITH count <- issued, row <- Table, tomb <- pruned

\* The tables, read through Seen, behave as JobQueue promises: priorities, the
\* clock, the order of recovery and claim, joins and batches of the prune are
\* all invisible except for what JobQueue allows.
ImplementsJobQueue == Abstract!QueueSpec

============================================================================
