------------------------ MODULE MCProvisioningQueue ------------------------
(***************************************************************************)
(* Model-checking instance of ProvisioningQueue, and of its refinement of  *)
(* JobQueue under another choice of constants: one worker, two priorities, *)
(* no wait between the timestamp and the transaction.  A behaviour belongs *)
(* to one of the two, its part.                                            *)
(***************************************************************************)
EXTENDS ProvisioningQueue, TLC

CONSTANT w3

VARIABLES
  part,
  clock1, now1, issued1, job1, pruned1    \* the queue of part "exact"

exactVars == <<clock1, now1, issued1, job1, pruned1>>

Exact == INSTANCE QueueRefinement WITH
  Workers <- {w3}, Priorities <- {0, 1}, MaxWait <- 0,
  clock <- clock1, now <- now1, issued <- issued1, job <- job1, pruned <- pruned1

PartsInit == part \in {"queue", "exact"} /\ Init /\ Exact!Init

QueueMoves == part = "queue" /\ Next /\ UNCHANGED <<part, exactVars>>
ExactMoves == part = "exact" /\ Exact!Next /\ UNCHANGED <<part, vars>>

PartsNext == QueueMoves \/ ExactMoves

PartsSpec == PartsInit /\ [][PartsNext]_<<part, vars, exactVars>>

\* No operator distinguishes two workers or two goal identities.
Symmetry == Permutations(Workers) \cup Permutations(Identities)

\* The tables behave as JobQueue promises, whatever the clock, the priorities,
\* the recovery of leases and the batches of the prune do in between.
ImplementsJobQueue == Exact!ImplementsJobQueue

\* ClaimFollowsPriority with transactions that wait, and with two priorities.
ClaimsFollowPriority == ClaimFollowsPriority /\ Exact!ClaimFollowsPriority
============================================================================
