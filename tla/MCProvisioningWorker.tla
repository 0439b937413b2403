------------------------ MODULE MCProvisioningWorker ------------------------
(***************************************************************************)
(* Model-checking instance of what must come to an end under the fairness  *)
(* of its processes: ProvisioningWorker ("worker") and ProviderRouting     *)
(* ("routing").  A behaviour belongs to one of them, its part.             *)
(***************************************************************************)
EXTENDS ProvisioningWorker, ProviderPlugins

CONSTANTS Callers, kbs, vci

VARIABLES
  part,
  health, caller, calm, faulted   \* ProviderRouting

routingVars == <<health, caller, calm, faulted>>

Priority == <<kbs, vci>>

Routing == INSTANCE ProviderRouting

PartsInit ==
  /\ part \in {"worker", "routing"}
  /\ Init /\ Routing!Init

WorkerMoves == part = "worker" /\ Next /\ UNCHANGED <<part, routingVars>>
RoutingMoves == part = "routing" /\ Routing!Next /\ UNCHANGED <<part, vars>>

PartsNext == WorkerMoves \/ RoutingMoves

\* The fairness of both specifications.
PartsSpec ==
  /\ PartsInit
  /\ [][PartsNext]_<<part, vars, routingVars>>
  /\ \A w \in Workers : WF_vars(part = "worker" /\ WorkerStep(w))
  /\ \A j \in 1..MaxJobs :
       WF_vars(part = "worker" /\ LeaseLapses(j) /\ \A w \in Workers : held[w] # j)
  /\ \A c \in Callers : WF_routingVars(part = "routing" /\ Routing!Answer(c))
  /\ \A p \in Providers : WF_routingVars(part = "routing" /\ Routing!CooldownExpires(p))

RoutingInvariant == Routing!RoutingInvariant
ExplicitRequestsRecover == Routing!ExplicitRequestsRecover
=============================================================================
