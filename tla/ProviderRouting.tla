-------------------------- MODULE ProviderRouting --------------------------
(***************************************************************************)
(* How the data service chooses a provider for one dataset and learns from *)
(* the outcome, and the callers that retry what it answers.                *)
(*                                                                         *)
(* The service answers one HTTP request at a time, so Serve is one step:   *)
(* routing, fetch and health record.  Its health store lives in memory.    *)
(* A provider is DISABLED by an administrator only; the model leaves that  *)
(* status out, and the authentication policy, which the service keeps at   *)
(* its default.                                                            *)
(***************************************************************************)
EXTENDS ProviderPlugins

CONSTANTS Callers

VARIABLES
  health,    \* the ProviderHealth of each provider for the dataset
  caller,    \* the request each caller has made, and the answer to its last one
  calm,      \* from now on every provider answers well and the service stays up
  faulted    \* history: the providers whose last recorded outcome was a failure

vars == <<health, caller, calm, faulted>>

Threshold == 3         \* failure_threshold
ClientAttempts == 2    \* _MAX_ATTEMPTS

\* failures is capped at Threshold: nothing tells more of them apart.
Unknown == [status |-> "UNKNOWN", failures |-> 0, cooling |-> FALSE]
Healthy == [status |-> "HEALTHY", failures |-> 0, cooling |-> FALSE]
Quiet == [source |-> "none", attempt |-> 0, answer |-> "none"]

TypeOK ==
  /\ health \in [Providers -> [status : {"UNKNOWN", "HEALTHY", "DEGRADED", "FAILING"},
                               failures : 0..Threshold, cooling : BOOLEAN]]
  /\ caller \in [Callers -> [source : Sources \cup {"none"}, attempt : 0..ClientAttempts,
                             answer : {"none", "ok", "failed"}]]
  /\ calm \in BOOLEAN
  /\ faulted \subseteq Providers

Init ==
  /\ health = [p \in Providers |-> Unknown]
  /\ caller = [c \in Callers |-> Quiet]
  /\ calm = FALSE
  /\ faulted = {}

-----------------------------------------------------------------------------
(* Routing *)

Cooled(p) == ~health[p].cooling
Tier(statuses) == {i \in DOMAIN Ranking : Cooled(Ranking[i]) /\ health[Ranking[i]].status \in statuses}
First(tier) == Ranking[CHOOSE i \in tier : \A j \in tier : i <= j]

Resolve_ByPriorityOnly(source) ==
  IF source # "auto" THEN IF Cooled(source) THEN source ELSE "none"
  ELSE IF Tier({"HEALTHY", "UNKNOWN", "DEGRADED"}) # {}
       THEN First(Tier({"HEALTHY", "UNKNOWN", "DEGRADED"})) ELSE "none"

Resolve_NeverFailing(source) ==
  IF source # "auto" THEN IF health[source].status # "FAILING" THEN source ELSE "none"
  ELSE IF Tier({"HEALTHY", "UNKNOWN"}) # {} THEN First(Tier({"HEALTHY", "UNKNOWN"}))
  ELSE IF Tier({"DEGRADED"}) # {} THEN First(Tier({"DEGRADED"}))
  ELSE "none"

\* The provider for a request; "none" where no provider may be asked.  FAILING
\* ones wait for allow_failing_fallback, which the service leaves FALSE.
Resolve(source) ==
  IF source # "auto" THEN IF Cooled(source) THEN source ELSE "none"
  ELSE IF Tier({"HEALTHY", "UNKNOWN"}) # {} THEN First(Tier({"HEALTHY", "UNKNOWN"}))
  ELSE IF Tier({"DEGRADED"}) # {} THEN First(Tier({"DEGRADED"}))
  ELSE "none"

-----------------------------------------------------------------------------
(* The outcome of a fetch and what the store keeps of it *)

Failed_OfHealthyOnly(h, threshold) ==
  LET failures == IF h.failures < Threshold THEN h.failures + 1 ELSE Threshold
  IN IF failures >= threshold
     THEN [status |-> "FAILING", failures |-> failures, cooling |-> TRUE]
     ELSE [status |-> IF h.status = "HEALTHY" THEN "DEGRADED" ELSE h.status,
           failures |-> failures, cooling |-> h.cooling]

Failed(h, threshold) ==
  LET failures == IF h.failures < Threshold THEN h.failures + 1 ELSE Threshold
  IN IF failures >= threshold
     THEN [status |-> "FAILING", failures |-> failures, cooling |-> TRUE]
     ELSE [status |-> IF h.status \in {"HEALTHY", "UNKNOWN"} THEN "DEGRADED" ELSE h.status,
           failures |-> failures, cooling |-> h.cooling]

\* "account": installation, credentials, entitlement, quota or request; these say
\* nothing of the provider's health, and no retry helps.
Outcomes(p) ==
  IF calm THEN {"ok"}
  ELSE {"ok", "contract", "account"}
         \cup IF p \in Explicit THEN {"transient", "provider"} ELSE {"untyped"}

IsFault(outcome) == outcome \in {"contract", "untyped", "transient", "provider"}
Retryable(outcome) == outcome \in {"untyped", "transient"}

Record_CountStays(p, outcome) ==
  IF outcome = "ok" THEN [health[p] EXCEPT !.status = "HEALTHY", !.cooling = FALSE]
  ELSE IF outcome = "transient" THEN Failed(health[p], 1)
  ELSE IF IsFault(outcome) THEN Failed(health[p], Threshold)
  ELSE health[p]

Record(p, outcome) ==
  IF outcome = "ok" THEN Healthy
  ELSE IF outcome = "transient" THEN Failed(health[p], 1)
  ELSE IF IsFault(outcome) THEN Failed(health[p], Threshold)
  ELSE health[p]

-----------------------------------------------------------------------------
(* Requests *)

\* The caller tries again, or takes the failure for its answer.
TryAgain(r, retryable) ==
  IF retryable /\ r.attempt < ClientAttempts THEN [r EXCEPT !.attempt = @ + 1]
  ELSE [Quiet EXCEPT !.answer = "failed"]

Ask(c, source) ==
  /\ caller[c].source = "none"
  /\ caller' = [caller EXCEPT ![c] = [source |-> source, attempt |-> 1, answer |-> "none"]]
  /\ UNCHANGED <<health, calm, faulted>>

\* No healthy provider (503) or the named one in its cooldown (500): both
\* answers say that the request may be retried.
Refuse(c) ==
  /\ caller[c].source # "none" /\ Resolve(caller[c].source) = "none"
  /\ caller' = [caller EXCEPT ![c] = TryAgain(@, TRUE)]
  /\ UNCHANGED <<health, calm, faulted>>

\* late: the caller gave up waiting, and the service records the outcome all the same.
Serve(c) ==
  LET p == Resolve(caller[c].source)
  IN /\ caller[c].source # "none" /\ p # "none"
     /\ \E outcome \in Outcomes(p), late \in IF calm THEN {FALSE} ELSE BOOLEAN :
          /\ health' = [health EXCEPT ![p] = Record(p, outcome)]
          /\ caller' = [caller EXCEPT ![c] =
               IF outcome = "ok" /\ ~late THEN [Quiet EXCEPT !.answer = "ok"]
               ELSE TryAgain(@, late \/ Retryable(outcome))]
          /\ faulted' = CASE outcome = "ok" -> faulted \ {p}
                          [] IsFault(outcome) -> faulted \cup {p}
                          [] OTHER -> faulted
     /\ UNCHANGED calm

CooldownExpires(p) ==
  /\ health[p].cooling
  /\ health' = [health EXCEPT ![p].cooling = FALSE]
  /\ UNCHANGED <<caller, calm, faulted>>

\* Callers that wait lose their connection, which they take for a reason to retry.
Restart ==
  /\ ~calm
  /\ health' = [p \in Providers |-> Unknown]
  /\ caller' = [c \in Callers |->
       IF caller[c].source = "none" THEN caller[c] ELSE TryAgain(caller[c], TRUE)]
  /\ faulted' = {}
  /\ UNCHANGED calm

TroubleEnds ==
  /\ ~calm
  /\ calm' = TRUE
  /\ UNCHANGED <<health, caller, faulted>>

Next ==
  \/ \E c \in Callers, source \in Sources : Ask(c, source)
  \/ \E c \in Callers : Refuse(c) \/ Serve(c)
  \/ \E p \in Providers : CooldownExpires(p)
  \/ Restart \/ TroubleEnds

Spec == Init /\ [][Next]_vars

\* The service answers what it is asked, and cooldowns end by the clock.  Nobody
\* has to ask: properties that need requests assume them.
Answer(c) == Refuse(c) \/ Serve(c)
FairSpec ==
  /\ Spec
  /\ \A c \in Callers : WF_vars(Answer(c))
  /\ \A p \in Providers : WF_vars(CooldownExpires(p))

-----------------------------------------------------------------------------
(* Properties *)

\* The store's status, count and cooldown agree after any order of outcomes with
\* different thresholds (record_failure, record_success): only a FAILING provider
\* cools, and one that reached the threshold is FAILING until it succeeds.
HealthIsConsistent ==
  \A p \in Providers :
    LET h == health[p]
    IN /\ h.failures >= Threshold \/ h.cooling => h.status = "FAILING"
       /\ h.status = "DEGRADED" => h.failures \in 1..(Threshold - 1)
       /\ h.status \in {"HEALTHY", "UNKNOWN"} => h.failures = 0

\* Auto routing asks a provider whose last outcome was a failure only when that
\* holds of every provider it may choose: the second attempt of a caller reaches
\* another provider while there is one that did not fail (_resolve_auto).
FailedProviderIsLastResort ==
  Resolve("auto") \in faulted => AutoProviders \subseteq faulted

\* What is always true of the store and of the choices made by it (health.py,
\* plugin_router.py).
RoutingInvariant == HealthIsConsistent /\ FailedProviderIsLastResort /\ TypeOK

\* A provider that is asked for by name again and again is healthy again once the
\* trouble is over, whatever its record: its cooldown ends, and no refusal in the
\* meantime prolongs it (_resolve_explicit).
Asked(source) == \E c \in Callers : caller[c].source = source
ExplicitRequestsRecover ==
  \A p \in Providers : <>calm /\ []<>Asked(p) => <>[](health[p] = Healthy)

\* The answer of a service without healthy provider says "retryable": whoever
\* retries for ever is answered once the trouble is over (_handle_data).
RetryIsAnswered ==
  <>calm /\ []<>Asked("auto") => <>(\E c \in Callers : calm /\ caller[c].answer = "ok")
=============================================================================
