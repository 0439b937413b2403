--------------------------- MODULE ProviderPlugins ---------------------------
(***************************************************************************)
(* The provider plugins the service routes between, for ProviderRouting    *)
(* and the models that contain it.                                         *)
(***************************************************************************)
EXTENDS Integers, Sequences

CONSTANTS
  Ranking,     \* the providers auto routing may choose, in the order of priority
  Explicit     \* providers that must be asked for by name, with typed failures

AutoProviders == {Ranking[i] : i \in DOMAIN Ranking}
Providers == AutoProviders \cup Explicit
Sources == Providers \cup {"auto"}

\* Ranking is a list of names, none of them a word the router keeps for itself.
ASSUME RoutingAssumption ==
  /\ Ranking \in Seq(AutoProviders)
  /\ Providers \cap {"auto", "none"} = {}

==============================================================================
