-------------------------- MODULE MCProviderRetry --------------------------
(* Model-checking instance of ProviderRouting under its fairness. *)
EXTENDS ProviderRouting

CONSTANTS kbs, vci

Priority == <<kbs, vci>>
============================================================================
