------------------------- MODULE MCProviderDispatch -------------------------
(* Model-checking instance of ProviderDispatch. *)
EXTENDS ProviderDispatch

CONSTANTS kbs, vci

PoolOrder == <<kbs, vci>>
============================================================================
