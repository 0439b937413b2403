-------------------------- MODULE ProviderDispatch --------------------------
(***************************************************************************)
(* The calls of the data library that go through BaseUI._dispatch: one     *)
(* method of one pool, for one symbol, by several threads.  A call chooses *)
(* its provider, looks into the cache, asks the provider, writes the cache *)
(* and validates the frame.                                                *)
(*                                                                         *)
(* Every pool's method is a method of an api class whose constructor takes *)
(* the source, and is wrapped in tenacity's retry without reraise.         *)
(***************************************************************************)
EXTENDS Naturals, Sequences

CONSTANTS
  Pool,       \* the providers of the pool, in its order
  Threads

Sources == {Pool[i] : i \in DOMAIN Pool}

VARIABLES
  next,     \* the pool's round-robin counter
  cache,    \* the unexpired frames: whether the frame of a source is valid, or "none"
  call      \* what each thread is doing, and the answer it got

vars == <<next, cache, call>>

Frames == {"valid", "invalid"}

TypeOK ==
  /\ next \in DOMAIN Pool
  /\ cache \in [Sources -> Frames \cup {"none"}]
  /\ call \in [Threads -> [source : Sources \cup {"none"}, strict : BOOLEAN, cached : BOOLEAN,
                           answer : Frames \cup {"none", "raised"}]]

Init ==
  /\ next = 1
  /\ cache = [s \in Sources |-> "none"]
  /\ call = [t \in Threads |-> [source |-> "none", strict |-> FALSE, cached |-> FALSE,
                                answer |-> "none"]]

Returned(t, answer) == [call[t] EXCEPT !.source = "none", !.answer = answer]

\* Without source= the router picks, under its lock; no provider is ever in its
\* cooldown, as Fails shows.  A cached frame is the answer, whoever asked for it
\* and however: the quality options are not part of the key.
Dispatch(t, source, strict, cached) ==
  /\ call[t].source = "none"
  /\ LET picked == source = "none"
         asked == IF picked THEN Pool[next] ELSE source
         made == [source |-> asked, strict |-> strict, cached |-> cached, answer |-> "none"]
     IN /\ next' = IF picked THEN (next % Len(Pool)) + 1 ELSE next
        /\ call' = [call EXCEPT ![t] =
             IF cached /\ cache[asked] # "none"
             THEN [made EXCEPT !.source = "none", !.answer = cache[asked]] ELSE made]
  /\ UNCHANGED cache

\* The frame is cached before it is validated.
Answers(t) ==
  /\ call[t].source # "none"
  /\ \E frame \in Frames :
       /\ cache' = IF call[t].cached THEN [cache EXCEPT ![call[t].source] = frame] ELSE cache
       /\ call' = [call EXCEPT ![t] =
            Returned(t, IF call[t].strict /\ frame = "invalid" THEN "raised" ELSE frame)]
  /\ UNCHANGED next

\* A time-out or an HTTP error.  What the handler sees is tenacity's RetryError,
\* which is not retriable; or, were it the error itself, the handler would fail
\* on kwargs["source"], which the constructor call has popped.
Fails(t) ==
  /\ call[t].source # "none"
  /\ call' = [call EXCEPT ![t] = Returned(t, "raised")]
  /\ UNCHANGED <<next, cache>>

\* By age or by eviction.
Expires(s) ==
  /\ cache[s] # "none"
  /\ cache' = [cache EXCEPT ![s] = "none"]
  /\ UNCHANGED <<next, call>>

Next ==
  \/ \E t \in Threads, source \in Sources \cup {"none"}, strict, cached \in BOOLEAN :
       Dispatch(t, source, strict, cached)
  \/ \E t \in Threads : Answers(t) \/ Fails(t)
  \/ \E s \in Sources : Expires(s)

Spec == Init /\ [][Next]_vars

-----------------------------------------------------------------------------
(* Properties *)

\* A strict call never returns an invalid frame (_run_quality_validation).
StrictAnswersAreValid ==
  \A t \in Threads : call[t].strict => call[t].answer # "invalid"
=============================================================================
