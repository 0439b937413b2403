--------------------------- MODULE MemoryArchive ----------------------------
(***************************************************************************)
(* The archive of one symbol's memory events (symbol_memory/archive.py):   *)
(* events are copied to a file whose name is a digest of its content, and  *)
(* a manifest then records their identities. Events are read in the order  *)
(* of their observation times, a page at a time, and an event observed     *)
(* earlier may be recorded later.                                          *)
(***************************************************************************)
EXTENDS Integers, FiniteSets, Sequences

CONSTANTS
  MaxTime,     \* events: one for each observation time in 1..MaxTime
  Page,        \* events read in one query
  MaxCrashes   \* bound of the model

Times == 1..MaxTime

VARIABLES
  events,    \* observation times of the recorded events
  files,     \* the archive files: what each one holds
  manifest,  \* the archived events
  batch,     \* what a running rotation copies; empty outside of one
  step,      \* the steps it has done
  crashes

vars == <<events, files, manifest, batch, step, crashes>>

Init ==
  /\ events = {}
  /\ files = {}
  /\ manifest = {}
  /\ batch = {}
  /\ step = 0
  /\ crashes = 0

\* append_event: evidence carries its own time.
AppendEvent(t) ==
  /\ t \notin events
  /\ events' = events \cup {t}
  /\ UNCHANGED <<files, manifest, batch, step, crashes>>

\* list_events_after reads the events page by page.
PageOf(t) == (Cardinality({u \in events : u <= t}) - 1) \div Page

Pending_AfterLast ==
  {t \in events : (\A a \in manifest : a < t) /\ PageOf(t) = 0}

Pending_WholePage ==
  {t \in events : \E u \in events \ manifest : PageOf(t) = PageOf(u)}

\* _next_pending_events: of the first page with an event that is not archived, those.
Pending ==
  LET open == events \ manifest
  IN  {t \in open : \A u \in open : PageOf(t) <= PageOf(u)}

\* rotate reads the manifest and the events ...
StartRotation ==
  /\ batch = {}
  /\ Pending # {}
  /\ batch' = Pending
  /\ UNCHANGED <<events, files, manifest, step, crashes>>

Steps_ManifestFirst == <<"manifest", "file">>

\* ... writes the file, which replaces one of the same content, and then the manifest.
Steps == <<"file", "manifest">>

WriteNext ==
  /\ batch # {}
  /\ files' = IF Steps[step + 1] = "file" THEN files \cup {batch} ELSE files
  /\ manifest' = IF Steps[step + 1] = "manifest" THEN manifest \cup batch ELSE manifest
  /\ IF step + 1 = Len(Steps) THEN step' = 0 /\ batch' = {} ELSE step' = step + 1 /\ UNCHANGED batch
  /\ UNCHANGED <<events, crashes>>

\* The rotation dies, or a write fails and maintenance goes on with the next symbol.
Interrupt ==
  /\ crashes < MaxCrashes
  /\ batch # {}
  /\ batch' = {}
  /\ step' = 0
  /\ crashes' = crashes + 1
  /\ UNCHANGED <<events, files, manifest>>

Next == (\E t \in Times : AppendEvent(t)) \/ StartRotation \/ WriteNext \/ Interrupt

Spec == Init /\ [][Next]_vars

\* A rotation that began goes on until it ends or is interrupted. That another one
\* begins is not assumed: only `/memory maintain` begins them.
FairSpec == Spec /\ WF_vars(WriteNext)

-----------------------------------------------------------------------------
\* What the manifest calls archived is in a file, wherever a rotation died.
ManifestIsBacked == manifest \subseteq UNION files

\* "no duplicate archive entries are created": without an interruption no event is in
\* two files, whatever arrives between two rotations and in which order.
ArchivedOnce == crashes = 0 => \A f, g \in files : f # g => f \cap g = {}

\* The hypothesis on the user: the maintenance comes back to the symbol while it has
\* events that are not archived.
MaintainedAgain == []<>(Pending = {} \/ batch # {})

\* Under a maintenance that is repeated every event is archived in the end, also one that
\* is observed before others that are archived already, and in whichever page it comes
\* to stand: no event is passed over by all rotations.
EveryEventIsArchived ==
  MaintainedAgain => (events \ manifest # {} ~> events \subseteq manifest)
=============================================================================
