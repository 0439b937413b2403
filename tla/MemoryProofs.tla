---------------------------- MODULE MemoryProofs ----------------------------
(***************************************************************************)
(* Theorems about the symbol memory for all values of the constants: what  *)
(* decides between claims leaves an auditable history and conflicts with   *)
(* two sides, cards and claims are committed together, and retrieval keeps *)
(* to its day, its budgets and its priorities.  The models that MCMemory   *)
(* composes are values of the parameter of one instance of each component. *)
(***************************************************************************)
EXTENDS MCMemory, FiniteSetTheorems, SequenceTheorems, TLAPS

-----------------------------------------------------------------------------
(* Claims.  The lemmas speak of a table st, because a projection sweeps the *)
(* table before it adds to it.                                              *)

\* Dates, authorities and bounds are counted.
Configured(m) ==
  /\ m.dates \subseteq Nat
  /\ m.asOfDates \subseteq Nat
  /\ m.authority \in [DOMAIN m.authority -> Nat]
  /\ m.notes \in BOOLEAN
  /\ m.expiryDays \in Nat
  /\ m.events \in Nat
  /\ m.publications \in Nat

USE DEF Configured

Tables(m) == [Claims(m)!Evidence -> Claims(m)!Statuses \cup {Claims(m)!Absent}]

\* The properties of the theorems, of any table.
Justified(m, st) ==
  \A e \in Claims(m)!Evidence : st[e] = "SUPERSEDED" =>
    \E y \in Claims(m)!Evidence : st[y] # Claims(m)!Absent /\ Claims(m)!Better(y, e)

TwoSided(m, st) ==
  \A e \in Claims(m)!Evidence : st[e] = "CONFLICTED" =>
    \E x \in Claims(m)!Evidence : x # e /\ st[x] = "CONFLICTED" /\ x.date = e.date

\* nt only takes active claims of st out of the active view.
Retired(m, st, nt) ==
  \A x \in Claims(m)!Evidence : nt[x] = st[x] \/ (st[x] = "ACTIVE" /\ nt[x] \in {"EXPIRED", "REJECTED"})

\* Claims that left the active view in st stay out of it in nt.
Kept(m, st, nt) ==
  /\ \A x \in Claims(m)!Evidence : st[x] \in Claims(m)!Final => nt[x] \in Claims(m)!Final
  /\ \A x \in Claims(m)!Evidence : st[x] = "REJECTED" => nt[x] = "REJECTED"

\* A claim's source is known, and its date and authority are numbers.
LEMMA EvidenceFields ==
  ASSUME NEW m, Configured(m), NEW e \in Claims(m)!Evidence
  PROVE  /\ e.source \in DOMAIN m.authority
         /\ e.date \in Nat
         /\ Claims(m)!Auth(e) \in Nat
  BY DEF Claims!Evidence, Claims!Auth

\* accept changes the new claim and the active ones it meets, and nothing else.
LEMMA AcceptFacts ==
  ASSUME NEW m, Configured(m), NEW st \in Tables(m), NEW e \in Claims(m)!Evidence,
         NEW nt \in Claims(m)!Accepted(st, e)
  PROVE  /\ nt \in Tables(m)
         /\ nt[e] \in {"ACTIVE", "CONFLICTED", "SUPERSEDED"}
         /\ nt[e] = "SUPERSEDED" => \E x \in Claims(m)!Active(st) : Claims(m)!Outranks(x, e)
         /\ nt[e] = "CONFLICTED" => \E x \in Claims(m)!Active(st) : Claims(m)!Disputed(x, e)
         /\ nt[e] # "CONFLICTED" =>
              \/ \A x \in Claims(m)!Active(st) : ~ Claims(m)!Disputed(x, e)
              \/ \E x \in Claims(m)!Active(st) : Claims(m)!Outranks(x, e)
         /\ \A x \in Claims(m)!Evidence \ {e} :
              \/ nt[x] = st[x]
              \/ x \in Claims(m)!Active(st) /\ Claims(m)!Outranked(x, e) /\ nt[x] = "SUPERSEDED"
              \/ x \in Claims(m)!Active(st) /\ Claims(m)!Disputed(x, e) /\ nt[x] = "CONFLICTED"
         /\ \A x \in Claims(m)!Evidence \ {e} :
              x \in Claims(m)!Active(st) /\ Claims(m)!Disputed(x, e) => nt[x] = "CONFLICTED"
<1> DEFINE disputed == {x \in Claims(m)!Active(st) : Claims(m)!Disputed(x, e)}
           verdicts == (IF disputed # {} THEN {"CONFLICTED"} ELSE {})
                       \cup (IF \E x \in Claims(m)!Active(st) : Claims(m)!Outranks(x, e) THEN {"SUPERSEDED"} ELSE {})
           choices == IF verdicts = {} THEN {"ACTIVE"} ELSE verdicts
           new(s) == [x \in Claims(m)!Evidence |->
                        IF x = e THEN s
                        ELSE IF x \in Claims(m)!Active(st) /\ Claims(m)!Outranked(x, e) THEN "SUPERSEDED"
                        ELSE IF x \in disputed THEN "CONFLICTED"
                        ELSE st[x]]
<1>1. PICK s \in choices : nt = new(s)
  BY DEF Claims!Accepted
<1>2. choices \subseteq {"ACTIVE", "CONFLICTED", "SUPERSEDED"}
  OBVIOUS
<1>3. "SUPERSEDED" \in choices => \E x \in Claims(m)!Active(st) : Claims(m)!Outranks(x, e)
  OBVIOUS
<1>4. "CONFLICTED" \in choices => \E x \in Claims(m)!Active(st) : Claims(m)!Disputed(x, e)
  OBVIOUS
<1>5. s # "CONFLICTED" => \/ \A x \in Claims(m)!Active(st) : ~ Claims(m)!Disputed(x, e)
                          \/ \E x \in Claims(m)!Active(st) : Claims(m)!Outranks(x, e)
  OBVIOUS
<1>6. \A x \in Claims(m)!Evidence : x \in Claims(m)!Active(st) /\ Claims(m)!Disputed(x, e) =>
        ~ Claims(m)!Outranked(x, e)
  BY EvidenceFields DEF Claims!Disputed, Claims!Outranked
<1> HIDE DEF choices
<1>7. nt \in Tables(m)
  BY <1>1, <1>2 DEF Claims!Statuses, Tables
<1>8. nt[e] = s
  BY <1>1
<1>9. \A x \in Claims(m)!Evidence \ {e} :
        \/ nt[x] = st[x]
        \/ x \in Claims(m)!Active(st) /\ Claims(m)!Outranked(x, e) /\ nt[x] = "SUPERSEDED"
        \/ x \in Claims(m)!Active(st) /\ Claims(m)!Disputed(x, e) /\ nt[x] = "CONFLICTED"
  BY <1>1
<1>10. \A x \in Claims(m)!Evidence \ {e} : x \in Claims(m)!Active(st) /\ Claims(m)!Disputed(x, e) =>
        nt[x] = "CONFLICTED"
  BY <1>1, <1>6
<1> QED
  BY <1>1, <1>2, <1>3, <1>4, <1>5, <1>7, <1>8, <1>9, <1>10

\* What accept supersedes has a better claim, and the new claim is only superseded by one.
LEMMA AcceptJustifies ==
  ASSUME NEW m, Configured(m), NEW st \in Tables(m), Justified(m, st),
         NEW e \in Claims(m)!Evidence, NEW nt \in Claims(m)!Accepted(st, e)
  PROVE  Justified(m, nt)
<1>1. \A x \in Claims(m)!Evidence : st[x] # Claims(m)!Absent => nt[x] # Claims(m)!Absent
  BY AcceptFacts DEF Claims!Absent
<1>2. nt[e] # Claims(m)!Absent
  BY AcceptFacts DEF Claims!Absent
<1>3. SUFFICES ASSUME NEW x \in Claims(m)!Evidence, nt[x] = "SUPERSEDED"
               PROVE  \E y \in Claims(m)!Evidence : nt[y] # Claims(m)!Absent /\ Claims(m)!Better(y, x)
  BY DEF Justified
<1>4. CASE x = e
  <2>1. PICK y \in Claims(m)!Active(st) : Claims(m)!Outranks(y, e)
    BY <1>3, <1>4, AcceptFacts
  <2>2. y \in Claims(m)!Evidence /\ nt[y] # Claims(m)!Absent /\ Claims(m)!Better(y, x)
    BY <1>1, <1>4, <2>1 DEF Claims!Active, Claims!Outranks, Claims!Better, Claims!Absent
  <2> QED
    BY <2>2
<1>5. CASE x # e /\ st[x] = "SUPERSEDED"
  BY <1>1, <1>5 DEF Justified
<1>6. CASE x # e /\ st[x] # "SUPERSEDED"
  <2>1. Claims(m)!Outranked(x, e)
    BY <1>3, <1>6, AcceptFacts
  <2>2. Claims(m)!Better(e, x)
    BY <2>1, EvidenceFields DEF Claims!Outranked, Claims!Better
  <2> QED
    BY <1>2, <2>2
<1> QED
  BY <1>4, <1>5, <1>6

\* A dispute marks both sides when all sources rank alike.
LEMMA AcceptDisputes ==
  ASSUME NEW m, Configured(m), Claims(m)!OneAuthority, NEW st \in Tables(m), TwoSided(m, st),
         NEW e \in Claims(m)!Evidence, st[e] = Claims(m)!Absent, NEW nt \in Claims(m)!Accepted(st, e)
  PROVE  TwoSided(m, nt)
<1>1. \A x \in Claims(m)!Active(st) : x # e
  BY DEF Claims!Active, Claims!Absent
<1>2. \A x \in Claims(m)!Active(st) : ~ Claims(m)!Outranks(x, e)
  <2>1. \A x \in Claims(m)!Active(st) : Claims(m)!Auth(x) = Claims(m)!Auth(e)
    BY EvidenceFields DEF Claims!OneAuthority, Claims!Auth, Claims!Active
  <2> QED
    BY <2>1, EvidenceFields DEF Claims!Outranks, Claims!Active
<1>3. SUFFICES ASSUME NEW x \in Claims(m)!Evidence, nt[x] = "CONFLICTED"
               PROVE  \E y \in Claims(m)!Evidence : y # x /\ nt[y] = "CONFLICTED" /\ y.date = x.date
  BY DEF TwoSided
<1>4. CASE x = e
  <2>1. PICK y \in Claims(m)!Active(st) : Claims(m)!Disputed(y, e)
    BY <1>3, <1>4, AcceptFacts
  <2> QED
    BY <1>1, <1>4, <2>1, AcceptFacts DEF Claims!Active, Claims!Disputed
<1>5. CASE x # e /\ st[x] # "CONFLICTED"
  <2>1. x \in Claims(m)!Active(st) /\ Claims(m)!Disputed(x, e)
    BY <1>3, <1>5, AcceptFacts
  <2>2. nt[e] = "CONFLICTED"
    BY <1>2, <2>1, AcceptFacts
  <2> QED
    BY <1>5, <2>1, <2>2 DEF Claims!Disputed
<1>6. CASE x # e /\ st[x] = "CONFLICTED"
  <2>1. PICK y \in Claims(m)!Evidence : y # x /\ st[y] = "CONFLICTED" /\ y.date = x.date
    BY <1>6 DEF TwoSided
  <2>2. y # e
    BY <2>1 DEF Claims!Absent
  <2>3. nt[y] = st[y]
    BY <2>1, <2>2, AcceptFacts DEF Claims!Active
  <2> QED
    BY <2>1, <2>3
<1> QED
  BY <1>4, <1>5, <1>6

\* accept does not touch what left the active view.
LEMMA AcceptKeeps ==
  ASSUME NEW m, Configured(m), NEW st \in Tables(m), NEW e \in Claims(m)!Evidence,
         st[e] = Claims(m)!Absent, NEW nt \in Claims(m)!Accepted(st, e)
  PROVE  Kept(m, st, nt)
<1>1. \A x \in Claims(m)!Evidence : st[x] \in Claims(m)!Final => nt[x] = st[x]
  BY AcceptFacts DEF Claims!Active, Claims!Final, Claims!Absent
<1> QED
  BY <1>1 DEF Kept, Claims!Final

\* Expiry and invalidation take active claims out of the active view.
LEMMA ExpiredFacts ==
  ASSUME NEW m, Configured(m), NEW st \in Tables(m), NEW asOf
  PROVE  Claims(m)!Expired(st, asOf) \in Tables(m) /\ Retired(m, st, Claims(m)!Expired(st, asOf))
<1>1. Claims(m)!Expired(st, asOf) \in Tables(m)
  BY DEF Claims!Expired, Tables, Claims!Statuses
<1>2. Retired(m, st, Claims(m)!Expired(st, asOf))
  BY DEF Claims!Expired, Retired, Claims!Active
<1> QED
  BY <1>1, <1>2

\* Invalidating only retires claims.
LEMMA InvalidatedFacts ==
  ASSUME NEW m, Configured(m), NEW st \in Tables(m), NEW refs
  PROVE  Claims(m)!Invalidated(st, refs) \in Tables(m) /\ Retired(m, st, Claims(m)!Invalidated(st, refs))
<1>1. Claims(m)!Invalidated(st, refs) \in Tables(m)
  BY DEF Claims!Invalidated, Tables, Claims!Statuses
<1>2. Retired(m, st, Claims(m)!Invalidated(st, refs))
  BY DEF Claims!Invalidated, Retired, Claims!Active
<1> QED
  BY <1>1, <1>2

\* Expiry only retires claims.
LEMMA SweptFacts ==
  ASSUME NEW m, Configured(m), Claims(m)!TypeOK, NEW asOf
  PROVE  Claims(m)!Swept(asOf) \in Tables(m) /\ Retired(m, status, Claims(m)!Swept(asOf))
<1>1. status \in Tables(m)
  BY DEF Claims!TypeOK, Tables
<1> DEFINE mid == Claims(m)!Invalidated(status, Claims(m)!InvalidRefs)
<1>2. mid \in Tables(m) /\ Retired(m, status, mid)
  BY <1>1, InvalidatedFacts
<1> HIDE DEF mid
<1>3. Claims(m)!Expired(mid, asOf) \in Tables(m) /\ Retired(m, mid, Claims(m)!Expired(mid, asOf))
  BY <1>2, ExpiredFacts
<1>4. Retired(m, status, Claims(m)!Expired(mid, asOf))
  BY <1>2, <1>3 DEF Retired
<1> QED
  BY <1>3, <1>4 DEF Claims!Swept, mid

\* Retiring claims spoils none of the properties.
LEMMA RetiredFacts ==
  ASSUME NEW m, Configured(m), NEW st, NEW nt, Retired(m, st, nt)
  PROVE  /\ Justified(m, st) => Justified(m, nt)
         /\ TwoSided(m, st) => TwoSided(m, nt)
         /\ Kept(m, st, nt)
         /\ \A x \in Claims(m)!Evidence : st[x] = Claims(m)!Absent <=> nt[x] = Claims(m)!Absent
<1>1. Justified(m, st) => Justified(m, nt)
  BY DEF Retired, Justified, Claims!Absent
<1>2. TwoSided(m, st) => TwoSided(m, nt)
  BY DEF Retired, TwoSided
<1>3. Kept(m, st, nt)
  BY DEF Retired, Kept, Claims!Final
<1>4. \A x \in Claims(m)!Evidence : st[x] = Claims(m)!Absent <=> nt[x] = Claims(m)!Absent
  BY DEF Retired, Claims!Absent
<1> QED
  BY <1>1, <1>2, <1>3, <1>4

\* Every step sweeps the table (or not) and then takes one evidence (or none), or is a
\* correction.
LEMMA StepFacts ==
  ASSUME NEW m, Configured(m), Claims(m)!TypeOK, [Claims(m)!Next]_(Claims(m)!vars)
  PROVE  \/ \E e \in Claims(m)!Evidence, r \in m.reasons : Claims(m)!Correct(e, r)
         \/ /\ events \subseteq events'
            /\ corrections' = corrections
            /\ \E st \in Tables(m) :
                 /\ Retired(m, status, st)
                 /\ \/ status' = st /\ events' \subseteq Claims(m)!Evidence
                    \/ \E e \in Claims(m)!Evidence : /\ e \notin events
                                           /\ events' = events \cup {e}
                                           /\ status' \in Claims(m)!Accepted(st, e)
<1>1. status \in Tables(m) /\ Retired(m, status, status)
  BY DEF Claims!TypeOK, Tables, Retired
<1>2. CASE \E e \in Claims(m)!Evidence : Claims(m)!Ingest(e)
  BY <1>1, <1>2 DEF Claims!Ingest, Claims!Take, Claims!New, Claims!TypeOK
<1>3. CASE \E asOf \in m.asOfDates : Claims(m)!Expire(asOf)
  BY <1>1, <1>3, ExpiredFacts DEF Claims!Expire, Claims!TypeOK
<1>4. CASE \E s \in DOMAIN m.authority, asOf \in m.dates : Claims(m)!Project(s, asOf)
  <2>1. PICK s \in DOMAIN m.authority, asOf \in m.dates : Claims(m)!Project(s, asOf)
    BY <1>4
  <2> DEFINE st == Claims(m)!Swept(asOf)
  <2>2. st \in Tables(m) /\ Retired(m, status, st)
    BY SweptFacts
  <2>3. /\ corrections' = corrections
        /\ \/ \E e \in Claims(m)!Offered(s, asOf, st) : Claims(m)!Take(st, e)
           \/ status' = st /\ UNCHANGED events
    BY <2>1 DEF Claims!Project
  <2>4. Claims(m)!Offered(s, asOf, st) \subseteq Claims(m)!Evidence
    BY DEF Claims!Offered
  <2> HIDE DEF st
  <2> QED
    BY <2>2, <2>3, <2>4 DEF Claims!Take, Claims!New, Claims!TypeOK
<1>5. CASE \E ref \in Claims(m)!Refs, v \in m.values \cup {Claims(m)!Absent} : Claims(m)!Publish(ref, v)
  BY <1>1, <1>5 DEF Claims!Publish, Claims!TypeOK
<1>6. CASE UNCHANGED Claims(m)!vars
  BY <1>1, <1>6 DEF Claims!vars, Claims!TypeOK
<1> QED
  BY <1>2, <1>3, <1>4, <1>5, <1>6 DEF Claims!Next

\* Publishing writes known values.
LEMMA PersistedType ==
  ASSUME NEW m, Configured(m), Claims(m)!TypeOK, [Claims(m)!Next]_(Claims(m)!vars)
  PROVE  persisted' \in [Claims(m)!Refs -> m.values \cup {Claims(m)!Absent}] /\ publications' \in Nat
<1>1. CASE \E ref \in Claims(m)!Refs, v \in m.values \cup {Claims(m)!Absent} : Claims(m)!Publish(ref, v)
  BY <1>1 DEF Claims!TypeOK, Claims!Publish
<1>2. CASE UNCHANGED <<persisted, publications>>
  BY <1>2 DEF Claims!TypeOK
<1> QED
  BY <1>1, <1>2 DEF Claims!Next, Claims!vars, Claims!Ingest, Claims!Correct, Claims!Expire, Claims!Project

\* A correction changes the status of a claim that exists, and no event.
LEMMA CorrectType ==
  ASSUME NEW m, Configured(m), Claims(m)!TypeOK, NEW e \in Claims(m)!Evidence, NEW r \in m.reasons,
         Claims(m)!Correct(e, r)
  PROVE  /\ status' \in Tables(m)
         /\ \A x \in Claims(m)!Evidence : status'[x] # Claims(m)!Absent <=> status[x] # Claims(m)!Absent
         /\ corrections' \subseteq Claims(m)!Evidence \X m.reasons
         /\ events' = events
<1>1. status' \in Tables(m)
  BY DEF Claims!TypeOK, Claims!Correct, Claims!Statuses, Tables
<1>2. \A x \in Claims(m)!Evidence : status'[x] # Claims(m)!Absent <=> status[x] # Claims(m)!Absent
  BY DEF Claims!TypeOK, Claims!Correct, Claims!Known, Claims!Unresolved, Claims!Absent
<1>3. corrections' \subseteq Claims(m)!Evidence \X m.reasons
  BY DEF Claims!TypeOK, Claims!Correct
<1> QED
  BY <1>1, <1>2, <1>3 DEF Claims!Correct

\* Nothing is known at first.
LEMMA ClaimsBegin ==
  ASSUME NEW m, Configured(m), Claims(m)!Init
  PROVE  Claims(m)!TypeOK /\ Claims(m)!SupersededByBetter /\ Claims(m)!NoLoneConflict
<1>1. Claims(m)!TypeOK
  BY DEF Claims!Init, Claims!TypeOK
<1>2. Claims(m)!SupersededByBetter /\ Claims(m)!NoLoneConflict
  BY DEF Claims!Init, Claims!SupersededByBetter, Claims!NoLoneConflict, Claims!Absent
<1> QED BY <1>1, <1>2

\* The types of the claims are inductive.
LEMMA TypeStep ==
  ASSUME NEW m, Configured(m), Claims(m)!TypeOK, [Claims(m)!Next]_(Claims(m)!vars)
  PROVE  Claims(m)!TypeOK'
<1>1. CASE \E e \in Claims(m)!Evidence, r \in m.reasons : Claims(m)!Correct(e, r)
  BY <1>1, CorrectType, PersistedType DEF Claims!TypeOK, Tables
<1>2. ASSUME events \subseteq events', corrections' = corrections,
             NEW st \in Tables(m), Retired(m, status, st),
             status' = st, events' \subseteq Claims(m)!Evidence
      PROVE  Claims(m)!TypeOK'
  BY <1>2, RetiredFacts, PersistedType DEF Claims!TypeOK, Tables
<1>3. ASSUME corrections' = corrections,
             NEW st \in Tables(m), Retired(m, status, st), NEW e \in Claims(m)!Evidence,
             events' = events \cup {e}, status' \in Claims(m)!Accepted(st, e)
      PROVE  Claims(m)!TypeOK'
  <2>1. status' \in Tables(m)
    BY <1>3, AcceptFacts
  <2>2. \A x \in Claims(m)!Evidence \ {e} : status'[x] # Claims(m)!Absent => st[x] # Claims(m)!Absent
    BY <1>3, AcceptFacts DEF Claims!Active, Claims!Absent
  <2>3. \A x \in Claims(m)!Evidence : status[x] = Claims(m)!Absent <=> st[x] = Claims(m)!Absent
    BY <1>3, RetiredFacts
  <2> QED
    BY <1>3, <2>1, <2>2, <2>3, PersistedType DEF Claims!TypeOK, Tables
<1> QED
  BY <1>1, <1>2, <1>3, StepFacts

\* Every superseded claim keeps a better one, across all actions.
LEMMA SupersededStep ==
  ASSUME NEW m, Configured(m), Claims(m)!TypeOK, Claims(m)!SupersededByBetter,
         [Claims(m)!Next]_(Claims(m)!vars)
  PROVE  Claims(m)!SupersededByBetter'
<1> SUFFICES ASSUME Justified(m, status) PROVE Justified(m, status')
  BY DEF Claims!SupersededByBetter, Justified, Claims!Better, Claims!Auth
<1>1. ASSUME NEW e \in Claims(m)!Evidence, NEW r \in m.reasons, Claims(m)!Correct(e, r)
      PROVE  Justified(m, status')
  <2>1. \A x \in Claims(m)!Evidence : status'[x] = "SUPERSEDED" => status[x] = "SUPERSEDED"
    BY <1>1 DEF Claims!Correct
  <2> QED
    BY <1>1, <2>1, CorrectType DEF Justified
<1>2. ASSUME NEW st \in Tables(m), Retired(m, status, st) PROVE Justified(m, st)
  BY <1>2, RetiredFacts
<1> QED
  BY <1>1, <1>2, StepFacts, AcceptJustifies

\* A resolution takes the last claim of a conflict out of it, and no other.
LEMMA CorrectResolves ==
  ASSUME NEW m, Configured(m), TwoSided(m, status), NEW e \in Claims(m)!Evidence,
         NEW r \in m.reasons, Claims(m)!Correct(e, r)
  PROVE  TwoSided(m, status')
<1>1. SUFFICES ASSUME NEW x \in Claims(m)!Evidence, status'[x] = "CONFLICTED"
               PROVE  \E y \in Claims(m)!Evidence : y # x /\ status'[y] = "CONFLICTED" /\ y.date = x.date
  BY DEF TwoSided
<1>2. \A y \in Claims(m)!Evidence : status'[y] = IF y = e THEN "REJECTED"
                                       ELSE IF Claims(m)!Unresolved(e) = {y} THEN "ACTIVE" ELSE status[y]
  BY DEF Claims!Correct
<1>3. x # e /\ Claims(m)!Unresolved(e) # {x} /\ status[x] = "CONFLICTED"
  BY <1>1, <1>2
<1>4. CASE x.date = e.date
  <2>1. x \in Claims(m)!Unresolved(e)
    BY <1>3, <1>4 DEF Claims!Unresolved
  <2>2. PICK y \in Claims(m)!Unresolved(e) : y # x
    BY <1>3, <2>1
  <2>3. y \in Claims(m)!Evidence /\ y # e /\ status[y] = "CONFLICTED" /\ y.date = x.date
    BY <1>4, <2>2 DEF Claims!Unresolved
  <2>4. Claims(m)!Unresolved(e) # {y}
    BY <2>1, <2>2
  <2> QED
    BY <1>2, <2>2, <2>3, <2>4
<1>5. CASE x.date # e.date
  <2>1. PICK y \in Claims(m)!Evidence : y # x /\ status[y] = "CONFLICTED" /\ y.date = x.date
    BY <1>3 DEF TwoSided
  <2>2. y # e /\ Claims(m)!Unresolved(e) # {y}
    BY <1>5, <2>1 DEF Claims!Unresolved
  <2> QED
    BY <1>2, <2>1, <2>2
<1> QED
  BY <1>4, <1>5

\* Among sources of one authority, a conflict keeps two sides across all actions.
LEMMA ConflictStep ==
  ASSUME NEW m, Configured(m), Claims(m)!OneAuthority, Claims(m)!TypeOK, Claims(m)!NoLoneConflict,
         [Claims(m)!Next]_(Claims(m)!vars)
  PROVE  Claims(m)!NoLoneConflict'
<1> SUFFICES ASSUME TwoSided(m, status) PROVE TwoSided(m, status')
  BY DEF Claims!NoLoneConflict, TwoSided
<1>1. ASSUME NEW e \in Claims(m)!Evidence, NEW r \in m.reasons, Claims(m)!Correct(e, r)
      PROVE  TwoSided(m, status')
  BY <1>1, CorrectResolves
<1>2. ASSUME NEW st \in Tables(m), Retired(m, status, st) PROVE TwoSided(m, st)
  BY <1>2, RetiredFacts
<1>3. ASSUME NEW st \in Tables(m), Retired(m, status, st), NEW e \in Claims(m)!Evidence, e \notin events
      PROVE  st[e] = Claims(m)!Absent
  BY <1>3, RetiredFacts DEF Claims!TypeOK
<1> QED
  BY <1>1, <1>2, <1>3, StepFacts, AcceptDisputes

\* No action drops an event or brings back a claim that was retired for good.
LEMMA HistoryStep ==
  ASSUME NEW m, Configured(m), Claims(m)!TypeOK, [Claims(m)!Next]_(Claims(m)!vars)
  PROVE  [Claims(m)!HistoryStays]_(Claims(m)!vars)
<1> SUFFICES ASSUME Claims(m)!Next PROVE events \subseteq events' /\ Kept(m, status, status')
  BY DEF Kept, Claims!HistoryStays
<1>1. ASSUME NEW e \in Claims(m)!Evidence, NEW r \in m.reasons, Claims(m)!Correct(e, r)
      PROVE  events \subseteq events' /\ Kept(m, status, status')
  BY <1>1 DEF Claims!Correct, Claims!Unresolved, Claims!Final, Claims!TypeOK, Kept
<1>2. ASSUME NEW st \in Tables(m), Retired(m, status, st) PROVE Kept(m, status, st)
  BY <1>2, RetiredFacts
<1>3. ASSUME NEW st \in Tables(m), Retired(m, status, st), NEW e \in Claims(m)!Evidence, e \notin events,
             status' \in Claims(m)!Accepted(st, e)
      PROVE  Kept(m, status, status')
  <2>1. st[e] = Claims(m)!Absent
    BY <1>3, RetiredFacts DEF Claims!TypeOK
  <2>2. Kept(m, st, status')
    BY <1>3, <2>1, AcceptKeeps
  <2> QED
    BY <1>2, <1>3, <2>2 DEF Kept
<1> QED
  BY <1>1, <1>2, <1>3, StepFacts

\* Every claim has the event of its evidence, whatever the operations do to it.
THEOREM TypeCorrect ==
  ASSUME NEW m, Configured(m)
  PROVE  Claims(m)!Spec => []Claims(m)!TypeOK
<1>1. Claims(m)!Init => Claims(m)!TypeOK
  BY ClaimsBegin
<1>2. Claims(m)!TypeOK /\ [Claims(m)!Next]_(Claims(m)!vars) => Claims(m)!TypeOK'
  BY TypeStep
<1> QED BY <1>1, <1>2, PTL DEF Claims!Spec

\* accept supersedes only for a claim that outranks or is newer, and that claim is kept:
\* no evidence ever hides a better one.
THEOREM SupersessionIsJustified ==
  ASSUME NEW m, Configured(m)
  PROVE  Claims(m)!Spec => []Claims(m)!SupersededByBetter
<1>1. Claims(m)!Init => Claims(m)!SupersededByBetter
  BY ClaimsBegin
<1>2. Claims(m)!TypeOK /\ Claims(m)!SupersededByBetter /\ [Claims(m)!Next]_(Claims(m)!vars) =>
        Claims(m)!SupersededByBetter'
  BY SupersededStep
<1> QED BY <1>1, <1>2, TypeCorrect, PTL DEF Claims!Spec

\* For evidence of equal authority a conflict always has two sides: the resolution of one
\* by correction never leaves a claim that nothing disputes out of the active view.
THEOREM ConflictsHaveTwoSides ==
  ASSUME NEW m, Configured(m), Claims(m)!OneAuthority
  PROVE  Claims(m)!Spec => []Claims(m)!NoLoneConflict
<1>1. Claims(m)!Init => Claims(m)!NoLoneConflict
  BY ClaimsBegin
<1>2. Claims(m)!TypeOK /\ Claims(m)!NoLoneConflict /\ [Claims(m)!Next]_(Claims(m)!vars) =>
        Claims(m)!NoLoneConflict'
  BY ConflictStep
<1> QED BY <1>1, <1>2, TypeCorrect, PTL DEF Claims!Spec

\* Nothing observed is forgotten and no claim that left the active view for good comes
\* back: expiry, invalidation and resolution touch only active and disputed claims.
THEOREM HistoryIsAuditable ==
  ASSUME NEW m, Configured(m)
  PROVE  Claims(m)!Spec => [][Claims(m)!HistoryStays]_(Claims(m)!vars)
<1>1. Claims(m)!TypeOK /\ [Claims(m)!Next]_(Claims(m)!vars) => [Claims(m)!HistoryStays]_(Claims(m)!vars)
  BY HistoryStep
<1> QED BY <1>1, TypeCorrect, PTL DEF Claims!Spec

-----------------------------------------------------------------------------
(* Cards.                                                                   *)

\* The bounds are counted.
Bounded(m) ==
  /\ m.updates \in Nat /\ m.cards \in Nat
  /\ m.losses \in Nat /\ m.edits \in Nat
  /\ m.batches \in BOOLEAN

Held == {"locked", "compact", "record", "return"}
Busy == Held \cup {"lock"}
Units == {"none", "update", "compact", "maintain", "batch"}

Row(m) == [claims : 0..m.updates, doc : Files(m)!Cards]

Works(m) == [unit : Units, symbol : m.symbols \cup {"none"}, at : Busy \cup {"idle", "next"},
             prev : Files(m)!Cards, todo : SUBSET m.symbols, doomed : BOOLEAN, failed : SUBSET m.symbols]

CardsTyped(m) ==
  /\ committed \in [m.symbols -> Row(m)]
  /\ working \in [m.symbols -> Row(m)]
  /\ card \in [m.symbols -> Files(m)!Cards]
  /\ lock \in [m.symbols -> {"free", "held", "left"}]
  /\ work \in Works(m)
  /\ written \in 0..m.cards /\ losses \in Nat /\ edits \in Nat

\* What a unit knows at its place.
WorkPlaced(m) ==
  /\ work.at = "idle" => work = Files(m)!Idle /\ working = committed
  /\ work.unit = "none" => work.at = "idle"
  /\ work.at \in Busy => work.symbol \in m.symbols
  /\ work.at = "record" => card[work.symbol].id # 0 /\ card[work.symbol].managed = working[work.symbol].claims

LocksPlaced(m) ==
  \A s \in m.symbols : lock[s] = "held" <=> work.at \in Held /\ s = work.symbol

\* A unit takes up every symbol once, and nothing is done to those it has still to take up.
Fresh(m) ==
  /\ \A s \in work.todo : working[s] = committed[s]
  /\ work.at \in Busy => work.symbol \notin work.todo
  /\ work.at = "lock" => working[work.symbol].doc = committed[work.symbol].doc
  /\ work.at = "lock" /\ work.unit # "maintain" => working[work.symbol] = committed[work.symbol]
  /\ work.unit = "compact" => \A s \in m.symbols : working[s].claims = committed[s].claims

\* Unless the transaction is doomed, claims that changed have their card, or will, or the
\* maintenance that expired them reports their symbol.
Rendered(m) ==
  \A s \in m.symbols :
    working[s].claims # committed[s].claims =>
      \/ work.doomed
      \/ work.unit = "maintain" /\ s \in work.failed
      \/ work.unit = "maintain" /\ work.at \in {"lock", "locked"} /\ s = work.symbol
      \/ work.at \in {"compact", "record"} /\ s = work.symbol
      \/ working[s].doc.managed = working[s].claims

CardsInv(m) == CardsTyped(m) /\ WorkPlaced(m) /\ LocksPlaced(m) /\ Fresh(m) /\ Rendered(m)

\* Nothing runs, or is known of a unit, when the process is idle.
LEMMA IdleWorks ==
  ASSUME NEW m
  PROVE  Files(m)!Idle \in Works(m) /\ Files(m)!NoCard \in Files(m)!Cards
BY DEF Works, Files!Idle, Units, Busy, Held, Files!Cards

\* The invariant of the cards holds at first.
LEMMA CardsInit ==
  ASSUME NEW m, Bounded(m), Files(m)!Init
  PROVE  CardsInv(m)
<1>1. [claims |-> 0, doc |-> Files(m)!NoCard] \in Row(m)
  BY IdleWorks DEF Row, Bounded
<1>2. CardsTyped(m)
  BY IdleWorks, <1>1 DEF Files!Init, CardsTyped, Bounded
<1>3. WorkPlaced(m) /\ LocksPlaced(m) /\ Fresh(m) /\ Rendered(m)
  BY DEF Files!Init, Files!Idle, WorkPlaced, LocksPlaced, Fresh, Rendered, Busy, Held
<1> QED BY <1>2, <1>3 DEF CardsInv

\* The outer transaction begins with what is committed.
LEMMA CardsBegin ==
  ASSUME NEW m, Bounded(m), CardsInv(m), NEW u \in Units \ {"none"}, NEW todo \in SUBSET m.symbols,
         Files(m)!Begin(u, todo)
  PROVE  CardsInv(m)'
<1>1. /\ work' = [unit |-> u, symbol |-> "none", at |-> "next", prev |-> Files(m)!NoCard,
                  todo |-> todo, doomed |-> FALSE, failed |-> {}]
      /\ UNCHANGED <<committed, working, card, lock, written, losses, edits>>
      /\ work.at = "idle"
  BY DEF Files!Begin, Files!Idle
<1>2. working = committed
  BY <1>1 DEF CardsInv, WorkPlaced
<1>3. CardsTyped(m)'
  BY <1>1, IdleWorks DEF CardsInv, CardsTyped, Works
<1>4. WorkPlaced(m)' /\ Fresh(m)' /\ Rendered(m)'
  BY <1>1, <1>2 DEF WorkPlaced, Fresh, Rendered, Busy, Held
<1>5. LocksPlaced(m)'
  BY <1>1 DEF CardsInv, LocksPlaced, Held
<1> QED BY <1>3, <1>4, <1>5 DEF CardsInv

\* A maintenance expires claims of the symbol it takes up, before its card is compacted.
LEMMA CardsPick ==
  ASSUME NEW m, Bounded(m), CardsInv(m), NEW s \in m.symbols, Files(m)!Pick(s)
  PROVE  CardsInv(m)'
<1>1. /\ work' = [work EXCEPT !.at = "lock", !.symbol = s, !.todo = @ \ {s}]
      /\ work.at = "next" /\ s \in work.todo
      /\ UNCHANGED <<committed, card, lock, written, losses, edits>>
  BY DEF Files!Pick, Files!At
<1>2. /\ work' \in Works(m)
      /\ work'.at = "lock" /\ work'.symbol = s /\ work'.todo = work.todo \ {s} /\ work'.unit = work.unit
      /\ work'.failed = work.failed /\ work'.doomed = work.doomed
  BY <1>1 DEF CardsInv, CardsTyped, Works, Busy, Held
<1>3. /\ working' \in [m.symbols -> Row(m)]
      /\ \A r \in m.symbols : r # s => working'[r] = working[r]
      /\ working'[s].doc = working[s].doc
      /\ work.unit # "maintain" => working' = working
  <2>1. CASE UNCHANGED working
    BY <2>1 DEF CardsInv, CardsTyped
  <2>2. CASE /\ work.unit = "maintain" /\ working[s].claims < m.updates
             /\ working' = [working EXCEPT ![s].claims = @ + 1]
    <3>1. working[s] \in Row(m)
      BY DEF CardsInv, CardsTyped
    <3>2. [working[s] EXCEPT !.claims = @ + 1] \in Row(m)
      BY <2>2, <3>1 DEF Row, Bounded
    <3>3. working' = [working EXCEPT ![s] = [working[s] EXCEPT !.claims = @ + 1]]
      BY <2>2
    <3>4. [working[s] EXCEPT !.claims = @ + 1].doc = working[s].doc
      BY <3>1 DEF Row
    <3> QED BY <2>2, <3>2, <3>3, <3>4 DEF CardsInv, CardsTyped
  <2> QED BY <2>1, <2>2 DEF Files!Pick
<1>4. CardsTyped(m)'
  BY <1>1, <1>2, <1>3 DEF CardsInv, CardsTyped
<1>5. WorkPlaced(m)' /\ LocksPlaced(m)'
  BY <1>1, <1>2 DEF CardsInv, WorkPlaced, LocksPlaced, Held
<1>6. Fresh(m)'
  <2>1. working[s] = committed[s] /\ \A r \in work.todo : r \in m.symbols /\ working[r] = committed[r]
    BY <1>1 DEF CardsInv, Fresh, CardsTyped, Works
  <2> QED BY <1>1, <1>2, <1>3, <2>1 DEF CardsInv, Fresh
<1>7. Rendered(m)'
  <2>1. working[s] = committed[s]
    BY <1>1 DEF CardsInv, Fresh
  <2> QED BY <1>1, <1>2, <1>3, <2>1 DEF CardsInv, Rendered
<1> QED BY <1>4, <1>5, <1>6, <1>7 DEF CardsInv

\* Taking the lock of the symbol at hand keeps the invariant of the cards.
LEMMA CardsTake ==
  ASSUME NEW m, Bounded(m), CardsInv(m), Files(m)!TakeLock
  PROVE  CardsInv(m)'
<1>1. /\ work' = [work EXCEPT !.at = "locked", !.prev = card[work.symbol]]
      /\ work.at = "lock" /\ work.symbol \in m.symbols
      /\ lock' = [lock EXCEPT ![work.symbol] = "held"]
      /\ UNCHANGED <<committed, working, card, written, losses, edits>>
  BY DEF Files!TakeLock, Files!At, Files!Current, CardsInv, WorkPlaced, Busy
<1>2. /\ work' \in Works(m)
      /\ work'.at = "locked" /\ work'.symbol = work.symbol /\ work'.todo = work.todo
      /\ work'.unit = work.unit /\ work'.failed = work.failed /\ work'.doomed = work.doomed
  BY <1>1 DEF CardsInv, CardsTyped, Works, Busy, Held
<1>3. CardsTyped(m)'
  BY <1>1, <1>2 DEF CardsInv, CardsTyped
<1>4. WorkPlaced(m)' /\ Fresh(m)'
  BY <1>1, <1>2 DEF CardsInv, WorkPlaced, Fresh, Busy, Held
<1>5. LocksPlaced(m)'
  BY <1>1, <1>2 DEF CardsInv, CardsTyped, LocksPlaced, Held
<1>6. Rendered(m)'
  BY <1>1, <1>2 DEF CardsInv, Rendered
<1> QED BY <1>3, <1>4, <1>5, <1>6 DEF CardsInv

\* A rollback ends what runs.
LEMMA Emptied ==
  ASSUME NEW m, Bounded(m), CardsInv(m), work' = Files(m)!Idle, Files(m)!Rollback
  PROVE  /\ committed' \in [m.symbols -> Row(m)] /\ working' \in [m.symbols -> Row(m)]
         /\ work' \in Works(m)
         /\ WorkPlaced(m)' /\ Fresh(m)' /\ Rendered(m)'
<1> USE DEF Files!Rollback
<1>1. committed' \in [m.symbols -> Row(m)] /\ working' \in [m.symbols -> Row(m)]
  BY DEF CardsInv, CardsTyped
<1>2. WorkPlaced(m)' /\ Fresh(m)' /\ Rendered(m)'
  BY DEF WorkPlaced, Fresh, Rendered, Busy, Held, Files!Idle
<1> QED BY <1>1, <1>2, IdleWorks

\* A lock left behind ends a stage with its transaction, and a command with what it did.
LEMMA CardsContention ==
  ASSUME NEW m, Bounded(m), CardsInv(m), Files(m)!Contention
  PROVE  CardsInv(m)'
<1>0. /\ work.at = "lock" /\ work.symbol \in m.symbols
      /\ UNCHANGED <<card, lock, written, losses, edits>>
  BY DEF Files!Contention, Files!At, CardsInv, WorkPlaced, Busy
<1>1. CASE work.unit = "batch"
  <2>1. work' = Files(m)!Idle /\ Files(m)!Rollback
    BY <1>1 DEF Files!Contention
  <2>2. CardsTyped(m)'
    BY <1>0, <2>1, Emptied DEF CardsInv, CardsTyped
  <2>3. LocksPlaced(m)'
    BY <1>0, <2>1 DEF CardsInv, LocksPlaced, Files!Idle, Held
  <2> QED BY <2>1, <2>2, <2>3, Emptied DEF CardsInv
<1>2. CASE work.unit # "batch"
  <2>1. /\ work' = [work EXCEPT !.at = "next", !.symbol = "none", !.todo = {},
                                !.failed = @ \cup {work.symbol} \cup work.todo]
        /\ UNCHANGED <<committed, working>>
    BY <1>2 DEF Files!Contention, Files!Current
  <2>2. /\ work' \in Works(m)
        /\ work'.at = "next" /\ work'.todo = {} /\ work'.unit = work.unit /\ work'.doomed = work.doomed
        /\ work.failed \subseteq work'.failed /\ work.symbol \in work'.failed
    BY <1>0, <2>1 DEF CardsInv, CardsTyped, Works
  <2>3. CardsTyped(m)' /\ WorkPlaced(m)' /\ LocksPlaced(m)' /\ Fresh(m)'
    BY <1>0, <2>1, <2>2 DEF CardsInv, CardsTyped, WorkPlaced, LocksPlaced, Fresh, Busy, Held
  <2>4. Rendered(m)'
    BY <1>0, <2>1, <2>2 DEF CardsInv, Rendered
  <2> QED BY <2>3, <2>4 DEF CardsInv
<1> QED BY <1>1, <1>2

\* Changing the claims of the symbol at hand keeps the invariant of the cards.
LEMMA CardsMutate ==
  ASSUME NEW m, Bounded(m), CardsInv(m), Files(m)!Mutate
  PROVE  CardsInv(m)'
<1>0. /\ work.symbol \in m.symbols /\ work.at = "locked"
      /\ work' = [work EXCEPT !.at = "compact"]
      /\ UNCHANGED <<committed, card, lock, written, losses, edits>>
      /\ \/ UNCHANGED working
         \/ /\ working[work.symbol].claims < m.updates /\ work.unit \in {"update", "batch"}
            /\ working' = [working EXCEPT ![work.symbol].claims = @ + 1]
  BY DEF Files!Mutate, Files!At, Files!Current, CardsInv, WorkPlaced, Busy, Held
<1>1. /\ work' \in Works(m)
      /\ work'.at = "compact" /\ work'.symbol = work.symbol /\ work'.todo = work.todo
      /\ work'.unit = work.unit /\ work'.failed = work.failed /\ work'.doomed = work.doomed
  BY <1>0 DEF CardsInv, CardsTyped, Works, Busy, Held
<1>2. /\ working' \in [m.symbols -> Row(m)]
      /\ \A s \in m.symbols : s # work.symbol => working'[s] = working[s]
      /\ work.unit \notin {"update", "batch"} => working' = working
  <2>1. CASE UNCHANGED working
    BY <2>1 DEF CardsInv, CardsTyped
  <2>2. CASE /\ working[work.symbol].claims < m.updates /\ work.unit \in {"update", "batch"}
             /\ working' = [working EXCEPT ![work.symbol].claims = @ + 1]
    <3>1. working[work.symbol] \in Row(m)
      BY <1>0 DEF CardsInv, CardsTyped
    <3>2. [working[work.symbol] EXCEPT !.claims = @ + 1] \in Row(m)
      BY <2>2, <3>1 DEF Row, Bounded
    <3> QED BY <1>0, <2>2, <3>2 DEF CardsInv, CardsTyped
  <2> QED BY <1>0, <2>1, <2>2
<1>3. CardsTyped(m)'
  BY <1>0, <1>1, <1>2 DEF CardsInv, CardsTyped
<1>4. WorkPlaced(m)' /\ LocksPlaced(m)'
  BY <1>0, <1>1 DEF CardsInv, WorkPlaced, LocksPlaced, Held
<1>5. Fresh(m)'
  <2>1. work.symbol \notin work.todo /\ work.todo \subseteq m.symbols
    BY <1>0 DEF CardsInv, Fresh, CardsTyped, Works, Busy, Held
  <2> QED BY <1>0, <1>1, <1>2, <2>1 DEF CardsInv, Fresh
<1>6. Rendered(m)'
  BY <1>0, <1>1, <1>2 DEF CardsInv, Rendered
<1> QED BY <1>3, <1>4, <1>5, <1>6 DEF CardsInv

\* Rendering the card of the symbol at hand keeps the invariant of the cards.
LEMMA CardsWrite ==
  ASSUME NEW m, Bounded(m), CardsInv(m), Files(m)!WriteCard
  PROVE  CardsInv(m)'
<1>0. work.symbol \in m.symbols /\ work.at = "compact"
  BY DEF CardsInv, WorkPlaced, Busy, Held, Files!WriteCard, Files!At
<1>1. work' = [work EXCEPT !.at = "record"] \/ work' = [work EXCEPT !.at = "return"]
  BY DEF Files!WriteCard
<1>2. work' \in Works(m)
  BY <1>1 DEF CardsInv, CardsTyped, Works, Busy, Held
<1>3. /\ work'.symbol = work.symbol /\ work'.doomed = work.doomed /\ work'.unit = work.unit
      /\ work'.todo = work.todo /\ work'.failed = work.failed
      /\ work'.at \in {"record", "return"}
  BY <1>1 DEF CardsInv, CardsTyped, Works
<1>4. UNCHANGED <<committed, working, lock, losses, edits>>
  BY DEF Files!WriteCard
<1>5. Fresh(m)' /\ LocksPlaced(m)'
  BY <1>0, <1>3, <1>4 DEF CardsInv, Fresh, LocksPlaced, Busy, Held
<1>6. CASE work'.at = "record"
  <2>1. /\ written < m.cards /\ written' = written + 1
        /\ card' = [card EXCEPT ![work.symbol] = [id |-> written + 1, managed |-> working[work.symbol].claims,
                                                  text |-> "sound"]]
    BY <1>6, <1>1 DEF Files!WriteCard, Files!Current, CardsInv, CardsTyped, Works
  <2> DEFINE new == [id |-> written + 1, managed |-> working[work.symbol].claims, text |-> "sound"]
  <2>2. working[work.symbol].claims \in 0..m.updates /\ written + 1 \in 1..m.cards
    BY <1>0, <2>1 DEF CardsInv, CardsTyped, Row, Bounded
  <2>3. new \in Files(m)!Cards /\ new.id # 0 /\ new.managed = working[work.symbol].claims
    BY <2>2 DEF Files!Cards, CardsInv, CardsTyped
  <2>4. card' = [card EXCEPT ![work.symbol] = new]
    BY <2>1
  <2> HIDE DEF new
  <2>5. card' \in [m.symbols -> Files(m)!Cards] /\ card'[work.symbol] = new
    BY <1>0, <2>3, <2>4 DEF CardsInv, CardsTyped
  <2>6. CardsTyped(m)'
    BY <1>2, <1>4, <2>1, <2>2, <2>5 DEF CardsInv, CardsTyped, Bounded
  <2>7. WorkPlaced(m)'
    BY <1>0, <1>3, <1>4, <1>6, <2>3, <2>5 DEF CardsInv, WorkPlaced
  <2>8. Rendered(m)'
    BY <1>0, <1>3, <1>4, <1>6 DEF CardsInv, Rendered
  <2> QED BY <1>5, <2>6, <2>7, <2>8 DEF CardsInv
<1>7. CASE work'.at = "return"
  <2>1. UNCHANGED <<card, written>> /\ ~ Files(m)!Changed
    BY <1>7, <1>1 DEF Files!WriteCard, CardsInv, CardsTyped, Works
  <2>2. working[work.symbol].doc.managed = working[work.symbol].claims
    BY <2>1 DEF Files!Changed, Files!Current
  <2>3. CardsTyped(m)'
    BY <1>2, <1>4, <2>1 DEF CardsInv, CardsTyped
  <2>4. WorkPlaced(m)'
    BY <1>0, <1>3, <1>7 DEF CardsInv, WorkPlaced
  <2>5. Rendered(m)'
    BY <1>0, <1>3, <1>4, <2>2 DEF CardsInv, Rendered
  <2> QED BY <1>5, <2>3, <2>4, <2>5 DEF CardsInv
<1> QED BY <1>3, <1>6, <1>7

\* Recording the card's digest makes up for the changed claims.
LEMMA CardsRecord ==
  ASSUME NEW m, Bounded(m), CardsInv(m), Files(m)!Record
  PROVE  CardsInv(m)'
<1>0. /\ work.symbol \in m.symbols /\ work.at = "record"
      /\ card[work.symbol].id # 0 /\ card[work.symbol].managed = working[work.symbol].claims
  BY DEF CardsInv, WorkPlaced, Busy, Held, Files!Record, Files!At
<1> DEFINE doc == [card[work.symbol] EXCEPT !.text = "sound"]
<1>1. doc \in Files(m)!Cards /\ doc.managed = working[work.symbol].claims
  <2>1. card[work.symbol] \in Files(m)!Cards \ {Files(m)!NoCard}
    BY <1>0 DEF CardsInv, CardsTyped, Files!NoCard
  <2>2. card[work.symbol] \in [id : 1..m.cards, managed : 0..m.updates, text : {"sound", "edited", "malformed"}]
    BY <2>1 DEF Files!Cards
  <2> QED BY <1>0, <2>2 DEF Files!Cards
<1>2. /\ work' = [work EXCEPT !.at = "return"]
      /\ working' = [working EXCEPT ![work.symbol].doc = doc]
      /\ UNCHANGED <<committed, card, lock, written, losses, edits>>
  BY DEF Files!Record, Files!Current
<1> HIDE DEF doc
<1>3. /\ work' \in Works(m)
      /\ work'.symbol = work.symbol /\ work'.doomed = work.doomed /\ work'.unit = work.unit
      /\ work'.todo = work.todo /\ work'.failed = work.failed
      /\ work'.at = "return"
  BY <1>2 DEF CardsInv, CardsTyped, Works, Busy, Held
<1>4. /\ working' \in [m.symbols -> Row(m)]
      /\ working'[work.symbol].doc = doc /\ working'[work.symbol].claims = working[work.symbol].claims
      /\ \A s \in m.symbols : s # work.symbol => working'[s] = working[s]
  <2>1. working[work.symbol] \in Row(m)
    BY <1>0 DEF CardsInv, CardsTyped
  <2>2. [working[work.symbol] EXCEPT !.doc = doc] \in Row(m)
    BY <1>1, <2>1 DEF Row
  <2>3. working' = [working EXCEPT ![work.symbol] = [working[work.symbol] EXCEPT !.doc = doc]]
    BY <1>2
  <2>4. working'[work.symbol] = [working[work.symbol] EXCEPT !.doc = doc]
    BY <1>0, <2>3 DEF CardsInv, CardsTyped
  <2> QED BY <1>0, <2>1, <2>2, <2>3, <2>4 DEF CardsInv, CardsTyped, Row
<1>5. CardsTyped(m)'
  BY <1>2, <1>3, <1>4 DEF CardsInv, CardsTyped
<1>6. WorkPlaced(m)' /\ LocksPlaced(m)'
  BY <1>0, <1>2, <1>3 DEF CardsInv, WorkPlaced, LocksPlaced, Held
<1>7. Fresh(m)'
  <2>1. work.symbol \notin work.todo /\ work.todo \subseteq m.symbols
    BY <1>0 DEF CardsInv, Fresh, CardsTyped, Works, Busy, Held
  <2>2. \A s \in m.symbols : working'[s].claims = working[s].claims
    BY <1>4
  <2> QED BY <1>2, <1>3, <1>4, <2>1, <2>2 DEF CardsInv, Fresh
<1>8. Rendered(m)'
  BY <1>0, <1>1, <1>2, <1>3, <1>4 DEF CardsInv, Rendered
<1> QED BY <1>5, <1>6, <1>7, <1>8 DEF CardsInv

\* The lock of the symbol at hand is removed.
LEMMA Unlocked ==
  ASSUME NEW m, CardsInv(m), work.at \in Held, lock' = [lock EXCEPT ![work.symbol] = "free"]
  PROVE  lock' \in [m.symbols -> {"free", "held", "left"}] /\ \A s \in m.symbols : lock'[s] # "held"
BY DEF CardsInv, CardsTyped, LocksPlaced

\* The unit goes on.
LEMMA Proceeds ==
  ASSUME NEW m, CardsInv(m)
  PROVE  /\ Files(m)!Onward \in Works(m)
         /\ Files(m)!Onward.at = "next" /\ Files(m)!Onward.todo = work.todo
         /\ Files(m)!Onward.unit = work.unit /\ Files(m)!Onward.failed = work.failed
         /\ Files(m)!Onward.doomed = work.doomed
BY IdleWorks DEF CardsInv, CardsTyped, Works, Files!Onward

\* The unit leaves a symbol whose card is recorded.
LEMMA CardsReturn ==
  ASSUME NEW m, Bounded(m), CardsInv(m), Files(m)!Return
  PROVE  CardsInv(m)'
<1>0. /\ work.symbol \in m.symbols /\ work.at = "return"
      /\ lock' = [lock EXCEPT ![work.symbol] = "free"]
      /\ work' = Files(m)!Onward
      /\ UNCHANGED <<committed, working, card, written, losses, edits>>
  BY DEF CardsInv, WorkPlaced, Busy, Held, Files!Return, Files!At, Files!LockAfter, Files!Current
<1>1. lock' \in [m.symbols -> {"free", "held", "left"}] /\ \A s \in m.symbols : lock'[s] # "held"
  BY <1>0, Unlocked DEF Held
<1>2. CardsTyped(m)'
  BY <1>0, <1>1, Proceeds DEF CardsInv, CardsTyped
<1>3. WorkPlaced(m)' /\ LocksPlaced(m)' /\ Fresh(m)'
  BY <1>0, <1>1, Proceeds DEF CardsInv, WorkPlaced, LocksPlaced, Fresh, Busy, Held
<1>4. Rendered(m)'
  BY <1>0, Proceeds DEF CardsInv, Rendered
<1> QED BY <1>2, <1>3, <1>4 DEF CardsInv

\* A failure restores the card, and dooms the transaction around or restores the record.
LEMMA CardsFail ==
  ASSUME NEW m, Bounded(m), CardsInv(m), Files(m)!Fail
  PROVE  CardsInv(m)'
<1>0. /\ work.symbol \in m.symbols /\ work.at \in Busy /\ work.symbol \notin work.todo
      /\ UNCHANGED <<committed, written, losses, edits>>
  BY DEF CardsInv, WorkPlaced, Fresh, Busy, Held, Files!Fail
<1>1. lock' \in [m.symbols -> {"free", "held", "left"}] /\ \A s \in m.symbols : lock'[s] # "held"
  <2>1. CASE work.at = "lock"
    BY <2>1 DEF Files!Fail, Files!At, CardsInv, CardsTyped, LocksPlaced, Held
  <2>2. CASE work.at \in Held
    BY <2>2, Unlocked DEF Files!Fail, Files!At, Files!LockAfter, Files!Current, Held
  <2> QED BY <1>0, <2>1, <2>2 DEF Busy
<1>2. card' \in [m.symbols -> Files(m)!Cards]
  <2>1. card' = card \/ card' = [card EXCEPT ![work.symbol] = work.prev]
    BY DEF Files!Fail, Files!Current, Files!Restored
  <2>2. work.prev \in Files(m)!Cards
    BY DEF CardsInv, CardsTyped, Works
  <2> QED BY <1>0, <2>1, <2>2 DEF CardsInv, CardsTyped
<1>3. /\ work' \in Works(m)
      /\ work'.at = "next" /\ work'.todo = work.todo /\ work'.unit = work.unit
      /\ work'.doomed = (work.doomed \/ Files(m)!Nested)
      /\ work'.failed = IF work.unit = "maintain" THEN work.failed \cup {work.symbol} ELSE work.failed
  <2>1. work' = [Files(m)!Onward EXCEPT !.doomed = IF Files(m)!Nested THEN TRUE ELSE @,
                                        !.failed = Files(m)!Reported]
    BY DEF Files!Fail, Files!Doomed
  <2>2. Files(m)!Reported \in SUBSET m.symbols
    BY <1>0 DEF Files!Reported, Files!Current, CardsInv, CardsTyped, Works
  <2>3. work.doomed \in BOOLEAN
    BY DEF CardsInv, CardsTyped, Works
  <2> QED BY <2>1, <2>2, <2>3, Proceeds DEF Works, Files!Reported, Files!Current
<1>4. /\ working' \in [m.symbols -> Row(m)]
      /\ \A s \in m.symbols : s # work.symbol => working'[s] = working[s]
      /\ \A s \in m.symbols : working'[s].claims = working[s].claims
  <2>1. CASE Files(m)!Nested
    BY <2>1 DEF Files!Fail, CardsInv, CardsTyped
  <2>2. CASE ~ Files(m)!Nested
    <3>1. working' = [working EXCEPT ![work.symbol].doc = committed[work.symbol].doc]
      BY <2>2 DEF Files!Fail, Files!Current
    <3>2. working[work.symbol] \in Row(m) /\ committed[work.symbol].doc \in Files(m)!Cards
      BY <1>0 DEF CardsInv, CardsTyped, Row
    <3> DEFINE row == [working[work.symbol] EXCEPT !.doc = committed[work.symbol].doc]
    <3>3. row \in Row(m) /\ row.claims = working[work.symbol].claims
      BY <3>2 DEF Row
    <3>4. working' = [working EXCEPT ![work.symbol] = row]
      BY <3>1
    <3> HIDE DEF row
    <3> QED BY <1>0, <3>3, <3>4 DEF CardsInv, CardsTyped
  <2> QED BY <2>1, <2>2
<1>5. CardsTyped(m)'
  BY <1>0, <1>1, <1>2, <1>3, <1>4 DEF CardsInv, CardsTyped
<1>6. WorkPlaced(m)' /\ LocksPlaced(m)'
  <2>1. work'.unit # "none"
    BY <1>0, <1>3 DEF CardsInv, WorkPlaced, Busy, Held
  <2> QED BY <1>1, <1>3, <2>1 DEF WorkPlaced, LocksPlaced, Busy, Held
<1>7. Fresh(m)'
  <2>1. work.todo \subseteq m.symbols
    BY DEF CardsInv, CardsTyped, Works
  <2> QED BY <1>0, <1>3, <1>4, <2>1 DEF CardsInv, Fresh, Busy, Held
<1>8. Rendered(m)'
  <2>1. ASSUME NEW s \in m.symbols, working'[s].claims # committed'[s].claims, ~ work'.doomed,
               ~ (work'.unit = "maintain" /\ s \in work'.failed)
        PROVE  working'[s].doc.managed = working'[s].claims
    <3>1. working[s].claims # committed[s].claims /\ ~ work.doomed /\ ~ Files(m)!Nested
      BY <1>0, <1>3, <1>4, <2>1
    <3>2. s # work.symbol
      <4>1. work.unit # "compact"
        BY <3>1 DEF CardsInv, Fresh
      <4>2. CASE work.unit = "maintain"
        BY <1>3, <2>1, <4>2
      <4>3. CASE work.unit # "maintain" /\ work.at = "lock"
        BY <3>1, <4>3 DEF CardsInv, Fresh
      <4>4. CASE work.unit = "none"
        BY <1>0, <4>4 DEF CardsInv, WorkPlaced, Busy, Held
      <4>5. work.unit \in Units
        BY DEF CardsInv, CardsTyped, Works
      <4> QED BY <3>1, <4>1, <4>2, <4>3, <4>4, <4>5 DEF Files!Nested, Files!At, Units
    <3>3. working[s].doc.managed = working[s].claims
      BY <1>3, <2>1, <3>1, <3>2 DEF CardsInv, Rendered
    <3> QED BY <1>4, <3>2, <3>3
  <2> QED BY <2>1 DEF Rendered
<1> QED BY <1>5, <1>6, <1>7, <1>8 DEF CardsInv

\* The end of the outer transaction commits claims with their cards, or nothing.
LEMMA CardsEnd ==
  ASSUME NEW m, Bounded(m), CardsInv(m), Files(m)!EndUnit
  PROVE  CardsInv(m)'
<1>0. work.at = "next" /\ work' = Files(m)!Idle /\ UNCHANGED <<card, lock, written, losses, edits>>
  BY DEF Files!EndUnit, Files!At
<1>1. LocksPlaced(m)'
  BY <1>0 DEF CardsInv, LocksPlaced, Files!Idle, Held
<1>2. CASE work.doomed
  <2>1. Files(m)!Rollback
    BY <1>2 DEF Files!EndUnit
  <2> QED BY <1>0, <1>1, <2>1, Emptied DEF CardsInv, CardsTyped
<1>3. CASE ~ work.doomed
  <2>1. committed' = working /\ working' = working
    BY <1>3 DEF Files!EndUnit, Files!Commit
  <2>2. WorkPlaced(m)' /\ Fresh(m)' /\ Rendered(m)'
    BY <1>0, <2>1 DEF Files!Idle, WorkPlaced, Fresh, Rendered, Busy, Held
  <2> QED BY <1>0, <1>1, <2>1, <2>2, IdleWorks DEF CardsInv, CardsTyped
<1> QED BY <1>2, <1>3

\* A failure that comes late, and the death of the process, roll back.
LEMMA CardsLoss ==
  ASSUME NEW m, Bounded(m), CardsInv(m), Files(m)!LateFail \/ Files(m)!Crash
  PROVE  CardsInv(m)'
<1>1. /\ work' = Files(m)!Idle /\ Files(m)!Rollback /\ UNCHANGED <<card, written, edits>>
      /\ losses' = losses + 1
  BY DEF Files!Crash, Files!LateFail
<1>2. lock' \in [m.symbols -> {"free", "held", "left"}] /\ \A s \in m.symbols : lock'[s] # "held"
  <2>1. CASE Files(m)!LateFail
    BY <2>1 DEF Files!LateFail, Files!At, CardsInv, CardsTyped, LocksPlaced, Held
  <2>2. CASE Files(m)!Crash
    <3>1. lock' = [s \in m.symbols |-> IF lock[s] = "held" THEN "left" ELSE lock[s]]
      BY <2>2 DEF Files!Crash
    <3> QED BY <3>1 DEF CardsInv, CardsTyped
  <2> QED BY <2>1, <2>2
<1>3. CardsTyped(m)'
  BY <1>1, <1>2, Emptied DEF CardsInv, CardsTyped
<1>4. LocksPlaced(m)'
  BY <1>1, <1>2 DEF LocksPlaced, Files!Idle, Held
<1> QED BY <1>1, <1>3, <1>4, Emptied DEF CardsInv

\* The lock of a dead process that is removed keeps the invariant of the cards.
LEMMA CardsAge ==
  ASSUME NEW m, Bounded(m), CardsInv(m), NEW s \in m.symbols, Files(m)!Age(s)
  PROVE  CardsInv(m)'
<1> USE DEF Files!Age
<1>1. CardsTyped(m)' /\ LocksPlaced(m)'
  BY DEF CardsInv, CardsTyped, LocksPlaced
<1>2. WorkPlaced(m)' /\ Fresh(m)' /\ Rendered(m)'
  BY DEF CardsInv, WorkPlaced, Fresh, Rendered
<1> QED BY <1>1, <1>2 DEF CardsInv

\* A user's edit of a card keeps the invariant of the cards.
LEMMA CardsEdit ==
  ASSUME NEW m, Bounded(m), CardsInv(m), NEW s \in m.symbols, NEW t \in {"edited", "malformed"},
         Files(m)!Edit(s, t)
  PROVE  CardsInv(m)'
<1> DEFINE new == [card[s] EXCEPT !.text = t]
<1>1. new \in Files(m)!Cards /\ new.id = card[s].id /\ new.managed = card[s].managed
  <2>1. card[s] \in [id : 1..m.cards, managed : 0..m.updates, text : {"sound", "edited", "malformed"}]
    BY DEF CardsInv, CardsTyped, Files!Cards, Files!Edit
  <2> QED BY <2>1 DEF Files!Cards
<1>2. /\ card' = [card EXCEPT ![s] = new] /\ edits' = edits + 1
      /\ UNCHANGED <<committed, working, lock, work, written, losses>>
  BY DEF Files!Edit
<1> HIDE DEF new
<1>3. CardsTyped(m)'
  BY <1>1, <1>2 DEF CardsInv, CardsTyped
<1>4. \A r \in m.symbols : card'[r].id = card[r].id /\ card'[r].managed = card[r].managed
  BY <1>1, <1>2 DEF CardsInv, CardsTyped
<1>5. WorkPlaced(m)'
  BY <1>2, <1>4 DEF CardsInv, WorkPlaced, Busy, Held
<1>6. LocksPlaced(m)' /\ Fresh(m)' /\ Rendered(m)'
  BY <1>2 DEF CardsInv, LocksPlaced, Fresh, Rendered
<1> QED BY <1>3, <1>5, <1>6 DEF CardsInv

\* A card is quarantined, or adopted.
LEMMA CardsRepair ==
  ASSUME NEW m, Bounded(m), CardsInv(m), NEW s \in m.symbols, Files(m)!Repair(s)
  PROVE  CardsInv(m)'
<1>0. work = Files(m)!Idle /\ UNCHANGED <<lock, work, written, losses, edits>>
  BY DEF Files!Repair
<1>1. working = committed
  BY <1>0 DEF CardsInv, WorkPlaced, Files!Idle
<1>2. CASE card' = [card EXCEPT ![s] = Files(m)!NoCard] /\ UNCHANGED <<committed, working>>
  <2>1. CardsTyped(m)'
    BY <1>0, <1>2, IdleWorks DEF CardsInv, CardsTyped
  <2>2. WorkPlaced(m)' /\ LocksPlaced(m)' /\ Fresh(m)' /\ Rendered(m)'
    BY <1>0, <1>2 DEF CardsInv, WorkPlaced, LocksPlaced, Fresh, Rendered, Files!Idle, Busy, Held
  <2> QED BY <2>1, <2>2 DEF CardsInv
<1>3. CASE committed' = [committed EXCEPT ![s].doc = card[s]] /\ working' = committed' /\ UNCHANGED card
  <2>1. committed' \in [m.symbols -> Row(m)]
    <3>1. committed[s] \in Row(m) /\ card[s] \in Files(m)!Cards
      BY DEF CardsInv, CardsTyped
    <3>2. [committed[s] EXCEPT !.doc = card[s]] \in Row(m)
      BY <3>1 DEF Row
    <3>3. committed' = [committed EXCEPT ![s] = [committed[s] EXCEPT !.doc = card[s]]]
      BY <1>3
    <3> QED BY <3>2, <3>3 DEF CardsInv, CardsTyped
  <2>2. CardsTyped(m)'
    BY <1>0, <1>3, <2>1 DEF CardsInv, CardsTyped
  <2>3. WorkPlaced(m)' /\ LocksPlaced(m)' /\ Fresh(m)' /\ Rendered(m)'
    BY <1>0, <1>3 DEF CardsInv, WorkPlaced, LocksPlaced, Fresh, Rendered, Files!Idle, Busy, Held
  <2> QED BY <2>2, <2>3 DEF CardsInv
<1> QED BY <1>2, <1>3 DEF Files!Repair

\* Which step of the cards is taken.
LEMMA CardsCases ==
  ASSUME NEW m, Files(m)!Next
  PROVE  \/ \E u \in Units \ {"none"}, todo \in SUBSET m.symbols :
              /\ Files(m)!Begin(u, todo) /\ (u = "batch" => m.batches)
              /\ u = "update" => \E s \in m.symbols : todo = {s}
         \/ \E s \in m.symbols : Files(m)!Pick(s)
         \/ Files(m)!TakeLock \/ Files(m)!Contention \/ Files(m)!Mutate \/ Files(m)!WriteCard
         \/ Files(m)!Record \/ Files(m)!Return \/ Files(m)!Fail \/ Files(m)!EndUnit
         \/ Files(m)!LateFail \/ Files(m)!Crash
         \/ \E s \in m.symbols : Files(m)!Age(s)
         \/ \E s \in m.symbols, t \in {"edited", "malformed"} : Files(m)!Edit(s, t)
         \/ \E s \in m.symbols : Files(m)!Repair(s)
<1>1. ASSUME NEW u \in {"update", "compact"}, NEW s \in m.symbols, Files(m)!Begin(u, {s})
      PROVE  \E v \in Units \ {"none"}, todo \in SUBSET m.symbols :
               /\ Files(m)!Begin(v, todo) /\ (v = "batch" => m.batches)
               /\ v = "update" => \E r \in m.symbols : todo = {r}
  <2>1. u \in Units \ {"none"} /\ {s} \in SUBSET m.symbols /\ u # "batch"
    BY DEF Units
  <2> QED BY <1>1, <2>1
<1>2. ASSUME Files(m)!Begin("maintain", m.symbols) \/ (m.batches /\ Files(m)!Begin("batch", m.symbols))
      PROVE  \E v \in Units \ {"none"}, todo \in SUBSET m.symbols :
               /\ Files(m)!Begin(v, todo) /\ (v = "batch" => m.batches)
               /\ v = "update" => \E r \in m.symbols : todo = {r}
  <2>1. "maintain" \in Units \ {"none"} /\ "batch" \in Units \ {"none"} /\ m.symbols \in SUBSET m.symbols
    BY DEF Units
  <2> QED BY <1>2, <2>1
<1> QED BY <1>1, <1>2 DEF Files!Next

\* The invariant of the cards is inductive.
LEMMA CardsStep ==
  ASSUME NEW m, Bounded(m), CardsInv(m), [Files(m)!Next]_(Files(m)!vars)
  PROVE  CardsInv(m)'
<1>1. CASE UNCHANGED Files(m)!vars
  BY <1>1 DEF Files!vars, CardsInv, CardsTyped, WorkPlaced, LocksPlaced, Fresh, Rendered
<1>2. CASE Files(m)!Next
  BY <1>2, CardsCases, CardsBegin, CardsPick, CardsTake, CardsContention, CardsMutate, CardsWrite,
     CardsRecord, CardsReturn, CardsFail, CardsEnd, CardsLoss, CardsAge, CardsEdit, CardsRepair
<1> QED BY <1>1, <1>2

\* It types the state as the specification does.
LEMMA CardsTypes ==
  ASSUME NEW m, CardsInv(m)
  PROVE  Files(m)!TypeOK
<1>1. work = Files(m)!Idle => working = committed
  BY DEF CardsInv, WorkPlaced, Files!Idle
<1> QED BY <1>1 DEF CardsInv, CardsTyped, LocksPlaced, Files!TypeOK, Files!Current, Row, Held

\* What a commit publishes has its card, or is reported.
LEMMA CommitStep ==
  ASSUME NEW m, Bounded(m), CardsInv(m), [Files(m)!Next]_(Files(m)!vars), NEW s \in m.symbols
  PROVE  Files(m)!CommitsDocument(s)
<1> USE DEF Files!CommitsDocument
<1>1. CASE UNCHANGED committed
  BY <1>1
<1>2. CASE Files(m)!EndUnit /\ committed' = working
  <2>1. ~ work.doomed \/ UNCHANGED committed
    BY <1>2 DEF Files!EndUnit, Files!Rollback
  <2> QED BY <1>2, <2>1 DEF CardsInv, Rendered, Files!EndUnit, Files!At
<1>3. ASSUME NEW r \in m.symbols, Files(m)!Repair(r) PROVE Files(m)!CommitsDocument(s)
  <2>1. committed' = committed \/ committed' = [committed EXCEPT ![r].doc = card[r]]
    BY <1>3 DEF Files!Repair
  <2>2. committed \in [m.symbols -> Row(m)] /\ committed[r] \in Row(m)
    BY DEF CardsInv, CardsTyped
  <2>3. [committed[r] EXCEPT !.doc = card[r]].claims = committed[r].claims
    BY <2>2 DEF Row
  <2>4. committed'[s].claims = committed[s].claims
    BY <2>1, <2>2, <2>3
  <2> QED BY <2>4
<1>4. UNCHANGED committed \/ (Files(m)!EndUnit /\ committed' = working) \/ \E r \in m.symbols : Files(m)!Repair(r)
  BY CardsCases DEF Files!vars, Files!Begin, Files!Pick, Files!TakeLock, Files!Contention, Files!Mutate,
     Files!WriteCard, Files!Record, Files!Return, Files!Fail, Files!EndUnit, Files!LateFail, Files!Crash,
     Files!Age, Files!Edit, Files!Commit, Files!Rollback
<1> QED BY <1>1, <1>2, <1>3, <1>4

\* Only the user, quarantine and the failure of the update that found it touch an edited card.
LEMMA EditStep ==
  ASSUME NEW m, Bounded(m), CardsInv(m), [Files(m)!Next]_(Files(m)!vars), NEW s \in m.symbols
  PROVE  Files(m)!KeepsEdit(s)
<1> SUFFICES ASSUME card[s].text \in {"edited", "malformed"},
                    lock[s] = "held" => card[s] = work.prev
             PROVE  card'[s] \in {card[s], Files(m)!NoCard} \/ edits' # edits
  BY DEF Files!KeepsEdit
<1>1. CASE UNCHANGED card
  BY <1>1
<1>2. CASE Files(m)!WriteCard
  <2>1. UNCHANGED card \/ (card[work.symbol].text \in {"none", "sound"} /\ card'[s] = card[s])
    BY <1>2 DEF Files!WriteCard, Files!Readable, Files!Current, CardsInv, CardsTyped
  <2> QED BY <2>1
<1>3. CASE Files(m)!Fail
  <2>1. card' = card \/ (work.at \in Held /\ card' = [card EXCEPT ![work.symbol] = work.prev])
    BY <1>3 DEF Files!Fail, Files!Current, Files!Restored, Files!Restores, Files!Nested, Files!At, Held
  <2>2. s = work.symbol /\ work.at \in Held => lock[s] = "held"
    BY DEF CardsInv, LocksPlaced
  <2> QED BY <2>1, <2>2 DEF CardsInv, CardsTyped
<1>4. ASSUME NEW r \in m.symbols, NEW t, Files(m)!Edit(r, t) PROVE edits' # edits
  BY <1>4 DEF Files!Edit, CardsInv, CardsTyped
<1>5. ASSUME NEW r \in m.symbols, Files(m)!Repair(r) PROVE card'[s] \in {card[s], Files(m)!NoCard}
  BY <1>5 DEF Files!Repair, CardsInv, CardsTyped
<1>6. \/ UNCHANGED card \/ Files(m)!WriteCard \/ Files(m)!Fail
      \/ \E r \in m.symbols, t \in {"edited", "malformed"} : Files(m)!Edit(r, t)
      \/ \E r \in m.symbols : Files(m)!Repair(r)
  BY CardsCases DEF Files!vars, Files!Begin, Files!Pick, Files!TakeLock, Files!Contention, Files!Mutate,
     Files!Record, Files!Return, Files!EndUnit, Files!LateFail, Files!Crash, Files!Age
<1> QED BY <1>1, <1>2, <1>3, <1>4, <1>5, <1>6

-----------------------------------------------------------------------------
(* Failures that are handled, alone.                                        *)

\* Nobody dies, edits a card, runs a stage or fails late.
Undisturbed(m) == Bounded(m) /\ m.losses = 0 /\ m.edits = 0 /\ m.batches = FALSE

Sound == {"none", "sound"}

\* The record of the card that the transaction will leave.
Outcome(s) == IF work.doomed THEN committed[s].doc ELSE working[s].doc

\* The card of every symbol is the one that will be recorded, but for the symbol at hand,
\* whose unit knows the card it found and what it has done to it. Only an update dooms its
\* transaction, and it has no other symbol.
FailuresInv(m) ==
  /\ CardsInv(m)
  /\ losses = 0 /\ edits = 0 /\ work.unit # "batch"
  /\ work.prev.text \in Sound /\ (\A s \in m.symbols : card[s].text \in Sound)
  /\ \A s \in m.symbols : (work.at \in Held /\ s = work.symbol) \/ card[s].id = Outcome(s).id
  /\ work.at \in Held => work.prev.id = committed[work.symbol].doc.id
  /\ work.at \in {"locked", "compact"} =>
       card[work.symbol] = work.prev /\ working[work.symbol].doc = committed[work.symbol].doc
  /\ work.at = "return" => card[work.symbol].id = working[work.symbol].doc.id
  /\ work.doomed => work.unit = "update" /\ work.at = "next" /\ work.todo = {}
  /\ work.unit = "update" /\ work.todo # {} =>
       work.at = "next" /\ working = committed /\ \E s \in m.symbols : work.todo = {s}
  /\ work.unit = "update" /\ work.at \in Busy =>
       \A s \in m.symbols : s # work.symbol => working[s] = committed[s]

\* What a failure will restore, at first.
LEMMA FailuresInit ==
  ASSUME NEW m, Undisturbed(m), Files(m)!Init
  PROVE  FailuresInv(m)
<1>1. CardsInv(m)
  BY CardsInit DEF Undisturbed
<1>2. /\ losses = 0 /\ edits = 0 /\ work = Files(m)!Idle
      /\ (\A s \in m.symbols : card[s] = Files(m)!NoCard /\ committed[s].doc = Files(m)!NoCard)
      /\ working = committed
  BY DEF Files!Init
<1> QED BY <1>1, <1>2 DEF FailuresInv, Outcome, Files!Idle, Files!NoCard, Sound, Busy, Held

\* A unit begins with what is committed.
LEMMA FailuresBegin ==
  ASSUME NEW m, Undisturbed(m), FailuresInv(m), CardsInv(m)', NEW u \in Units \ {"none"},
         NEW todo \in SUBSET m.symbols, Files(m)!Begin(u, todo), u = "batch" => m.batches,
         u = "update" => \E s \in m.symbols : todo = {s}
  PROVE  FailuresInv(m)'
<1>1. /\ work' = [unit |-> u, symbol |-> "none", at |-> "next", prev |-> Files(m)!NoCard,
                  todo |-> todo, doomed |-> FALSE, failed |-> {}]
      /\ UNCHANGED <<committed, working, card, lock, written, losses, edits>>
      /\ work.at = "idle" /\ ~ work.doomed
  BY DEF Files!Begin, Files!Idle
<1>2. working = committed
  BY <1>1 DEF FailuresInv, CardsInv, WorkPlaced
<1>3. u # "batch"
  BY DEF Undisturbed
<1> QED BY <1>1, <1>2, <1>3 DEF FailuresInv, Outcome, Files!NoCard, Sound, Busy, Held

\* The expiry of a maintenance touches no record.
LEMMA FailuresPick ==
  ASSUME NEW m, Undisturbed(m), FailuresInv(m), CardsInv(m)', NEW s \in m.symbols, Files(m)!Pick(s)
  PROVE  FailuresInv(m)'
<1>1. /\ work' = [work EXCEPT !.at = "lock", !.symbol = s, !.todo = @ \ {s}]
      /\ work.at = "next" /\ s \in work.todo
      /\ UNCHANGED <<committed, card, lock, written, losses, edits>>
  BY DEF Files!Pick, Files!At
<1>2. /\ work'.at = "lock" /\ work'.symbol = s /\ work'.todo = work.todo \ {s} /\ work'.unit = work.unit
      /\ work'.failed = work.failed /\ work'.doomed = work.doomed /\ work'.prev = work.prev
      /\ ~ work.doomed
  BY <1>1 DEF FailuresInv, CardsInv, CardsTyped, Works
<1>3. /\ \A r \in m.symbols : working'[r].doc = working[r].doc
      /\ work.unit = "update" => working' = working
  BY DEF Files!Pick, FailuresInv, CardsInv, CardsTyped, Row
<1>4. work.unit = "update" => working = committed /\ work'.todo = {}
  BY <1>1, <1>2 DEF FailuresInv
<1>5. \A r \in m.symbols : card'[r].id = Outcome(r)'.id
  BY <1>1, <1>2, <1>3 DEF FailuresInv, Outcome, Held
<1> QED BY <1>1, <1>2, <1>3, <1>4, <1>5 DEF FailuresInv, Busy, Held

\* The unit finds the card that is recorded.
LEMMA FailuresTake ==
  ASSUME NEW m, Undisturbed(m), FailuresInv(m), CardsInv(m)', Files(m)!TakeLock
  PROVE  FailuresInv(m)'
<1>1. /\ work' = [work EXCEPT !.at = "locked", !.prev = card[work.symbol]]
      /\ work.at = "lock" /\ work.symbol \in m.symbols
      /\ UNCHANGED <<committed, working, card, losses, edits>>
  BY DEF Files!TakeLock, Files!At, Files!Current, FailuresInv, CardsInv, WorkPlaced, Busy
<1>2. /\ work'.at = "locked" /\ work'.symbol = work.symbol /\ work'.todo = work.todo /\ work'.unit = work.unit
      /\ work'.doomed = work.doomed /\ work'.prev = card[work.symbol]
      /\ ~ work.doomed
  BY <1>1 DEF FailuresInv, CardsInv, CardsTyped, Works
<1>3. working[work.symbol].doc = committed[work.symbol].doc
  BY <1>1 DEF FailuresInv, CardsInv, Fresh
<1>4. card[work.symbol].id = committed[work.symbol].doc.id
  BY <1>1, <1>2, <1>3 DEF FailuresInv, Outcome, Held
<1> QED BY <1>1, <1>2, <1>3, <1>4 DEF FailuresInv, Outcome, Busy, Held

\* A command that meets a lock leaves the rest.
LEMMA FailuresContention ==
  ASSUME NEW m, Undisturbed(m), FailuresInv(m), CardsInv(m)', Files(m)!Contention
  PROVE  FailuresInv(m)'
<1>1. /\ work' = [work EXCEPT !.at = "next", !.symbol = "none", !.todo = {},
                              !.failed = @ \cup {work.symbol} \cup work.todo]
      /\ work.at = "lock"
      /\ UNCHANGED <<committed, working, card, losses, edits>>
  BY DEF Files!Contention, Files!At, Files!Current, FailuresInv
<1>2. /\ work'.at = "next" /\ work'.todo = {} /\ work'.unit = work.unit
      /\ work'.doomed = work.doomed /\ work'.prev = work.prev
      /\ ~ work.doomed
  BY <1>1 DEF FailuresInv, CardsInv, CardsTyped, Works
<1> QED BY <1>1, <1>2 DEF FailuresInv, Outcome, Busy, Held

\* Changing claims leaves the card alone.
LEMMA FailuresMutate ==
  ASSUME NEW m, Undisturbed(m), FailuresInv(m), CardsInv(m)', Files(m)!Mutate
  PROVE  FailuresInv(m)'
<1>1. /\ work.at = "locked" /\ work.symbol \in m.symbols
      /\ work' = [work EXCEPT !.at = "compact"]
      /\ UNCHANGED <<committed, card, losses, edits>>
      /\ working' = [working EXCEPT ![work.symbol].claims = @ + 1] \/ working' = working
  BY DEF Files!Mutate, Files!At, Files!Current, FailuresInv, CardsInv, WorkPlaced, Busy, Held
<1>2. /\ work'.unit = work.unit /\ work'.symbol = work.symbol /\ work'.prev = work.prev /\ work'.at = "compact"
      /\ work'.todo = work.todo /\ work'.doomed = work.doomed
      /\ ~ work.doomed /\ (work.unit = "update" => work.todo = {})
  BY <1>1 DEF FailuresInv, CardsInv, CardsTyped, Works
<1>3. /\ \A s \in m.symbols : s # work.symbol => working'[s] = working[s]
      /\ working'[work.symbol].doc = working[work.symbol].doc
  <2>1. working \in [m.symbols -> Row(m)] /\ working[work.symbol] \in Row(m)
    BY <1>1 DEF FailuresInv, CardsInv, CardsTyped
  <2>2. [working[work.symbol] EXCEPT !.claims = @ + 1].doc = working[work.symbol].doc
    BY <2>1 DEF Row
  <2> QED BY <1>1, <2>1, <2>2
<1> QED BY <1>1, <1>2, <1>3 DEF FailuresInv, Outcome, Busy, Held

\* Rendering and recording leave what a failure will restore in hand.
LEMMA FailuresWrite ==
  ASSUME NEW m, Undisturbed(m), FailuresInv(m), CardsInv(m)', Files(m)!WriteCard \/ Files(m)!Record
  PROVE  FailuresInv(m)'
<1>1. /\ work.symbol \in m.symbols /\ work.at \in {"compact", "record"}
      /\ UNCHANGED <<committed, losses, edits>>
  BY DEF Files!WriteCard, Files!Record, Files!At, FailuresInv, CardsInv, WorkPlaced, Busy, Held
<1>2. work' = [work EXCEPT !.at = "record"] \/ work' = [work EXCEPT !.at = "return"]
  BY DEF Files!WriteCard, Files!Record
<1>3. /\ work'.unit = work.unit /\ work'.symbol = work.symbol /\ work'.prev = work.prev
      /\ work'.todo = work.todo /\ work'.doomed = work.doomed
      /\ work'.at \in {"record", "return"}
      /\ ~ work.doomed /\ (work.unit = "update" => work.todo = {})
  BY <1>1, <1>2 DEF FailuresInv, CardsInv, CardsTyped, Works
<1>4. CASE Files(m)!WriteCard
  <2>1. UNCHANGED working /\ work.at = "compact"
    BY <1>4 DEF Files!WriteCard, Files!At
  <2>2. \/ UNCHANGED card
        \/ /\ work'.at = "record"
           /\ card' = [card EXCEPT ![work.symbol] = [id |-> written + 1, managed |-> working[work.symbol].claims,
                                                     text |-> "sound"]]
    BY <1>4 DEF Files!WriteCard, Files!Current, FailuresInv, CardsInv, CardsTyped, Works
  <2>3. CASE UNCHANGED card
    <3>1. card[work.symbol].id = working[work.symbol].doc.id
      BY <1>1, <2>1 DEF FailuresInv, Held
    <3> QED BY <1>1, <1>3, <2>1, <2>3, <3>1 DEF FailuresInv, Outcome, Busy, Held
  <2>4. CASE work'.at = "record" /\ card' = [card EXCEPT ![work.symbol] =
               [id |-> written + 1, managed |-> working[work.symbol].claims, text |-> "sound"]]
    <3>1. \A s \in m.symbols : card'[s].text \in Sound /\ (s # work.symbol => card'[s] = card[s])
      BY <2>4 DEF FailuresInv, CardsInv, CardsTyped, Sound
    <3> QED BY <1>1, <1>3, <2>1, <2>4, <3>1 DEF FailuresInv, Outcome, Busy, Held
  <2> QED BY <2>2, <2>3, <2>4
<1>5. CASE Files(m)!Record
  <2>1. /\ UNCHANGED card /\ work.at = "record" /\ work'.at = "return"
        /\ working' = [working EXCEPT ![work.symbol].doc = [card[work.symbol] EXCEPT !.text = "sound"]]
    BY <1>5 DEF Files!Record, Files!At, Files!Current, FailuresInv, CardsInv, CardsTyped, Works
  <2>2. [card[work.symbol] EXCEPT !.text = "sound"].id = card[work.symbol].id
    BY <1>1 DEF FailuresInv, CardsInv, CardsTyped, Files!Cards, Files!NoCard
  <2>3. /\ working'[work.symbol].doc.id = card[work.symbol].id
        /\ \A s \in m.symbols : s # work.symbol => working'[s] = working[s]
    BY <1>1, <2>1, <2>2 DEF FailuresInv, CardsInv, CardsTyped, Row
  <2> QED BY <1>1, <1>3, <2>1, <2>3 DEF FailuresInv, Outcome, Busy, Held
<1> QED BY <1>4, <1>5

\* A return leaves the card that its record names.
LEMMA FailuresReturn ==
  ASSUME NEW m, Undisturbed(m), FailuresInv(m), CardsInv(m)', Files(m)!Return
  PROVE  FailuresInv(m)'
<1>1. /\ work' = Files(m)!Onward /\ work.at = "return" /\ work.symbol \in m.symbols
      /\ UNCHANGED <<committed, working, card, losses, edits>>
  BY DEF Files!Return, Files!At, FailuresInv, CardsInv, WorkPlaced, Busy, Held
<1>2. /\ work'.at = "next" /\ work'.unit = work.unit /\ work'.todo = work.todo
      /\ work'.doomed = work.doomed /\ work'.prev.text \in Sound
      /\ ~ work.doomed /\ (work.unit = "update" => work.todo = {})
  BY <1>1 DEF FailuresInv, CardsInv, CardsTyped, Works, Files!Onward, Files!NoCard, Sound
<1> QED BY <1>1, <1>2 DEF FailuresInv, Outcome, Busy, Held

\* A failure leaves the card of the record that its transaction will leave.
LEMMA FailuresFail ==
  ASSUME NEW m, Undisturbed(m), FailuresInv(m), CardsInv(m)', Files(m)!Fail
  PROVE  FailuresInv(m)'
<1>1. /\ work.at \in Busy /\ work.symbol \in m.symbols /\ ~ work.doomed
      /\ UNCHANGED <<committed, losses, edits>>
  BY DEF Files!Fail, FailuresInv, CardsInv, WorkPlaced, Busy, Held
<1>2. /\ work'.at = "next" /\ work'.unit = work.unit /\ work'.todo = work.todo
      /\ work'.doomed = Files(m)!Nested /\ work'.prev.text \in Sound
      /\ (work.unit = "update" => work.todo = {})
      /\ (Files(m)!Nested => work.unit = "update")
  <2>1. work' = [Files(m)!Onward EXCEPT !.doomed = IF Files(m)!Nested THEN TRUE ELSE @,
                                        !.failed = Files(m)!Reported]
    BY DEF Files!Fail, Files!Doomed
  <2>2. /\ work'.at = "next" /\ work'.unit = work.unit /\ work'.todo = work.todo
        /\ work'.doomed = Files(m)!Nested /\ work'.prev = Files(m)!NoCard
    BY <1>1, <2>1 DEF FailuresInv, CardsInv, CardsTyped, Works, Files!Onward, Files!Nested
  <2>3. work.unit = "update" => work.todo = {}
    BY <1>1 DEF FailuresInv, Busy, Held
  <2>4. Files(m)!Nested => work.unit = "update"
    BY DEF FailuresInv, Files!Nested
  <2> QED BY <2>2, <2>3, <2>4 DEF Files!NoCard, Sound
<1>3. \A s \in m.symbols : s # work.symbol => card'[s] = card[s]
  BY <1>1 DEF Files!Fail, Files!Current, FailuresInv, CardsInv, CardsTyped
<1>4. card'[work.symbol].text \in Sound /\ card'[work.symbol].id = committed[work.symbol].doc.id
  <2>1. CASE work.at = "lock"
    <3>1. card' = card
      BY <2>1 DEF Files!Fail, Files!Restores, Files!Nested, Files!At
    <3>2. working[work.symbol].doc = committed[work.symbol].doc
      BY <2>1 DEF FailuresInv, CardsInv, Fresh
    <3>3. card[work.symbol].id = working[work.symbol].doc.id
      BY <1>1, <2>1 DEF FailuresInv, Outcome, Held
    <3> QED BY <1>1, <3>1, <3>2, <3>3 DEF FailuresInv
  <2>2. CASE work.at \in Held
    <3>1. \/ card' = [card EXCEPT ![work.symbol] = work.prev]
          \/ card' = card /\ work.at \in {"locked", "compact"}
      BY <2>2 DEF Files!Fail, Files!Current, Files!Restored, Files!Restores, Files!Nested, Files!At, Held
    <3>2. card'[work.symbol] = work.prev
      BY <1>1, <3>1 DEF FailuresInv, CardsInv, CardsTyped
    <3> QED BY <2>2, <3>2 DEF FailuresInv
  <2> QED BY <1>1, <2>1, <2>2 DEF Busy
<1>5. CASE Files(m)!Nested
  <2>1. working' = working /\ work.unit = "update"
    BY <1>2, <1>5 DEF Files!Fail
  <2>2. \A s \in m.symbols : s # work.symbol => card'[s].id = committed[s].doc.id
    BY <1>1, <1>3, <2>1 DEF FailuresInv, Outcome
  <2>3. \A s \in m.symbols : card'[s].id = Outcome(s)'.id
    BY <1>1, <1>2, <1>4, <1>5, <2>2 DEF Outcome
  <2> QED BY <1>1, <1>2, <1>3, <1>4, <1>5, <2>1, <2>3 DEF FailuresInv, Busy, Held
<1>6. CASE ~ Files(m)!Nested
  <2>1. working' = [working EXCEPT ![work.symbol].doc = committed[work.symbol].doc]
    BY <1>6 DEF Files!Fail, Files!Current
  <2>2. /\ working'[work.symbol].doc = committed[work.symbol].doc
        /\ \A s \in m.symbols : s # work.symbol => working'[s] = working[s]
    BY <1>1, <2>1 DEF FailuresInv, CardsInv, CardsTyped, Row
  <2>3. \A s \in m.symbols : card'[s].id = Outcome(s)'.id
    BY <1>1, <1>2, <1>3, <1>4, <1>6, <2>2 DEF FailuresInv, Outcome
  <2> QED BY <1>1, <1>2, <1>3, <1>4, <1>6, <2>3 DEF FailuresInv, Busy, Held
<1> QED BY <1>5, <1>6

\* The outer transaction leaves the record of every card.
LEMMA FailuresEnd ==
  ASSUME NEW m, Undisturbed(m), FailuresInv(m), CardsInv(m)', Files(m)!EndUnit
  PROVE  FailuresInv(m)'
<1>1. /\ work.at = "next" /\ work' = Files(m)!Idle /\ UNCHANGED <<card, losses, edits>>
      /\ \/ work.doomed /\ UNCHANGED committed
         \/ ~ work.doomed /\ committed' = working
  BY DEF Files!EndUnit, Files!At, Files!Commit, Files!Rollback
<1>2. working' = committed'
  BY <1>1 DEF CardsInv, WorkPlaced, Files!Idle
<1>3. \A s \in m.symbols : card'[s].id = Outcome(s)'.id
  BY <1>1, <1>2 DEF FailuresInv, Outcome, Held, Files!Idle
<1> QED BY <1>1, <1>2, <1>3 DEF FailuresInv, Files!Idle, Files!NoCard, Sound, Busy, Held

\* A repair leaves the card the warehouse knows.
LEMMA FailuresRepair ==
  ASSUME NEW m, Undisturbed(m), FailuresInv(m), CardsInv(m)', NEW s \in m.symbols, Files(m)!Repair(s)
  PROVE  FailuresInv(m)'
<1>1. work = Files(m)!Idle /\ UNCHANGED <<work, losses, edits, card>>
  BY DEF Files!Repair, Files!Quarantinable, FailuresInv, Sound
<1>2. committed' = [committed EXCEPT ![s].doc = card[s]] /\ working' = committed'
  BY DEF Files!Repair, Files!Quarantinable, FailuresInv, Sound
<1>3. working = committed
  BY <1>1 DEF FailuresInv, CardsInv, WorkPlaced, Files!Idle
<1>4. \A r \in m.symbols : committed'[r].doc.id = card[r].id
  BY <1>1, <1>2, <1>3 DEF FailuresInv, CardsInv, CardsTyped, Row, Outcome, Held, Files!Idle
<1> QED BY <1>1, <1>2, <1>4 DEF FailuresInv, Outcome, Files!Idle, Busy, Held

\* The invariant of failures is inductive where nobody disturbs.
LEMMA FailuresStep ==
  ASSUME NEW m, Undisturbed(m), FailuresInv(m), [Files(m)!Next]_(Files(m)!vars)
  PROVE  FailuresInv(m)'
<1>0. CardsInv(m)'
  BY CardsStep DEF FailuresInv, Undisturbed
<1>1. ~ Files(m)!LateFail /\ ~ Files(m)!Crash /\ \A s \in m.symbols : \A t : ~ Files(m)!Edit(s, t)
  BY DEF Undisturbed, Files!LateFail, Files!Crash, Files!Edit, FailuresInv
<1>2. CASE UNCHANGED <<committed, working, card, work, losses, edits>>
  BY <1>0, <1>2 DEF FailuresInv, Outcome
<1>3. ASSUME NEW s \in m.symbols, Files(m)!Age(s) PROVE FailuresInv(m)'
  BY <1>2, <1>3 DEF Files!Age
<1>4. CASE UNCHANGED Files(m)!vars
  BY <1>2, <1>4 DEF Files!vars
<1>5. CASE Files(m)!Next
  BY <1>0, <1>1, <1>3, <1>5, CardsCases, FailuresBegin, FailuresPick, FailuresTake, FailuresContention,
     FailuresMutate, FailuresWrite, FailuresReturn, FailuresFail, FailuresEnd, FailuresRepair
<1> QED BY <1>4, <1>5

\* It implies that an idle process leaves the cards the warehouse knows.
LEMMA FailuresRestore ==
  ASSUME NEW m, FailuresInv(m)
  PROVE  Files(m)!FailureRestoresCard
<1> SUFFICES ASSUME work = Files(m)!Idle PROVE \A s \in m.symbols : card[s].id = committed[s].doc.id
  BY DEF Files!FailureRestoresCard
<1>1. working = committed /\ work.at = "idle"
  BY DEF FailuresInv, CardsInv, WorkPlaced, Files!Idle
<1> QED BY <1>1 DEF FailuresInv, Outcome, Held

-----------------------------------------------------------------------------
(* The theorems about cards.                                                *)

\* Whatever fails, is restored or dies, between the claims, the card, its record and the
\* commit, the locks are in use by what runs (mutate_and_compact, project).
THEOREM CardsAreInHand ==
  ASSUME NEW m, Bounded(m)
  PROVE  Files(m)!Spec => []Files(m)!TypeOK
<1>1. Files(m)!Init => CardsInv(m)
  BY CardsInit
<1>2. CardsInv(m) /\ [Files(m)!Next]_(Files(m)!vars) => CardsInv(m)'
  BY CardsStep
<1>3. CardsInv(m) => Files(m)!TypeOK
  BY CardsTypes
<1> QED BY <1>1, <1>2, <1>3, PTL DEF Files!Spec

\* Claims that changed are committed with the record of a card that renders them, or were
\* expired by a maintenance that failed at their symbol.
THEOREM CardsAreCommitted ==
  ASSUME NEW m, Bounded(m)
  PROVE  Files(m)!Spec => [][\A s \in m.symbols : Files(m)!CommitsDocument(s)]_(Files(m)!vars)
<1>1. Files(m)!Init => CardsInv(m)
  BY CardsInit
<1>2. CardsInv(m) /\ [Files(m)!Next]_(Files(m)!vars) => CardsInv(m)'
  BY CardsStep
<1>3. CardsInv(m) /\ [Files(m)!Next]_(Files(m)!vars) =>
        [\A s \in m.symbols : Files(m)!CommitsDocument(s)]_(Files(m)!vars)
  BY CommitStep
<1> QED BY <1>1, <1>2, <1>3, PTL DEF Files!Spec

\* What a user saved before an update took up the card leaves it only for the
\* quarantine, whatever fails or dies (parse_symbol_card, repair_symbol_card).
THEOREM EditsSurvive ==
  ASSUME NEW m, Bounded(m)
  PROVE  Files(m)!Spec => [][\A s \in m.symbols : Files(m)!KeepsEdit(s)]_(Files(m)!vars)
<1>1. Files(m)!Init => CardsInv(m)
  BY CardsInit
<1>2. CardsInv(m) /\ [Files(m)!Next]_(Files(m)!vars) => CardsInv(m)'
  BY CardsStep
<1>3. CardsInv(m) /\ [Files(m)!Next]_(Files(m)!vars) =>
        [\A s \in m.symbols : Files(m)!KeepsEdit(s)]_(Files(m)!vars)
  BY EditStep
<1> QED BY <1>1, <1>2, <1>3, PTL DEF Files!Spec

\* Where nobody dies, edits a card, runs a stage or fails late, a failure at any step of any
\* command or maintenance leaves the card that the warehouse has recorded.
THEOREM FailuresAreUndone ==
  ASSUME NEW m, Undisturbed(m)
  PROVE  Files(m)!Spec => []Files(m)!FailureRestoresCard
<1>1. Files(m)!Init => FailuresInv(m)
  BY FailuresInit
<1>2. FailuresInv(m) /\ [Files(m)!Next]_(Files(m)!vars) => FailuresInv(m)'
  BY FailuresStep
<1>3. FailuresInv(m) => Files(m)!FailureRestoresCard
  BY FailuresRestore
<1> QED BY <1>1, <1>2, <1>3, PTL DEF Files!Spec
-----------------------------------------------------------------------------
(* Retrieval.                                                               *)

\* Sizes, budgets and days are counted, and there is a first day.
Counted(m) ==
  /\ m.limit \in Nat /\ m.budget \in Nat /\ m.noteBudget \in Nat
  /\ m.sizes \subseteq Nat
  /\ m.days \in Nat \ {0}

RowsOf(m) == Retrieval(m)!Rows

Claim(m) ==
  [date : 1..m.days, seen : 1..m.days, size : m.sizes, note : BOOLEAN, pinned : BOOLEAN,
   status : {"ACTIVE", "CONFLICTED", "SUPERSEDED"}]

Answer(m) == [asOf : 0..m.days, left : SUBSET RowsOf(m), selected : SUBSET RowsOf(m), used : Nat, notes : Nat]

\* The counts of the loop are the tokens of what it has selected.
Summed(m) ==
  /\ IsFiniteSet(Retrieval(m)!TokensOf(answer.selected))
  /\ answer.used = Retrieval(m)!Tokens(answer.selected)
  /\ answer.notes = Retrieval(m)!Tokens(Retrieval(m)!Notes(answer.selected))
  /\ answer.used <= m.budget /\ answer.notes <= m.noteBudget

\* What was considered comes before what is left.
Ordered(m) ==
  /\ answer.selected \cap answer.left = {}
  /\ \A i \in RowsOf(m) \ answer.left, j \in answer.left : Retrieval(m)!Before(i, j)

RetrievalInv(m) ==
  /\ claims \in Seq(Claim(m)) /\ today \in 1..m.days /\ answer \in Answer(m)
  /\ Summed(m) /\ Ordered(m)
  /\ Retrieval(m)!NoLookahead /\ Retrieval(m)!OmittedDoNotFit

\* The cardinality of the instance is that of finite sets.
LEMMA SameCardinality ==
  ASSUME NEW m, NEW I
  PROVE  Retrieval(m)!Tokens(I) = Cardinality(Retrieval(m)!TokensOf(I))
  BY DEF Retrieval!Tokens, Cardinality, Retrieval!Cardinality

\* A row is a claim.
LEMMA RowFacts ==
  ASSUME NEW m, Counted(m), claims \in Seq(Claim(m)), NEW i \in RowsOf(m)
  PROVE  /\ i \in 1..Len(claims) /\ claims[i] \in Claim(m)
         /\ i \in Nat /\ claims[i].date \in Nat /\ claims[i].seen \in Nat /\ claims[i].size \in Nat
         /\ claims[i].date >= 1 /\ claims[i].note \in BOOLEAN
<1>1. DOMAIN claims = 1..Len(claims) /\ Len(claims) \in Nat
  BY LenProperties
<1>2. i \in 1..Len(claims)
  BY <1>1 DEF RowsOf, Retrieval!Rows
<1>3. claims[i] \in Claim(m)
  BY <1>2, ElementOfSeq
<1> QED BY <1>1, <1>2, <1>3 DEF Claim, Counted

\* A claim adds its tokens to those of the others.
LEMMA OneMore ==
  ASSUME NEW m, NEW I, NEW i, i \notin I, IsFiniteSet(Retrieval(m)!TokensOf(I)), claims[i].size \in Nat
  PROVE  /\ IsFiniteSet(Retrieval(m)!TokensOf(I \cup {i}))
         /\ Retrieval(m)!Tokens(I \cup {i}) = Retrieval(m)!Tokens(I) + claims[i].size
<1> DEFINE A == Retrieval(m)!TokensOf(I)
           k == claims[i].size
           B == {i} \X (1..k)
<1>1. Retrieval(m)!TokensOf(I \cup {i}) = A \cup B
  BY DEF Retrieval!TokensOf
<1>2. A \cap B = {}
  <2>1. \A x \in A : x[1] \in I
    BY DEF Retrieval!TokensOf
  <2>2. \A x \in B : x[1] = i
    OBVIOUS
  <2> QED BY <2>1, <2>2
<1>3. IsFiniteSet(B) /\ Cardinality(B) = k
  <2>1. IsFiniteSet({i}) /\ Cardinality({i}) = 1
    BY FS_Singleton
  <2>2. IsFiniteSet(1..k) /\ Cardinality(1..k) = k
    <3>1. k \in Nat
      OBVIOUS
    <3> HIDE DEF k
    <3>2. 1 \in Int /\ k \in Int
      BY <3>1
    <3>3. IsFiniteSet(1..k) /\ Cardinality(1..k) = IF 1 > k THEN 0 ELSE k - 1 + 1
      BY <3>2, FS_Interval
    <3> QED BY <3>1, <3>3
  <2>3. IsFiniteSet(B) /\ Cardinality(B) = Cardinality({i}) * Cardinality(1..k)
    BY <2>1, <2>2, FS_Product
  <2>4. Cardinality(B) = 1 * k
    BY <2>1, <2>2, <2>3
  <2> QED BY <2>3, <2>4
<1> HIDE DEF A, B
<1>4. IsFiniteSet(A)
  BY DEF A
<1>5. IsFiniteSet(A \cup B) /\ Cardinality(A \cup B) = Cardinality(A) + Cardinality(B) - Cardinality(A \cap B)
  BY <1>3, <1>4, FS_Union
<1>6. Cardinality(A \cap B) = 0
  BY <1>2, FS_EmptySet
<1>7. Cardinality(A) \in Nat /\ Cardinality(B) \in Nat
  BY <1>3, <1>4, FS_CardinalityType
<1>8. Cardinality(A \cup B) = Cardinality(A) + k
  BY <1>3, <1>5, <1>6, <1>7
<1> QED BY <1>1, <1>5, <1>8, SameCardinality DEF A

\* Nothing selected costs nothing.
LEMMA NoTokens ==
  ASSUME NEW m
  PROVE  /\ IsFiniteSet(Retrieval(m)!TokensOf({})) /\ Retrieval(m)!Tokens({}) = 0
         /\ Retrieval(m)!Notes({}) = {}
<1>1. Retrieval(m)!TokensOf({}) = {}
  BY DEF Retrieval!TokensOf
<1>2. Retrieval(m)!Notes({}) = {}
  BY DEF Retrieval!Notes
<1> QED BY <1>1, <1>2, FS_EmptySet, SameCardinality

\* No two claims come before each other.
LEMMA BeforeOrders ==
  ASSUME NEW m, Counted(m), claims \in Seq(Claim(m)), NEW i \in RowsOf(m), NEW j \in RowsOf(m),
         Retrieval(m)!Before(i, j)
  PROVE  ~ Retrieval(m)!Before(j, i)
<1>1. ASSUME NEW k \in RowsOf(m) PROVE \A n \in 1..5 : Retrieval(m)!Rank(k)[n] \in Int
  <2>1. k \in Int /\ claims[k].date \in Int /\ m.days \in Int
    BY RowFacts DEF Counted
  <2> QED BY <2>1 DEF Retrieval!Rank
<1> DEFINE x(n) == Retrieval(m)!Rank(i)[n]
           y(n) == Retrieval(m)!Rank(j)[n]
<1>2. \A n \in 1..5 : x(n) \in Int /\ y(n) \in Int
  BY <1>1
<1>3. SUFFICES ASSUME NEW n \in 1..5, NEW k \in 1..5, x(n) < y(n), y(k) < x(k),
                      \A o \in 1..(n - 1) : x(o) = y(o), \A o \in 1..(k - 1) : y(o) = x(o)
               PROVE  FALSE
  BY DEF Retrieval!Before
<1> HIDE DEF x, y
<1>4. n < k => n \in 1..(k - 1)
  OBVIOUS
<1>5. k < n => k \in 1..(n - 1)
  OBVIOUS
<1> QED BY <1>2, <1>3, <1>4, <1>5

\* The counters of an empty answer are right.
LEMMA SummedNothing ==
  ASSUME NEW m, Counted(m), answer.selected = {}, answer.used = 0, answer.notes = 0
  PROVE  Summed(m)
<1>1. /\ IsFiniteSet(Retrieval(m)!TokensOf(answer.selected))
      /\ Retrieval(m)!Tokens(answer.selected) = 0
      /\ Retrieval(m)!Notes(answer.selected) = {}
  BY NoTokens
<1>2. Retrieval(m)!Tokens(Retrieval(m)!Notes(answer.selected)) = 0
  BY <1>1, NoTokens
<1>3. 0 <= m.budget /\ 0 <= m.noteBudget
  BY DEF Counted
<1> QED BY <1>1, <1>2, <1>3 DEF Summed

\* Without an answer nothing is told.
LEMMA Forgotten ==
  ASSUME NEW m, Counted(m), claims \in Seq(Claim(m)), today \in 1..m.days, answer = Retrieval(m)!Nothing
  PROVE  RetrievalInv(m)
<1>1. /\ answer.asOf = 0 /\ answer.left = {} /\ answer.selected = {}
      /\ answer.used = 0 /\ answer.notes = 0
  BY DEF Retrieval!Nothing
<1>2. answer \in Answer(m)
  BY DEF Retrieval!Nothing, Answer, Counted
<1>3. Summed(m)
  BY <1>1, SummedNothing
<1>4. Ordered(m) /\ Retrieval(m)!NoLookahead
  BY <1>1 DEF Ordered, Retrieval!NoLookahead
<1>5. ASSUME NEW i \in RowsOf(m) PROVE ~ Retrieval(m)!Eligible(i, answer.asOf)
  <2>1. claims[i].date \in Nat /\ claims[i].date >= 1
    BY RowFacts
  <2> QED BY <1>1, <2>1 DEF Retrieval!Eligible
<1>6. Retrieval(m)!OmittedDoNotFit
  BY <1>5 DEF Retrieval!OmittedDoNotFit, RowsOf
<1> QED BY <1>2, <1>3, <1>4, <1>6 DEF RetrievalInv

\* The invariant of the loop holds at first.
LEMMA RetrievalInit ==
  ASSUME NEW m, Counted(m), Retrieval(m)!Init
  PROVE  RetrievalInv(m)
<1>1. claims \in Seq(Claim(m)) /\ today \in 1..m.days /\ answer = Retrieval(m)!Nothing
  BY DEF Retrieval!Init, Counted
<1> QED BY <1>1, Forgotten

\* The table stays one of claims.
LEMMA ObserveTypes ==
  ASSUME NEW m, Counted(m), RetrievalInv(m), NEW note \in BOOLEAN, NEW d \in 1..m.days, NEW s \in m.sizes,
         Retrieval(m)!Observe(note, d, s)
  PROVE  claims' \in Seq(Claim(m))
<1> DEFINE Matching == {i \in DOMAIN claims : claims[i].status = "ACTIVE" /\ claims[i].note = note}
           Same == {i \in Matching : claims[i].date = d}
           Older == {i \in Matching : claims[i].date < d}
           old == [i \in DOMAIN claims |->
                     IF i \in Older THEN [claims[i] EXCEPT !.status = "SUPERSEDED"]
                     ELSE IF i \in Same THEN [claims[i] EXCEPT !.status = "CONFLICTED"]
                     ELSE claims[i]]
           new == [date |-> d, seen |-> today, size |-> s, note |-> note, pinned |-> FALSE,
                   status |-> IF Same = {} THEN "ACTIVE" ELSE "CONFLICTED"]
<1>1. claims' = old \o <<new>>
  BY DEF Retrieval!Observe
<1>2. claims \in Seq(Claim(m)) /\ today \in 1..m.days
  BY DEF RetrievalInv
<1>3. new \in Claim(m)
  BY <1>2 DEF Claim
<1>4. DOMAIN claims = 1..Len(claims) /\ Len(claims) \in Nat
  BY <1>2, LenProperties
<1>5. ASSUME NEW i \in 1..Len(claims) PROVE old[i] \in Claim(m)
  <2>1. claims[i] \in Claim(m)
    BY <1>2, ElementOfSeq
  <2>2. /\ [claims[i] EXCEPT !.status = "SUPERSEDED"] \in Claim(m)
        /\ [claims[i] EXCEPT !.status = "CONFLICTED"] \in Claim(m)
    BY <2>1 DEF Claim
  <2>3. old[i] \in {claims[i], [claims[i] EXCEPT !.status = "SUPERSEDED"],
                    [claims[i] EXCEPT !.status = "CONFLICTED"]}
    BY <1>4
  <2> QED BY <2>1, <2>2, <2>3
<1>6. old = [i \in 1..Len(claims) |-> old[i]]
  BY <1>4
<1> HIDE DEF old, new
<1>7. old \in Seq(Claim(m))
  BY <1>4, <1>5, <1>6, IsASeq
<1>8. <<new>> \in Seq(Claim(m))
  BY <1>3
<1> QED BY <1>1, <1>7, <1>8, ConcatProperties

\* Pinning a claim leaves claims.
LEMMA PinTypes ==
  ASSUME NEW m, Counted(m), RetrievalInv(m), NEW i \in DOMAIN claims, Retrieval(m)!Pin(i)
  PROVE  claims' \in Seq(Claim(m))
<1>1. claims \in Seq(Claim(m))
  BY DEF RetrievalInv
<1>2. DOMAIN claims = 1..Len(claims) /\ Len(claims) \in Nat /\ claims \in [1..Len(claims) -> Claim(m)]
  BY <1>1, LenProperties
<1>3. PICK x \in BOOLEAN : x = ~ claims[i].pinned
  OBVIOUS
<1>4. claims' = [claims EXCEPT ![i].pinned = x]
  BY <1>3 DEF Retrieval!Pin
<1>5. [claims[i] EXCEPT !.pinned = x] \in Claim(m)
  BY <1>2 DEF Claim
<1>6. claims' = [claims EXCEPT ![i] = [claims[i] EXCEPT !.pinned = x]]
  BY <1>4
<1>7. claims' \in [1..Len(claims) -> Claim(m)]
  BY <1>2, <1>5, <1>6
<1> QED BY <1>2, <1>7

\* Whatever changes the table ends the answer.
LEMMA RetrievalForgets ==
  ASSUME NEW m, Counted(m), RetrievalInv(m),
         \/ \E note \in BOOLEAN, d \in Retrieval(m)!Days, s \in m.sizes : Retrieval(m)!Observe(note, d, s)
         \/ \E i \in DOMAIN claims : Retrieval(m)!Pin(i)
         \/ Retrieval(m)!NewDay
  PROVE  RetrievalInv(m)'
<1>1. claims' \in Seq(Claim(m))
  BY ObserveTypes, PinTypes DEF Retrieval!NewDay, RetrievalInv, Retrieval!Days
<1>2. today' \in 1..m.days
  <2>1. today \in 1..m.days /\ m.days \in Nat
    BY DEF RetrievalInv, Counted
  <2>2. CASE Retrieval(m)!NewDay
    BY <2>1, <2>2 DEF Retrieval!NewDay
  <2>3. CASE today' = today
    BY <2>1, <2>3
  <2>4. Retrieval(m)!NewDay \/ today' = today
    BY DEF Retrieval!Observe, Retrieval!Pin
  <2> QED BY <2>2, <2>3, <2>4
<1>3. answer' = Retrieval(m)!Nothing
  BY DEF Retrieval!Observe, Retrieval!Pin, Retrieval!NewDay, Retrieval!Forget
<1>4. /\ answer'.asOf = 0 /\ answer'.left = {} /\ answer'.selected = {}
      /\ answer'.used = 0 /\ answer'.notes = 0
  BY <1>3 DEF Retrieval!Nothing
<1>5. (answer \in Answer(m))'
  BY <1>3 DEF Retrieval!Nothing, Answer, Counted
<1>6. Summed(m)'
  <2>1. Retrieval(m)!TokensOf(answer.selected)' = {} /\ Retrieval(m)!Notes(answer.selected)' = {}
    BY <1>4 DEF Retrieval!TokensOf, Retrieval!Notes
  <2>2. Retrieval(m)!Tokens(answer.selected)' = 0
    BY <2>1, FS_EmptySet DEF Retrieval!Tokens, Cardinality, Retrieval!Cardinality
  <2>3. Retrieval(m)!Tokens(Retrieval(m)!Notes(answer.selected))' = 0
    <3>1. Retrieval(m)!TokensOf(Retrieval(m)!Notes(answer.selected))' = {}
      BY <1>4 DEF Retrieval!TokensOf, Retrieval!Notes
    <3> QED BY <3>1, FS_EmptySet DEF Retrieval!Tokens, Cardinality, Retrieval!Cardinality
  <2>4. 0 <= m.budget /\ 0 <= m.noteBudget
    BY DEF Counted
  <2> QED BY <1>4, <2>1, <2>2, <2>3, <2>4, FS_EmptySet DEF Summed
<1>7. Ordered(m)' /\ Retrieval(m)!NoLookahead'
  BY <1>4 DEF Ordered, Retrieval!NoLookahead
<1>8. Retrieval(m)!OmittedDoNotFit'
  <2>1. ASSUME NEW i \in RowsOf(m)' PROVE ~ Retrieval(m)!Eligible(i, answer.asOf)'
    <3>1. i \in 1..Len(claims')
      BY <1>1, LenProperties DEF RowsOf, Retrieval!Rows
    <3>2. claims'[i] \in Claim(m)
      BY <1>1, <3>1, ElementOfSeq
    <3>3. claims'[i].date >= 1
      BY <3>2 DEF Claim
    <3> QED BY <1>4, <3>2, <3>3 DEF Retrieval!Eligible, Claim
  <2> QED BY <2>1 DEF Retrieval!OmittedDoNotFit, RowsOf
<1> QED BY <1>1, <1>2, <1>5, <1>6, <1>7, <1>8 DEF RetrievalInv

\* A new question has no answer yet.
LEMMA RetrievalAsks ==
  ASSUME NEW m, Counted(m), RetrievalInv(m), NEW asOf \in Retrieval(m)!Days, Retrieval(m)!Retrieve(asOf)
  PROVE  RetrievalInv(m)'
<1>1. /\ claims' = claims /\ today' = today
      /\ answer' = [Retrieval(m)!Nothing EXCEPT !.asOf = asOf, !.left = RowsOf(m)]
  BY DEF Retrieval!Retrieve, RowsOf
<1>2. /\ answer'.asOf = asOf /\ answer'.left = RowsOf(m) /\ answer'.selected = {}
      /\ answer'.used = 0 /\ answer'.notes = 0
  BY <1>1 DEF Retrieval!Nothing
<1>3. RowsOf(m)' = RowsOf(m)
  BY <1>1 DEF RowsOf, Retrieval!Rows
<1>4. (answer \in Answer(m))'
  <2>1. asOf \in 0..m.days
    BY DEF Retrieval!Days, Counted
  <2> QED BY <1>1, <1>3, <2>1 DEF Retrieval!Nothing, Answer
<1>5. Summed(m)'
  <2>1. Retrieval(m)!TokensOf(answer.selected)' = {} /\ Retrieval(m)!Notes(answer.selected)' = {}
    BY <1>2 DEF Retrieval!TokensOf, Retrieval!Notes
  <2>2. Retrieval(m)!Tokens(answer.selected)' = 0
    BY <2>1, FS_EmptySet DEF Retrieval!Tokens, Cardinality, Retrieval!Cardinality
  <2>3. Retrieval(m)!Tokens(Retrieval(m)!Notes(answer.selected))' = 0
    <3>1. Retrieval(m)!TokensOf(Retrieval(m)!Notes(answer.selected))' = {}
      BY <1>2 DEF Retrieval!TokensOf, Retrieval!Notes
    <3> QED BY <3>1, FS_EmptySet DEF Retrieval!Tokens, Cardinality, Retrieval!Cardinality
  <2>4. 0 <= m.budget /\ 0 <= m.noteBudget
    BY DEF Counted
  <2> QED BY <1>2, <2>1, <2>2, <2>3, <2>4, FS_EmptySet DEF Summed
<1>6. Ordered(m)' /\ Retrieval(m)!NoLookahead'
  BY <1>2, <1>3 DEF Ordered, Retrieval!NoLookahead
<1>7. Retrieval(m)!OmittedDoNotFit'
  BY <1>2, <1>3 DEF Retrieval!OmittedDoNotFit, RowsOf
<1>8. (claims \in Seq(Claim(m)) /\ today \in 1..m.days)'
  BY <1>1 DEF RetrievalInv
<1> QED BY <1>4, <1>5, <1>6, <1>7, <1>8 DEF RetrievalInv

\* k was considered, and is not selected since it does not fit beside those before it.
Crowded(m, k) ==
  LET first == {j \in answer.selected : Retrieval(m)!Before(j, k)}
  IN  Retrieval(m)!Eligible(k, answer.asOf) =>
        \/ Retrieval(m)!Tokens(first) + claims[k].size > m.budget
        \/ claims[k].note /\ Retrieval(m)!Tokens(Retrieval(m)!Notes(first)) + claims[k].size > m.noteBudget

Omitted(m) == RowsOf(m) \ (answer.left \cup answer.selected)

\* The property of omitted claims, one by one.
LEMMA OmittedAreCrowded ==
  ASSUME NEW m
  PROVE  Retrieval(m)!OmittedDoNotFit <=> \A k \in Omitted(m) : Crowded(m, k)
  BY DEF Retrieval!OmittedDoNotFit, Omitted, Crowded, RowsOf

\* What is crowded out stays so while the table and what comes before it stay.
LEMMA CrowdedStays ==
  ASSUME NEW m, NEW k, Crowded(m, k), claims' = claims, answer'.asOf = answer.asOf,
         {j \in answer'.selected : Retrieval(m)!Before(j, k)} =
           {j \in answer.selected : Retrieval(m)!Before(j, k)}
  PROVE  Crowded(m, k)'
<1> DEFINE first == {j \in answer.selected : Retrieval(m)!Before(j, k)}
<1>1. \A j : Retrieval(m)!Before(j, k)' <=> Retrieval(m)!Before(j, k)
  BY DEF Retrieval!Before, Retrieval!Rank
<1>2. first' = first
  BY <1>1
<1>3. Retrieval(m)!Eligible(k, answer.asOf)' <=> Retrieval(m)!Eligible(k, answer.asOf)
  BY DEF Retrieval!Eligible, Retrieval!Current
<1>4. Retrieval(m)!Tokens(first)' = Retrieval(m)!Tokens(first)
  BY <1>2 DEF Retrieval!Tokens, Retrieval!TokensOf
<1>5. Retrieval(m)!Tokens(Retrieval(m)!Notes(first))' = Retrieval(m)!Tokens(Retrieval(m)!Notes(first))
  BY <1>2 DEF Retrieval!Tokens, Retrieval!TokensOf, Retrieval!Notes
<1>6. Crowded(m, k) <=>
        (Retrieval(m)!Eligible(k, answer.asOf) =>
          \/ Retrieval(m)!Tokens(first) + claims[k].size > m.budget
          \/ claims[k].note /\ Retrieval(m)!Tokens(Retrieval(m)!Notes(first)) + claims[k].size > m.noteBudget)
  BY DEF Crowded
<1>7. Crowded(m, k)' <=>
        (Retrieval(m)!Eligible(k, answer.asOf)' =>
          \/ Retrieval(m)!Tokens(first)' + claims'[k].size > m.budget
          \/ claims'[k].note
               /\ Retrieval(m)!Tokens(Retrieval(m)!Notes(first))' + claims'[k].size > m.noteBudget)
  BY DEF Crowded
<1> HIDE DEF first
<1> QED BY <1>3, <1>4, <1>5, <1>6, <1>7

\* The claim that is next comes after all that was considered, and before the rest.
LEMMA NextIsBetween ==
  ASSUME NEW m, Counted(m), RetrievalInv(m), NEW i, Retrieval(m)!IsNext(i),
         claims' = claims, answer'.left = answer.left \ {i}
  PROVE  /\ i \in RowsOf(m) /\ i \in answer.left /\ i \notin answer.selected
         /\ RowsOf(m)' = RowsOf(m)
         /\ \A j, k : Retrieval(m)!Before(j, k)' <=> Retrieval(m)!Before(j, k)
         /\ \A k \in RowsOf(m) \ answer.left :
              Retrieval(m)!Before(k, i) /\ ~ Retrieval(m)!Before(i, k)
         /\ \A k \in RowsOf(m)' \ answer'.left, j \in answer'.left : Retrieval(m)!Before(k, j)'
<1>1. claims \in Seq(Claim(m)) /\ answer.left \subseteq RowsOf(m) /\ Ordered(m)
  BY DEF RetrievalInv, Answer
<1>2. i \in answer.left /\ i \in RowsOf(m) /\ i \notin answer.selected
  BY <1>1 DEF Retrieval!IsNext, Ordered
<1>3. RowsOf(m)' = RowsOf(m)
  BY DEF RowsOf, Retrieval!Rows
<1>4. \A j, k : Retrieval(m)!Before(j, k)' <=> Retrieval(m)!Before(j, k)
  BY DEF Retrieval!Before, Retrieval!Rank
<1>5. ASSUME NEW k \in RowsOf(m) \ answer.left
      PROVE  Retrieval(m)!Before(k, i) /\ ~ Retrieval(m)!Before(i, k)
  <2>1. Retrieval(m)!Before(k, i)
    BY <1>1, <1>2 DEF Ordered
  <2> QED BY <1>1, <1>2, <2>1, BeforeOrders
<1>6. ASSUME NEW k \in RowsOf(m) \ (answer.left \ {i}), NEW j \in answer.left \ {i}
      PROVE  Retrieval(m)!Before(k, j)
  <2>1. CASE k = i
    BY <2>1 DEF Retrieval!IsNext
  <2>2. CASE k # i
    BY <1>1, <2>2 DEF Ordered
  <2> QED BY <2>1, <2>2
<1>7. \A k \in RowsOf(m)' \ answer'.left, j \in answer'.left : Retrieval(m)!Before(k, j)'
  BY <1>3, <1>4, <1>6
<1> QED BY <1>2, <1>3, <1>4, <1>5, <1>7

\* The table stays while a retrieval goes through its rows.
LEMMA AnswerTypes ==
  ASSUME NEW m, RetrievalInv(m)
  PROVE  /\ claims \in Seq(Claim(m)) /\ today \in 1..m.days
         /\ answer \in Answer(m)
         /\ answer.asOf \in 0..m.days /\ answer.left \subseteq RowsOf(m) /\ answer.selected \subseteq RowsOf(m)
         /\ answer.used \in Nat /\ answer.notes \in Nat
  BY DEF RetrievalInv, Answer

\* Selecting a claim that fits keeps the invariant of the loop.
LEMMA RetrievalSelects ==
  ASSUME NEW m, Counted(m), RetrievalInv(m), NEW i, Retrieval(m)!Select(i)
  PROVE  RetrievalInv(m)'
<1> DEFINE old == answer.selected
           size == claims[i].size
           extra == IF claims[i].note THEN size ELSE 0
<1>1. /\ Retrieval(m)!IsNext(i) /\ Retrieval(m)!Eligible(i, answer.asOf) /\ Retrieval(m)!Fits(i)
      /\ claims' = claims /\ today' = today
      /\ answer' = [answer EXCEPT !.left = answer.left \ {i},
                                  !.selected = old \cup {i},
                                  !.used = answer.used + size,
                                  !.notes = answer.notes + extra]
  BY DEF Retrieval!Select, Retrieval!Charge
<1>2. /\ answer'.asOf = answer.asOf /\ answer'.left = answer.left \ {i} /\ answer'.selected = old \cup {i}
      /\ answer'.used = answer.used + size /\ answer'.notes = answer.notes + extra
  BY <1>1, AnswerTypes DEF Answer
<1>3. /\ i \in RowsOf(m) /\ i \in answer.left /\ i \notin old
      /\ RowsOf(m)' = RowsOf(m)
      /\ \A j, k : Retrieval(m)!Before(j, k)' <=> Retrieval(m)!Before(j, k)
      /\ \A k \in RowsOf(m) \ answer.left : Retrieval(m)!Before(k, i) /\ ~ Retrieval(m)!Before(i, k)
      /\ \A k \in RowsOf(m)' \ answer'.left, j \in answer'.left : Retrieval(m)!Before(k, j)'
  BY <1>1, <1>2, NextIsBetween
<1>4. size \in Nat /\ claims[i].note \in BOOLEAN
  BY <1>3, AnswerTypes, RowFacts
<1>5. extra \in Nat
  BY <1>4
<1>6. (answer \in Answer(m))'
  <2>1. answer \in Answer(m) /\ answer.used \in Nat /\ answer.notes \in Nat
    BY AnswerTypes
  <2>2. answer.used + size \in Nat /\ answer.notes + extra \in Nat
    BY <1>4, <1>5, <2>1
  <2>3. answer.left \ {i} \in SUBSET RowsOf(m) /\ old \cup {i} \in SUBSET RowsOf(m)
    BY <1>3, AnswerTypes
  <2> HIDE DEF old, size, extra
  <2> QED BY <1>1, <1>3, <2>1, <2>2, <2>3 DEF Answer
<1>7. Summed(m)'
  <2>1. /\ IsFiniteSet(Retrieval(m)!TokensOf(old))
        /\ answer.used = Retrieval(m)!Tokens(old)
        /\ answer.notes = Retrieval(m)!Tokens(Retrieval(m)!Notes(old))
        /\ answer.used <= m.budget /\ answer.notes <= m.noteBudget
    BY DEF RetrievalInv, Summed
  <2>2. /\ Retrieval(m)!TokensOf(answer.selected)' = Retrieval(m)!TokensOf(old \cup {i})
        /\ Retrieval(m)!Tokens(answer.selected)' = Retrieval(m)!Tokens(old \cup {i})
        /\ Retrieval(m)!Tokens(Retrieval(m)!Notes(answer.selected))'
             = Retrieval(m)!Tokens(Retrieval(m)!Notes(old \cup {i}))
    BY <1>1, <1>2 DEF Retrieval!TokensOf, Retrieval!Tokens, Retrieval!Notes
  <2>3. /\ IsFiniteSet(Retrieval(m)!TokensOf(old \cup {i}))
        /\ Retrieval(m)!Tokens(old \cup {i}) = answer.used + size
    BY <1>3, <1>4, <2>1, OneMore
  <2>4. Retrieval(m)!Tokens(Retrieval(m)!Notes(old \cup {i})) = answer.notes + extra
    <3>1. CASE claims[i].note
      <4>1. Retrieval(m)!Notes(old \cup {i}) = Retrieval(m)!Notes(old) \cup {i}
        BY <3>1 DEF Retrieval!Notes
      <4>2. i \notin Retrieval(m)!Notes(old)
        BY <1>3 DEF Retrieval!Notes
      <4>3. IsFiniteSet(Retrieval(m)!TokensOf(Retrieval(m)!Notes(old)))
        <5>1. Retrieval(m)!TokensOf(Retrieval(m)!Notes(old)) \subseteq Retrieval(m)!TokensOf(old)
          BY DEF Retrieval!TokensOf, Retrieval!Notes
        <5> QED BY <2>1, <5>1, FS_Subset
      <4>4. Retrieval(m)!Tokens(Retrieval(m)!Notes(old) \cup {i})
              = Retrieval(m)!Tokens(Retrieval(m)!Notes(old)) + size
        BY <1>4, <4>2, <4>3, OneMore
      <4> QED BY <2>1, <3>1, <4>1, <4>4
    <3>2. CASE ~ claims[i].note
      <4>1. Retrieval(m)!Notes(old \cup {i}) = Retrieval(m)!Notes(old)
        BY <3>2 DEF Retrieval!Notes
      <4>2. answer.notes + extra = answer.notes
        BY <3>2, AnswerTypes
      <4> QED BY <2>1, <4>1, <4>2
    <3> QED BY <3>1, <3>2
  <2>5. answer.used + size <= m.budget
    BY <1>1 DEF Retrieval!Fits
  <2>6. answer.notes + extra <= m.noteBudget
    BY <1>1, <2>1, AnswerTypes DEF Retrieval!Fits
  <2> HIDE DEF old, size, extra
  <2> QED BY <1>2, <2>2, <2>3, <2>4, <2>5, <2>6 DEF Summed
<1>8. Ordered(m)'
  <2>1. answer'.selected \cap answer'.left = {}
    BY <1>2 DEF RetrievalInv, Ordered
  <2> QED BY <1>3, <2>1 DEF Ordered
<1>9. Retrieval(m)!NoLookahead'
  BY <1>1, <1>2 DEF RetrievalInv, Retrieval!NoLookahead, Retrieval!Eligible
<1>10. Retrieval(m)!OmittedDoNotFit'
  <2>1. Omitted(m)' = Omitted(m)
    BY <1>2, <1>3 DEF Omitted
  <2>2. ASSUME NEW k \in Omitted(m) PROVE Crowded(m, k)'
    <3>1. Crowded(m, k)
      BY OmittedAreCrowded DEF RetrievalInv
    <3>2. ~ Retrieval(m)!Before(i, k)
      BY <1>3 DEF Omitted
    <3>3. {j \in answer'.selected : Retrieval(m)!Before(j, k)} = {j \in answer.selected : Retrieval(m)!Before(j, k)}
      BY <1>2, <3>2
    <3> QED BY <1>1, <1>2, <3>1, <3>3, CrowdedStays
  <2>3. \A k \in Omitted(m)' : Crowded(m, k)'
    BY <2>1, <2>2
  <2> QED BY <2>3 DEF Retrieval!OmittedDoNotFit, Omitted, Crowded, RowsOf
<1> QED BY <1>1, <1>6, <1>7, <1>8, <1>9, <1>10 DEF RetrievalInv

\* Omitting a claim that does not fit keeps the invariant of the loop.
LEMMA RetrievalOmits ==
  ASSUME NEW m, Counted(m), RetrievalInv(m), NEW i, Retrieval(m)!Omit(i)
  PROVE  RetrievalInv(m)'
<1>1. /\ Retrieval(m)!IsNext(i) /\ ~ (Retrieval(m)!Eligible(i, answer.asOf) /\ Retrieval(m)!Fits(i))
      /\ claims' = claims /\ today' = today
      /\ answer' = [answer EXCEPT !.left = answer.left \ {i}]
  BY DEF Retrieval!Omit
<1>2. /\ answer'.asOf = answer.asOf /\ answer'.left = answer.left \ {i} /\ answer'.selected = answer.selected
      /\ answer'.used = answer.used /\ answer'.notes = answer.notes
  BY <1>1, AnswerTypes DEF Answer
<1>3. /\ i \in RowsOf(m) /\ i \in answer.left /\ i \notin answer.selected
      /\ RowsOf(m)' = RowsOf(m)
      /\ \A j, k : Retrieval(m)!Before(j, k)' <=> Retrieval(m)!Before(j, k)
      /\ \A k \in RowsOf(m) \ answer.left : Retrieval(m)!Before(k, i) /\ ~ Retrieval(m)!Before(i, k)
      /\ \A k \in RowsOf(m)' \ answer'.left, j \in answer'.left : Retrieval(m)!Before(k, j)'
  BY <1>1, <1>2, NextIsBetween
<1>4. (answer \in Answer(m))'
  <2>1. answer \in Answer(m) /\ answer.left \ {i} \in SUBSET RowsOf(m)
    BY AnswerTypes
  <2> QED BY <1>1, <1>3, <2>1 DEF Answer
<1>5. Summed(m)'
  <2>1. Summed(m)
    BY DEF RetrievalInv
  <2>2. /\ Retrieval(m)!TokensOf(answer.selected)' = Retrieval(m)!TokensOf(answer.selected)
        /\ Retrieval(m)!Tokens(answer.selected)' = Retrieval(m)!Tokens(answer.selected)
        /\ Retrieval(m)!Tokens(Retrieval(m)!Notes(answer.selected))'
             = Retrieval(m)!Tokens(Retrieval(m)!Notes(answer.selected))
    BY <1>1, <1>2 DEF Retrieval!TokensOf, Retrieval!Tokens, Retrieval!Notes
  <2> QED BY <1>2, <2>1, <2>2 DEF Summed
<1>6. Ordered(m)'
  <2>1. answer'.selected \cap answer'.left = {}
    BY <1>2 DEF RetrievalInv, Ordered
  <2> QED BY <1>3, <2>1 DEF Ordered
<1>7. Retrieval(m)!NoLookahead'
  BY <1>1, <1>2 DEF RetrievalInv, Retrieval!NoLookahead
<1>8. Retrieval(m)!OmittedDoNotFit'
  <2>1. Omitted(m)' = Omitted(m) \cup {i}
    BY <1>2, <1>3 DEF Omitted
  <2>2. ASSUME NEW k \in Omitted(m) PROVE Crowded(m, k)'
    <3>1. Crowded(m, k)
      BY OmittedAreCrowded DEF RetrievalInv
    <3> QED BY <1>1, <1>2, <3>1, CrowdedStays
  <2>3. Crowded(m, i)'
    <3>1. {j \in answer.selected : Retrieval(m)!Before(j, i)} = answer.selected
      <4>1. answer.selected \subseteq RowsOf(m) \ answer.left
        BY AnswerTypes DEF RetrievalInv, Ordered
      <4> QED BY <1>3, <4>1
    <3>2. /\ answer.used = Retrieval(m)!Tokens(answer.selected)
          /\ answer.notes = Retrieval(m)!Tokens(Retrieval(m)!Notes(answer.selected))
      BY DEF RetrievalInv, Summed
    <3>3. claims[i].size \in Nat /\ claims[i].note \in BOOLEAN /\ answer.used \in Nat /\ answer.notes \in Nat
      BY <1>3, AnswerTypes, RowFacts
    <3>4. Retrieval(m)!Eligible(i, answer.asOf) =>
            \/ answer.used + claims[i].size > m.budget
            \/ claims[i].note /\ answer.notes + claims[i].size > m.noteBudget
      BY <1>1, <3>3 DEF Retrieval!Fits, Counted
    <3>5. Crowded(m, i)
      BY <3>1, <3>2, <3>4 DEF Crowded
    <3> QED BY <1>1, <1>2, <3>5, CrowdedStays
  <2>4. \A k \in Omitted(m)' : Crowded(m, k)'
    BY <2>1, <2>2, <2>3
  <2> QED BY <2>4 DEF Retrieval!OmittedDoNotFit, Omitted, Crowded, RowsOf
<1> QED BY <1>1, <1>4, <1>5, <1>6, <1>7, <1>8, AnswerTypes DEF RetrievalInv

\* The invariant of the loop survives a step that changes nothing of it.
LEMMA RetrievalStays ==
  ASSUME NEW m, RetrievalInv(m), UNCHANGED retrievalVars
  PROVE  RetrievalInv(m)'
<1>1. claims' = claims /\ today' = today /\ answer' = answer
  BY DEF retrievalVars
<1>2. Summed(m)'
  BY <1>1 DEF RetrievalInv, Summed, Retrieval!Tokens, Retrieval!TokensOf, Retrieval!Notes
<1>3. Ordered(m)'
  BY <1>1 DEF RetrievalInv, Ordered, RowsOf, Retrieval!Rows, Retrieval!Before, Retrieval!Rank
<1>4. Retrieval(m)!NoLookahead'
  BY <1>1 DEF RetrievalInv, Retrieval!NoLookahead
<1>5. Retrieval(m)!OmittedDoNotFit'
  <2>1. \A k \in Omitted(m) : Crowded(m, k)
    BY OmittedAreCrowded DEF RetrievalInv
  <2>2. Omitted(m)' = Omitted(m)
    BY <1>1 DEF Omitted, RowsOf, Retrieval!Rows
  <2>3. \A k \in Omitted(m)' : Crowded(m, k)'
    BY <1>1, <2>1, <2>2, CrowdedStays
  <2> QED BY <2>3 DEF Retrieval!OmittedDoNotFit, Omitted, Crowded, RowsOf
<1>6. (claims \in Seq(Claim(m)) /\ today \in 1..m.days /\ answer \in Answer(m))'
  BY <1>1 DEF RetrievalInv, Answer, RowsOf, Retrieval!Rows
<1> QED BY <1>2, <1>3, <1>4, <1>5, <1>6 DEF RetrievalInv

\* The invariant of the loop is inductive.
LEMMA RetrievalStep ==
  ASSUME NEW m, Counted(m), RetrievalInv(m), Retrieval(m)!Next
  PROVE  RetrievalInv(m)'
<1>1. CASE \/ \E note \in BOOLEAN, d \in Retrieval(m)!Days, s \in m.sizes : Retrieval(m)!Observe(note, d, s)
           \/ \E i \in DOMAIN claims : Retrieval(m)!Pin(i)
           \/ Retrieval(m)!NewDay
  BY <1>1, RetrievalForgets
<1>2. CASE \E asOf \in Retrieval(m)!Days : Retrieval(m)!Retrieve(asOf)
  BY <1>2, RetrievalAsks
<1>3. CASE \E i \in answer.left : Retrieval(m)!Select(i) \/ Retrieval(m)!Omit(i)
  BY <1>3, RetrievalSelects, RetrievalOmits
<1> QED BY <1>1, <1>2, <1>3 DEF Retrieval!Next

\* It implies what the run checks of a retrieval.
LEMMA RetrievalImplies ==
  ASSUME NEW m, RetrievalInv(m)
  PROVE  Retrieval(m)!NoLookahead /\ Retrieval(m)!BudgetIsKept /\ Retrieval(m)!OmittedDoNotFit
  BY DEF RetrievalInv, Summed, Retrieval!BudgetIsKept

\* Whatever the sizes, pins and budgets (retrieve_entity): what is retrieved as of a day
\* was known by then, no budget is exceeded, and what is omitted does not fit beside the
\* selected claims of more priority.
THEOREM RetrievalIsBounded ==
  ASSUME NEW m, Counted(m)
  PROVE  Retrieval(m)!Spec =>
           [](/\ Retrieval(m)!NoLookahead
              /\ Retrieval(m)!BudgetIsKept
              /\ Retrieval(m)!OmittedDoNotFit)
<1>1. Retrieval(m)!Init => RetrievalInv(m)
  BY RetrievalInit
<1>2. RetrievalInv(m) /\ [Retrieval(m)!Next]_(Retrieval(m)!vars) => RetrievalInv(m)'
  BY RetrievalStep, RetrievalStays DEF retrievalVars, Retrieval!vars
<1>3. RetrievalInv(m) =>
        Retrieval(m)!NoLookahead /\ Retrieval(m)!BudgetIsKept /\ Retrieval(m)!OmittedDoNotFit
  BY RetrievalImplies
<1> QED BY <1>1, <1>2, <1>3, PTL DEF Retrieval!Spec

-----------------------------------------------------------------------------
(* The composition: the models of MCMemory are such parameters, and a       *)
(* behaviour keeps the invariant of its part.                               *)

HIDE DEF Configured

PartsInv ==
  /\ part = "claims" =>
       /\ Claims(EqualModel)!TypeOK
       /\ Claims(EqualModel)!SupersededByBetter
       /\ Claims(EqualModel)!NoLoneConflict
  /\ part = "ranked" => Claims(RankedModel)!TypeOK /\ Claims(RankedModel)!SupersededByBetter
  /\ part = "notes" => Claims(NotesModel)!TypeOK /\ Claims(NotesModel)!NoLoneConflict
  /\ part = "cards" => CardsInv(CardsModel)
  /\ part = "failures" => FailuresInv(FailuresModel)
  /\ part = "retrieval" => RetrievalInv(RetrievalModel)

\* The models give the parameters values that the theorems admit.
LEMMA ModelsFit ==
  /\ Configured(EqualModel) /\ Claims(EqualModel)!OneAuthority
  /\ Configured(RankedModel)
  /\ Configured(NotesModel) /\ Claims(NotesModel)!OneAuthority
  /\ Bounded(CardsModel) /\ Bounded(FailuresModel) /\ Undisturbed(FailuresModel)
  /\ CardsModel.symbols = FailuresModel.symbols
  /\ Counted(RetrievalModel)
<1>1. Configured(EqualModel) /\ Claims(EqualModel)!OneAuthority
  BY DEF EqualModel, Configured, Claims!OneAuthority
<1>2. Configured(RankedModel)
  BY DEF RankedModel, Configured
<1>3. Configured(NotesModel) /\ Claims(NotesModel)!OneAuthority
  BY DEF NotesModel, Configured, Claims!OneAuthority
<1>4. Bounded(CardsModel) /\ Bounded(FailuresModel) /\ CardsModel.symbols = FailuresModel.symbols
  BY DEF Bounded, CardsModel, FailuresModel
<1>5. Undisturbed(FailuresModel)
  BY <1>4 DEF Undisturbed, FailuresModel
<1>6. Counted(RetrievalModel)
  BY DEF Counted, RetrievalModel
<1> QED BY <1>1, <1>2, <1>3, <1>4, <1>5, <1>6

\* The invariant of the part at hand holds at first.
LEMMA PartsBegin == PartsInit => PartsInv
<1> SUFFICES ASSUME PartsInit PROVE PartsInv
  OBVIOUS
<1>1. Files(CardsModel)!Init /\ Files(FailuresModel)!Init /\ Retrieval(RetrievalModel)!Init
  <2>1. Files(CardsModel)!Init /\ Retrieval(RetrievalModel)!Init
    BY DEF PartsInit
  <2>2. Files(FailuresModel)!Init
    BY <2>1, ModelsFit DEF Files!Init, Files!NoCard, Files!Idle
  <2> QED BY <2>1, <2>2
<1>2. /\ part = "ranked" => Claims(RankedModel)!Init
      /\ part = "notes" => Claims(NotesModel)!Init
      /\ part = "claims" => Claims(EqualModel)!Init
  BY DEF PartsInit
<1>3. CardsInv(CardsModel) /\ FailuresInv(FailuresModel) /\ RetrievalInv(RetrievalModel)
  BY <1>1, ModelsFit, CardsInit, FailuresInit, RetrievalInit
<1> QED BY <1>2, <1>3, ModelsFit, ClaimsBegin DEF PartsInv

\* A step is one of the part of the behaviour, and leaves the variables of others alone.
LEMMA PartsMoves ==
  ASSUME [PartsNext]_<<part, claimVars, cardVars, retrievalVars>>
  PROVE  /\ part' = part
         /\ part = "claims" => [Claims(EqualModel)!Next]_(Claims(EqualModel)!vars)
         /\ part = "ranked" => [Claims(RankedModel)!Next]_(Claims(RankedModel)!vars)
         /\ part = "notes" => [Claims(NotesModel)!Next]_(Claims(NotesModel)!vars)
         /\ part = "cards" => [Files(CardsModel)!Next]_(Files(CardsModel)!vars)
         /\ part = "failures" => [Files(FailuresModel)!Next]_(Files(FailuresModel)!vars)
         /\ part \notin {"cards", "failures"} => UNCHANGED cardVars
         /\ part = "retrieval" => Retrieval(RetrievalModel)!Next \/ UNCHANGED retrievalVars
<1>1. ASSUME UNCHANGED <<part, claimVars, cardVars, retrievalVars>>
      PROVE  /\ part' = part
             /\ \A m : UNCHANGED Claims(m)!vars
             /\ \A m : UNCHANGED Files(m)!vars
             /\ UNCHANGED cardVars /\ UNCHANGED retrievalVars
  BY <1>1 DEF claimVars, cardVars, retrievalVars, Claims!vars, Files!vars
<1>2. ASSUME PartsNext
      PROVE  /\ part' = part
             /\ part = "claims" => Claims(EqualModel)!Next
             /\ part = "ranked" => Claims(RankedModel)!Next
             /\ part = "notes" => Claims(NotesModel)!Next
             /\ part = "cards" => Files(CardsModel)!Next
             /\ part = "failures" => Files(FailuresModel)!Next
             /\ part \notin {"cards", "failures"} => UNCHANGED cardVars
             /\ part = "retrieval" => Retrieval(RetrievalModel)!Next
  BY <1>2 DEF PartsNext, ClaimsMove, RankedMove, NotesMove, CardsMove, FailuresMove, RetrievalMoves, Stay
<1> QED BY <1>1, <1>2

\* It is inductive.
LEMMA PartsStep ==
  ASSUME PartsInv, [PartsNext]_<<part, claimVars, cardVars, retrievalVars>>
  PROVE  PartsInv'
<1>1. part' = part
  BY PartsMoves
<1>2. ASSUME part = "claims"
      PROVE  (/\ Claims(EqualModel)!TypeOK
              /\ Claims(EqualModel)!SupersededByBetter
              /\ Claims(EqualModel)!NoLoneConflict)'
  <2>1. /\ Claims(EqualModel)!TypeOK /\ Claims(EqualModel)!SupersededByBetter
        /\ Claims(EqualModel)!NoLoneConflict
        /\ [Claims(EqualModel)!Next]_(Claims(EqualModel)!vars)
    BY <1>2, PartsMoves DEF PartsInv
  <2> QED BY <2>1, ModelsFit, TypeStep, SupersededStep, ConflictStep
<1>3. ASSUME part = "ranked" PROVE Claims(RankedModel)!TypeOK' /\ Claims(RankedModel)!SupersededByBetter'
  <2>1. /\ Claims(RankedModel)!TypeOK /\ Claims(RankedModel)!SupersededByBetter
        /\ [Claims(RankedModel)!Next]_(Claims(RankedModel)!vars)
    BY <1>3, PartsMoves DEF PartsInv
  <2> QED BY <2>1, ModelsFit, TypeStep, SupersededStep
<1>4. ASSUME part = "notes" PROVE Claims(NotesModel)!TypeOK' /\ Claims(NotesModel)!NoLoneConflict'
  <2>1. /\ Claims(NotesModel)!TypeOK /\ Claims(NotesModel)!NoLoneConflict
        /\ [Claims(NotesModel)!Next]_(Claims(NotesModel)!vars)
    BY <1>4, PartsMoves DEF PartsInv
  <2> QED BY <2>1, ModelsFit, TypeStep, ConflictStep
<1>5. ASSUME part = "cards" PROVE CardsInv(CardsModel)'
  BY <1>5, ModelsFit, PartsMoves, CardsStep DEF PartsInv
<1>6. ASSUME part = "failures" PROVE FailuresInv(FailuresModel)'
  BY <1>6, ModelsFit, PartsMoves, FailuresStep DEF PartsInv
<1>7. ASSUME part = "retrieval" PROVE RetrievalInv(RetrievalModel)'
  BY <1>7, ModelsFit, PartsMoves, RetrievalStep, RetrievalStays DEF PartsInv
<1> QED BY <1>1, <1>2, <1>3, <1>4, <1>5, <1>6, <1>7 DEF PartsInv

\* It holds throughout.
LEMMA PartsAlways == PartsSpec => []PartsInv
<1>1. PartsInv /\ [PartsNext]_<<part, claimVars, cardVars, retrievalVars>> => PartsInv'
  BY PartsStep
<1> QED BY <1>1, PartsBegin, PTL DEF PartsSpec

\* No claim gave way to less than better evidence (accept).
THEOREM BetterSupersedes == PartsSpec => []SupersededByBetter
<1>1. PartsInv => SupersededByBetter
  BY DEF PartsInv, SupersededByBetter
<1> QED BY <1>1, PartsAlways, PTL

\* Every conflict has another side, until a correction ends it (accept, correct).
THEOREM ConflictsAreKept == PartsSpec => []NoLoneConflict
<1>1. PartsInv => NoLoneConflict
  BY DEF PartsInv, NoLoneConflict
<1> QED BY <1>1, PartsAlways, PTL

\* The tables are well formed, failed commands leave the card that the warehouse knows,
\* and retrieval keeps to its day, budgets and priorities.
THEOREM MemoryIsSound == PartsSpec => []MemoryInvariant
<1>1. PartsInv => MemoryInvariant
  BY CardsTypes, FailuresRestore, RetrievalImplies DEF PartsInv, MemoryInvariant
<1> QED BY <1>1, PartsAlways, PTL

\* What left the active view stays out of it in every part, and events stay.
THEOREM HistoryIsKept == PartsSpec => HistoryIsFinal
<1>1. PartsInv /\ [PartsNext]_<<part, claimVars, cardVars, retrievalVars>> =>
        [/\ part = "claims" => Claims(EqualModel)!HistoryStays
         /\ part = "ranked" => Claims(RankedModel)!HistoryStays
         /\ part = "notes" => Claims(NotesModel)!HistoryStays]_claimVars
  <2> SUFFICES ASSUME PartsInv, [PartsNext]_<<part, claimVars, cardVars, retrievalVars>>,
                      UNCHANGED claimVars => FALSE
               PROVE  /\ part = "claims" => Claims(EqualModel)!HistoryStays
                      /\ part = "ranked" => Claims(RankedModel)!HistoryStays
                      /\ part = "notes" => Claims(NotesModel)!HistoryStays
    OBVIOUS
  <2>0. \A m : Claims(m)!vars = claimVars /\ (Claims(m)!vars)' = claimVars'
    BY DEF claimVars, Claims!vars
  <2>1. ASSUME part = "claims" PROVE Claims(EqualModel)!HistoryStays
    <3>1. [Claims(EqualModel)!HistoryStays]_(Claims(EqualModel)!vars)
      BY <2>1, ModelsFit, PartsMoves, HistoryStep DEF PartsInv
    <3> QED BY <2>0, <3>1
  <2>2. ASSUME part = "ranked" PROVE Claims(RankedModel)!HistoryStays
    <3>1. [Claims(RankedModel)!HistoryStays]_(Claims(RankedModel)!vars)
      BY <2>2, ModelsFit, PartsMoves, HistoryStep DEF PartsInv
    <3> QED BY <2>0, <3>1
  <2>3. ASSUME part = "notes" PROVE Claims(NotesModel)!HistoryStays
    <3>1. [Claims(NotesModel)!HistoryStays]_(Claims(NotesModel)!vars)
      BY <2>3, ModelsFit, PartsMoves, HistoryStep DEF PartsInv
    <3> QED BY <2>0, <3>1
  <2> QED BY <2>1, <2>2, <2>3
<1> QED BY <1>1, PartsAlways, PTL DEF PartsSpec, HistoryIsFinal

\* The operators on cards depend on the symbols alone.
LEMMA CardsMoves ==
  ASSUME PartsInv, [PartsNext]_<<part, claimVars, cardVars, retrievalVars>>
  PROVE  \/ UNCHANGED cardVars
         \/ \A s \in CardsModel.symbols : Files(CardsModel)!CommitsDocument(s) /\ Files(CardsModel)!KeepsEdit(s)
<1>1. ASSUME part = "cards"
      PROVE  \A s \in CardsModel.symbols : Files(CardsModel)!CommitsDocument(s) /\ Files(CardsModel)!KeepsEdit(s)
  <2>1. CardsInv(CardsModel) /\ [Files(CardsModel)!Next]_(Files(CardsModel)!vars)
    BY <1>1, PartsMoves DEF PartsInv
  <2> QED BY <2>1, ModelsFit, CommitStep, EditStep
<1>2. ASSUME part = "failures"
      PROVE  \A s \in CardsModel.symbols : Files(CardsModel)!CommitsDocument(s) /\ Files(CardsModel)!KeepsEdit(s)
  <2>1. CardsInv(FailuresModel) /\ [Files(FailuresModel)!Next]_(Files(FailuresModel)!vars)
    BY <1>2, PartsMoves DEF PartsInv, FailuresInv
  <2>2. \A s \in FailuresModel.symbols :
          Files(FailuresModel)!CommitsDocument(s) /\ Files(FailuresModel)!KeepsEdit(s)
    BY <2>1, ModelsFit, CommitStep, EditStep
  <2>3. ASSUME NEW s
        PROVE  /\ Files(FailuresModel)!CommitsDocument(s) <=> Files(CardsModel)!CommitsDocument(s)
               /\ Files(FailuresModel)!KeepsEdit(s) <=> Files(CardsModel)!KeepsEdit(s)
    BY DEF Files!CommitsDocument, Files!KeepsEdit, Files!Current, Files!NoCard
  <2> QED BY <2>2, <2>3, ModelsFit
<1> QED BY <1>1, <1>2, PartsMoves

\* A commit of claims commits the card that renders them (mutate_and_compact).
THEOREM DocumentsAreCommitted == PartsSpec => DocumentIsCommitted
<1>1. PartsInv /\ [PartsNext]_<<part, claimVars, cardVars, retrievalVars>> =>
        [\A s \in CardsModel.symbols : Files(CardsModel)!CommitsDocument(s)]_cardVars
  BY CardsMoves
<1> QED BY <1>1, PartsAlways, PTL DEF PartsSpec, DocumentIsCommitted

\* No command and no repair overwrites what a user saved (validation, quarantine).
THEOREM EditsAreKept == PartsSpec => EditIsKept
<1>1. PartsInv /\ [PartsNext]_<<part, claimVars, cardVars, retrievalVars>> =>
        [\A s \in CardsModel.symbols : Files(CardsModel)!KeepsEdit(s)]_cardVars
  BY CardsMoves
<1> QED BY <1>1, PartsAlways, PTL DEF PartsSpec, EditIsKept

=============================================================================
