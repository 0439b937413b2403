------------------------ MODULE OhlcvIngestionProofs ------------------------
(***************************************************************************)
(* OhlcvIngestion for every number of sessions and requests, any prices,   *)
(* providers and index policy: what bars and quarantine say of the         *)
(* evidence, when a bar may change, and what a repair may tell.  An        *)
(* operation may stop after any of its steps.                              *)
(***************************************************************************)
EXTENDS OhlcvIngestion, WellFoundedInduction, TLAPS

\* The sessions and the requests are counted, the commands and the providers of
\* the index policy are known.
Configured ==
  /\ Last \in Nat /\ MaxRuns \in Nat
  /\ Commands \subseteq AllCommands
  /\ DOMAIN Precedence \subseteq Nat

\* A run stores at most one row of a session.
RawInv ==
  /\ \A r \in raw : r.run <= runs
  /\ \A r, q \in raw : r.session = q.session /\ r.run = q.run => r = q

\* Every bar was valid when a build promoted it, and the builds have read it.
BarInv ==
  /\ \A r \in canonical : Valid(r) /\ r.run <= built[r.session]
  /\ \A s \in Sessions : built[s] <= runs

\* The builds have read everything.
Renewed == \A r \in raw : r.run <= built[r.session]

\* The steps of each command.
StepInv ==
  /\ op.step = "observe" => op.kind \in {"scan", "repair"} /\ op.empty = {}
  /\ op.step = "build" => op.kind \in {"build", "daily", "repair"}
  /\ op.step = "fetch" => op.kind \in {"download", "daily", "repair"}
  /\ op.step = "fetch" /\ op.kind = "repair" => op.todo # {} /\ op.todo \subseteq op.missing
  /\ op.empty \subseteq op.missing

\* What a repair has told so far: nothing before its second look at the gaps,
\* which follows a build if anything was fetched.
ToldInv ==
  /\ op.step \in {"reobserve", "resolve"} /\ op.empty # {} => Renewed
  /\ op.step = "reobserve" =>
       \A s \in op.sessions \ op.todo : s \notin Present => RepairTells(s)
  /\ op.step = "resolve" =>
       /\ op.todo \subseteq Present
       /\ \A s \in op.sessions \ op.todo : RepairTells(s)

\* The inductive invariant.
BarsInv ==
  /\ TypeOK /\ RawInv /\ BarInv /\ StepInv /\ ToldInv
  /\ BarsAreUncontested /\ EvidenceIsAccounted

-----------------------------------------------------------------------------
(* Choices *)

\* A set of naturals has a least element.
LEMMA NatMin ==
  ASSUME NEW T, T \subseteq Nat, T # {}
  PROVE  \E x \in T : \A y \in T : x <= y
<1> DEFINE R == OpToRel(<, Nat)
<1>1. \A x, y \in Nat : x < y => <<x, y>> \in R
  BY DEF OpToRel
<1>2. IsWellFoundedOn(R, Nat)
  BY NatLessThanWellFounded
<1> HIDE DEF R
<1>3. PICK x \in T : \A y \in T : ~ (<<y, x>> \in R)
  BY <1>2, WFMin
<1>4. ASSUME NEW y \in T PROVE x <= y
  <2>1. ~ (<<y, x>> \in R)
    BY <1>3
  <2>2. x \in Nat /\ y \in Nat
    OBVIOUS
  <2>3. ~ (y < x)
    BY <1>1, <2>1, <2>2, Zenon
  <2> QED BY <2>2, <2>3
<1> QED BY <1>4

\* Min is that element.
LEMMA MinIs ==
  ASSUME NEW T, T \subseteq Nat, T # {}
  PROVE  Min(T) \in T
BY NatMin DEF Min

\* Among rows of one session there is one that all others rank behind.
LEMMA TopIs ==
  ASSUME Configured, TypeOK, RawInv, NEW s \in Sessions,
         NEW rows \in SUBSET Candidates(s), rows # {}
  PROVE  /\ TopOf(rows) \in rows
         /\ \A q \in rows \ {TopOf(rows)} : RankedBefore(TopOf(rows), q)
<1> DEFINE good == {r \in rows : r.passed}
           best == IF good # {} THEN good ELSE rows
           T == {MaxRuns - r.run : r \in best}
<1>1. \A r \in rows : r \in raw /\ r.session = s /\ r.run \in 1..MaxRuns /\ r.passed \in BOOLEAN
  BY DEF Candidates, TypeOK, Rows
<1>2. T \subseteq Nat /\ T # {}
  BY <1>1 DEF Configured
<1>3. PICK x \in T : \A y \in T : x <= y
  BY <1>2, NatMin
<1>4. PICK r \in best : x = MaxRuns - r.run
  BY <1>3
<1>5. ASSUME NEW q \in rows \ {r} PROVE RankedBefore(r, q)
  <2>1. q.run # r.run
    BY <1>1, <1>5 DEF RawInv
  <2>2. CASE q \in best
    <3>1. MaxRuns - r.run <= MaxRuns - q.run
      BY <1>3, <1>4, <2>2
    <3>2. q.run < r.run
      BY <1>1, <2>1, <3>1 DEF Configured
    <3> QED BY <1>1, <2>2, <3>2 DEF RankedBefore
  <2>3. CASE q \notin best
    BY <1>1, <2>3 DEF RankedBefore
  <2> QED BY <2>2, <2>3
<1>6. \E t \in rows : \A q \in rows \ {t} : RankedBefore(t, q)
  BY <1>5
<1> QED BY <1>6 DEF TopOf

\* The preference leaves some of the rows.
LEMMA PreferredIs ==
  ASSUME Configured, NEW rows, rows # {}
  PROVE  Preferred(rows) \subseteq rows /\ Preferred(rows) # {}
<1> DEFINE known == {i \in DOMAIN Precedence : \E r \in rows : r.provider = Precedence[i]}
<1>1. CASE known = {}
  BY <1>1 DEF Preferred
<1>2. CASE known # {}
  <2>1. Min(known) \in known
    BY <1>2, MinIs DEF Configured
  <2> QED BY <1>2, <2>1 DEF Preferred
<1> QED BY <1>1, <1>2

\* Of a session with rows one is selected.
LEMMA SelectedIs ==
  ASSUME Configured, TypeOK, RawInv, NEW s \in Sessions, Candidates(s) # {}
  PROVE  /\ Selected(s) \in Candidates(s)
         /\ Selected(s) \in raw /\ Selected(s).session = s /\ Selected(s).run \in 1..MaxRuns
<1>1. Preferred(Candidates(s)) \in SUBSET Candidates(s) /\ Preferred(Candidates(s)) # {}
  BY PreferredIs
<1>2. Selected(s) \in Candidates(s)
  BY <1>1, TopIs DEF Selected
<1> QED BY <1>2 DEF Candidates, TypeOK, Rows

\* A set of naturals with a bound has a greatest element, and Max is that.
LEMMA MaxIs ==
  ASSUME NEW n \in Nat, NEW T, T \subseteq 0..n, T # {}
  PROVE  Max(T) \in T /\ \A y \in T : y <= Max(T)
<1> DEFINE U == {n - x : x \in T}
<1>1. U \subseteq Nat /\ U # {}
  <2>1. \A x \in T : n - x \in Nat
    OBVIOUS
  <2>2. PICK x \in T : TRUE
    OBVIOUS
  <2>3. n - x \in U
    OBVIOUS
  <2> HIDE DEF U
  <2>4. U \subseteq Nat
    BY <2>1 DEF U
  <2> QED BY <2>3, <2>4
<1>2. PICK u \in U : \A v \in U : u <= v
  BY <1>1, NatMin
<1>3. PICK x \in T : u = n - x
  OBVIOUS
<1>4. ASSUME NEW y \in T PROVE y <= x
  <2>1. n - x <= n - y
    BY <1>2, <1>3
  <2> QED BY <2>1
<1>5. \E t \in T : \A y \in T : y <= t
  BY <1>4
<1> QED BY <1>5 DEF Max

\* A daily sync asks for sessions.
LEMMA NextStartIs ==
  ASSUME Configured, TypeOK
  PROVE  NextStart \in Nat /\ NextStart >= 1
<1> DEFINE W == {0} \cup {r.session : r \in {q \in raw : q.passed} \cup canonical}
<1>1. W \subseteq 0..Last /\ W # {}
  BY DEF TypeOK, Rows, Sessions, Configured
<1>2. Watermark \in 0..Last
  BY <1>1, MaxIs, Last \in Nat DEF Watermark, Configured
<1> DEFINE w == Watermark
<1> HIDE DEF w
<1>3. CASE w = 0
  BY <1>3 DEF NextStart, w
<1>4. CASE w # 0
  <2>1. {1, w - 2 + 1} \subseteq 0..Last + 1 /\ Last + 1 \in Nat
    BY <1>2, <1>4 DEF w, Configured
  <2>2. Max({1, w - 2 + 1}) \in {1, w - 2 + 1} /\ 1 <= Max({1, w - 2 + 1})
    BY <2>1, MaxIs
  <2>3. NextStart = Max({1, w - 2 + 1})
    BY <1>4 DEF NextStart, w, OverlapSessions
  <2> QED BY <1>2, <1>4, <2>2, <2>3 DEF w, Configured
<1> QED BY <1>3, <1>4

-----------------------------------------------------------------------------
(* The steps *)

\* Nothing is stored at first.
LEMMA BarsInit == Configured /\ Init => BarsInv
<1> SUFFICES ASSUME Configured, Init PROVE BarsInv
  OBVIOUS
<1>1. TypeOK
  BY DEF Init, TypeOK, Idle, Configured
<1>2. RawInv /\ BarInv
  BY DEF Init, RawInv, BarInv, Configured
<1>3. StepInv /\ ToldInv
  BY DEF Init, StepInv, ToldInv, Idle
<1>4. BarsAreUncontested /\ EvidenceIsAccounted
  BY DEF Init, BarsAreUncontested, EvidenceIsAccounted, Candidates, Present
<1> QED BY <1>1, <1>2, <1>3, <1>4 DEF BarsInv

\* What the stored data satisfy, whatever the operation in progress.
DataInv == RawInv /\ BarInv /\ BarsAreUncontested /\ EvidenceIsAccounted

\* The types of an operation.
OpType ==
  op \in [kind : AllCommands \cup {"idle"},
          step : {"none", "observe", "fetch", "build", "reobserve", "resolve"},
          sessions : SUBSET Sessions, todo : SUBSET Sessions,
          missing : SUBSET Sessions, empty : SUBSET Sessions]

\* A step that stores no bars keeps what the data satisfy.
LEMMA DataKept ==
  ASSUME BarsInv, UNCHANGED <<raw, runs, canonical, quarantine, built>>
  PROVE  /\ DataInv'
         /\ Renewed => Renewed'
         /\ Present' = Present
         /\ \A s \in Sessions : gap'[s] = gap[s] /\ op.missing \subseteq op'.missing /\ RepairTells(s) => RepairTells(s)'
<1>1. RawInv' /\ BarInv'
  BY DEF BarsInv, RawInv, BarInv, Valid
<1>2. BarsAreUncontested'
  BY DEF BarsInv, BarsAreUncontested, Candidates, Valid, HasPolicy
<1>3. EvidenceIsAccounted'
  BY DEF BarsInv, EvidenceIsAccounted, Candidates, Present
<1>4. \A s \in Sessions : gap'[s] = gap[s] /\ op.missing \subseteq op'.missing /\ RepairTells(s) => RepairTells(s)'
  BY DEF RepairTells, Present, Candidates
<1> QED BY <1>1, <1>2, <1>3, <1>4 DEF DataInv, Renewed, Present

\* The parts make the whole.
LEMMA Together ==
  ASSUME BarsInv, DataInv', OpType', StepInv', ToldInv',
         UNCHANGED <<raw, runs, canonical, quarantine, built>>,
         gap' \in [Sessions -> MissingKinds \cup {"none", "resolved"}], listed' \in BOOLEAN
  PROVE  BarsInv'
<1>1. TypeOK'
  BY DEF BarsInv, TypeOK, OpType
<1> QED BY <1>1 DEF BarsInv, DataInv

\* A command begins with its steps before it.
LEMMA BeginStep ==
  ASSUME Configured, BarsInv, NEW kind, NEW step, NEW sessions \in SUBSET Sessions, NEW todo \in SUBSET Sessions,
         Begin(kind, step, sessions, todo),
         \/ step = "observe" /\ kind \in {"scan", "repair"}
         \/ step = "fetch" /\ kind \in {"download", "daily"}
         \/ step = "build" /\ kind = "build"
  PROVE  BarsInv'
<1>1. DataInv'
  BY DataKept DEF Begin
<1>2. kind \in AllCommands
  BY DEF Begin, Configured
<1>3. op' = [kind |-> kind, step |-> step, sessions |-> sessions, todo |-> todo, missing |-> {}, empty |-> {}]
  BY DEF Begin, Idle
<1>4. OpType'
  BY <1>2, <1>3 DEF OpType
<1>5. StepInv' /\ ToldInv'
  BY <1>3 DEF StepInv, ToldInv
<1> QED BY <1>1, <1>4, <1>5, Together DEF Begin, BarsInv, TypeOK

\* The operation that ends leaves nothing to tell.
LEMMA ToIdle ==
  ASSUME BarsInv, op' = Idle, UNCHANGED <<raw, runs, canonical, quarantine, gap, listed, built>>
  PROVE  BarsInv'
<1>1. DataInv'
  BY DataKept
<1>2. OpType' /\ StepInv' /\ ToldInv'
  BY DEF OpType, StepInv, ToldInv, Idle
<1> QED BY <1>1, <1>2, Together DEF BarsInv, TypeOK

\* A gap is observed.
LEMMA ObserveStep == Configured /\ BarsInv /\ Observe => BarsInv'
<1> SUFFICES ASSUME Configured, BarsInv, Observe PROVE BarsInv'
  OBVIOUS
<1> DEFINE s == Min(op.todo)
<1>0. TypeOK /\ OpType /\ StepInv /\ ToldInv
  BY DEF BarsInv, TypeOK, OpType
<1>1. s \in op.todo /\ s \in Sessions
  <2>1. op.todo \subseteq Nat /\ op.todo # {}
    BY <1>0 DEF Observe, OpType, Sessions, Configured
  <2> QED BY <1>0, <2>1, MinIs DEF OpType
<1> HIDE DEF s
<1>2. /\ gap' = [gap EXCEPT ![s] = Kind(s, op.empty)]
      /\ op' = [op EXCEPT !.todo = op.todo \ {s}]
      /\ UNCHANGED <<raw, runs, canonical, quarantine, listed, built>>
  BY DEF Observe, s
<1>3. DataInv' /\ (Renewed => Renewed') /\ Present' = Present
  BY <1>2, DataKept
<1>4. OpType' /\ StepInv'
  BY <1>0, <1>2 DEF OpType, StepInv, Observe
<1>5. gap' \in [Sessions -> MissingKinds \cup {"none", "resolved"}] /\ gap'[s] \in MissingKinds
  BY <1>0, <1>1, <1>2 DEF TypeOK, Kind, MissingKinds
<1>6. ToldInv'
  <2>1. op'.step # "resolve" /\ op'.step = op.step /\ op'.empty = op.empty /\ op'.missing = op.missing
        /\ op'.sessions = op.sessions /\ op'.todo = op.todo \ {s}
    BY <1>0, <1>2 DEF Observe, OpType
  <2>2. ASSUME op.step = "reobserve", NEW x \in op.sessions \ op'.todo, x \notin Present PROVE RepairTells(x)'
    <3>1. CASE x = s
      <4>1. gap'[x] = "PROVIDER_EMPTY" => x \in op.empty
        BY <1>0, <1>1, <1>2, <3>1 DEF Kind, TypeOK
      <4>2. gap'[x] = "PROVIDER_EMPTY" => x \in op.missing
        BY <4>1, <1>0 DEF StepInv, OpType
      <4>3. gap'[x] = "PROVIDER_EMPTY" => Renewed'
        BY <4>1, <1>0, <1>3, <2>2 DEF ToldInv
      <4>4. Renewed' => \A r \in Candidates(x)' : r.run <= built'[x]
        BY DEF Renewed, Candidates
      <4> QED BY <3>1, <4>2, <4>3, <4>4, <1>3, <1>5, <2>1, <2>2 DEF RepairTells
    <3>2. CASE x # s
      <4>1. RepairTells(x) /\ x \in Sessions
        BY <3>2, <1>0, <2>1, <2>2 DEF ToldInv, OpType
      <4>2. gap'[x] = gap[x]
        BY <1>0, <1>2, <3>2, <4>1 DEF TypeOK
      <4> QED BY <1>2, <2>1, <4>1, <4>2, DataKept
    <3> QED BY <3>1, <3>2
  <2>3. op'.step = "reobserve" /\ op'.empty # {} => Renewed'
    BY <1>0, <1>3, <2>1 DEF ToldInv
  <2> QED BY <1>3, <2>1, <2>2, <2>3 DEF ToldInv
<1> QED BY <1>2, <1>3, <1>4, <1>5, <1>6, <1>0, Together DEF TypeOK

\* What the first look at the gaps decides.
LEMMA ObservedBeforeStep == BarsInv /\ ObservedBefore => BarsInv'
<1> SUFFICES ASSUME BarsInv, ObservedBefore PROVE BarsInv'
  OBVIOUS
<1> DEFINE missing == {s \in MissingIn(op.sessions) : Kind(s, {}) = "TRUE_GAP"}
<1>0. TypeOK /\ OpType /\ StepInv
  BY DEF BarsInv, TypeOK, OpType
<1>1. missing \subseteq op.sessions /\ MissingIn(op.sessions) = op.sessions \ Present /\ op.sessions \subseteq Sessions
  BY <1>0 DEF MissingIn, OpType
<1>2. op' = IF op.kind = "scan" THEN Idle
            ELSE IF missing = {} THEN [op EXCEPT !.step = "reobserve", !.todo = MissingIn(op.sessions)]
            ELSE [op EXCEPT !.step = "fetch", !.todo = missing, !.missing = missing]
  BY DEF ObservedBefore
<1> HIDE DEF missing
<1>3. CASE op.kind = "scan"
  BY <1>2, <1>3, ToIdle DEF ObservedBefore
<1>4. CASE op.kind # "scan" /\ missing = {}
  <2>1. op' = [op EXCEPT !.step = "reobserve", !.todo = MissingIn(op.sessions)]
    BY <1>2, <1>4
  <2>2. OpType' /\ StepInv'
    BY <1>0, <1>1, <2>1 DEF OpType, StepInv
  <2>3. Present' = Present /\ DataInv'
    BY DataKept DEF ObservedBefore
  <2>4. op.empty = {}
    BY <1>0 DEF StepInv, ObservedBefore
  <2>5. ToldInv'
    BY <1>0, <1>1, <2>1, <2>3, <2>4 DEF ToldInv, OpType
  <2> QED BY <1>0, <2>2, <2>3, <2>5, Together DEF ObservedBefore, TypeOK
<1>5. CASE op.kind # "scan" /\ missing # {}
  <2>1. op' = [op EXCEPT !.step = "fetch", !.todo = missing, !.missing = missing]
    BY <1>2, <1>5
  <2>2. OpType'
    BY <1>0, <1>1, <2>1 DEF OpType
  <2>3. StepInv' /\ ToldInv'
    BY <1>0, <1>5, <2>1 DEF StepInv, ToldInv, ObservedBefore, OpType
  <2>4. DataInv'
    BY DataKept DEF ObservedBefore
  <2> QED BY <1>0, <2>2, <2>3, <2>4, Together DEF ObservedBefore, TypeOK
<1> QED BY <1>3, <1>4, <1>5

\* After a request the operation fetches on, builds or is over.
LEMMA AfterFetchIs ==
  ASSUME Configured, BarsInv, op.step = "fetch", NEW completed, NEW empty, AfterFetch(completed, empty)
  PROVE  OpType' /\ StepInv' /\ ToldInv' /\ Asked \subseteq Sessions
<1>0. OpType /\ StepInv
  BY DEF BarsInv, TypeOK, OpType
<1>1. op.kind \in {"download", "daily", "repair"}
  BY <1>0 DEF StepInv
<1>2. CASE op.kind = "download"
  <2>1. op' = Idle
    BY <1>2 DEF AfterFetch
  <2> QED BY <2>1, <1>2, <1>0 DEF OpType, StepInv, ToldInv, Idle, Asked
<1>3. CASE op.kind = "daily"
  <2>1. op' = Idle \/ op' = [op EXCEPT !.step = "build"]
    BY <1>3 DEF AfterFetch
  <2> QED BY <2>1, <1>3, <1>0 DEF OpType, StepInv, ToldInv, Idle, Asked
<1>4. CASE op.kind = "repair"
  <2> DEFINE left == op.todo \ Asked
  <2>1. op.todo # {} /\ op.todo \subseteq op.missing /\ op.todo \subseteq Sessions
    BY <1>0, <1>4 DEF StepInv, OpType
  <2>2. Min(op.todo) \in op.todo
    BY <2>1, MinIs DEF Sessions, Configured
  <2>3. Asked \subseteq op.todo
    BY <1>4, <2>2 DEF Asked
  <2>4. op' = [op EXCEPT !.todo = left, !.empty = IF empty THEN op.empty \cup Asked ELSE op.empty,
                         !.step = IF left = {} THEN "build" ELSE "fetch"]
    BY <1>4 DEF AfterFetch
  <2>5. /\ op'.kind = "repair" /\ op'.missing = op.missing /\ op'.sessions = op.sessions /\ op'.todo = left
        /\ op'.empty \subseteq op.empty \cup Asked
        /\ op'.step = IF left = {} THEN "build" ELSE "fetch"
    BY <1>0, <1>4, <2>4 DEF OpType
  <2>6. OpType'
    BY <1>0, <2>1, <2>3, <2>4 DEF OpType
  <2>7. StepInv' /\ ToldInv'
    BY <1>0, <2>1, <2>3, <2>5 DEF StepInv, ToldInv
  <2> QED BY <2>1, <2>3, <2>6, <2>7
<1> QED BY <1>1, <1>2, <1>3, <1>4

\* A request that stores nothing.
LEMMA FetchNothingStep == Configured /\ BarsInv /\ FetchNothing => BarsInv'
<1> SUFFICES ASSUME Configured, BarsInv, FetchNothing PROVE BarsInv'
  OBVIOUS
<1>1. PICK answer \in {"failed", "skipped", "empty"} : AfterFetch(answer = "skipped", answer = "empty")
  BY DEF FetchNothing
<1>2. OpType' /\ StepInv' /\ ToldInv'
  BY <1>1, AfterFetchIs DEF FetchNothing
<1>3. DataInv'
  BY DataKept DEF FetchNothing
<1> QED BY <1>2, <1>3, Together DEF FetchNothing, BarsInv, TypeOK

\* Rows are stored under a run that no build has read.
LEMMA FetchRowsStep == Configured /\ BarsInv /\ FetchRows => BarsInv'
<1> SUFFICES ASSUME Configured, BarsInv, FetchRows PROVE BarsInv'
  OBVIOUS
<1>0. TypeOK /\ RawInv /\ BarInv
  BY DEF BarsInv
<1>1. PICK provider \in Providers, passed \in BOOLEAN, answered \in SUBSET Asked \ {{}} :
     \E value \in [answered -> IF passed THEN Values \cup {Bad} ELSE {Bad}] :
       /\ raw' = raw \cup {[session |-> s, run |-> runs + 1, provider |-> provider,
                            value |-> value[s], passed |-> passed] : s \in answered}
       /\ runs' = runs + 1
       /\ AfterFetch(passed, FALSE)
  BY Zenon DEF FetchRows
<1>2. PICK value \in [answered -> IF passed THEN Values \cup {Bad} ELSE {Bad}] :
       /\ raw' = raw \cup {[session |-> s, run |-> runs + 1, provider |-> provider,
                            value |-> value[s], passed |-> passed] : s \in answered}
       /\ runs' = runs + 1
       /\ AfterFetch(passed, FALSE)
  BY <1>1, Zenon
<1>3. runs' = runs + 1 /\ runs + 1 \in 1..MaxRuns /\ runs \in Nat /\ UNCHANGED <<canonical, quarantine, gap, listed, built>>
  BY <1>0 DEF FetchRows, TypeOK, Configured
<1>4. OpType' /\ StepInv' /\ ToldInv' /\ Asked \subseteq Sessions
  BY <1>2, AfterFetchIs DEF FetchRows
<1> DEFINE new == {[session |-> s, run |-> runs + 1, provider |-> provider,
                    value |-> value[s], passed |-> passed] : s \in answered}
<1>5. /\ raw' = raw \cup new /\ new \subseteq Rows
      /\ \A r \in new : r.run = runs + 1
      /\ \A r, q \in new : r.session = q.session => r = q
  BY <1>2, <1>3, <1>4 DEF Rows
<1> HIDE DEF new
<1>6. TypeOK'
  BY <1>0, <1>3, <1>4, <1>5 DEF TypeOK, OpType
<1>7. \A r \in raw : r.run \in Nat /\ r.run <= runs
  BY <1>0 DEF RawInv, TypeOK, Rows
<1>8. RawInv'
  BY <1>0, <1>3, <1>5, <1>7 DEF RawInv
<1>9. BarInv'
  BY <1>0, <1>3 DEF BarInv, Valid, TypeOK
<1>10. \A s \in Sessions : built[s] \in Nat /\ built[s] <= runs
  BY <1>0 DEF BarInv, TypeOK
<1>11. \A s \in Sessions : \A r \in Candidates(s)' : r.run <= built'[s] => r \in Candidates(s)
  BY <1>3, <1>5, <1>10 DEF Candidates
<1>12. BarsAreUncontested'
  <2>1. \A r \in canonical : r.session \in Sessions
    BY <1>0 DEF TypeOK, Rows
  <2> QED BY <1>3, <1>11, <2>1 DEF BarsInv, BarsAreUncontested, Valid, HasPolicy
<1>13. EvidenceIsAccounted'
  BY <1>3, <1>11 DEF BarsInv, EvidenceIsAccounted, Present
<1> QED BY <1>4, <1>6, <1>8, <1>9, <1>12, <1>13 DEF BarsInv

\* What a build makes of a range.
LEMMA BuildIs ==
  ASSUME Configured, BarsInv, NEW sessions \in SUBSET Sessions, Build(sessions),
         UNCHANGED <<raw, runs>>
  PROVE  /\ canonical' \subseteq raw
         /\ \A r, q \in canonical' : r.session = q.session => r = q
         /\ quarantine' \in [Sessions -> SUBSET (1..MaxRuns)]
         /\ built' \in [Sessions -> 0..MaxRuns]
         /\ \A s \in Sessions : built'[s] = IF s \in sessions THEN runs ELSE built[s]
         /\ DataInv'
<1> DEFINE read == {s \in sessions : Candidates(s) # {}}
           promoted == {s \in read : Promoted(s)}
<1>0. TypeOK /\ RawInv /\ BarInv /\ BarsAreUncontested /\ EvidenceIsAccounted
  BY DEF BarsInv
<1>1. \A s \in read : /\ Selected(s) \in Candidates(s)
                      /\ Selected(s) \in raw /\ Selected(s).session = s /\ Selected(s).run \in 1..MaxRuns
  BY <1>0, SelectedIs
<1>2. /\ canonical' = {r \in canonical : r.session \notin read} \cup {Selected(s) : s \in promoted}
      /\ quarantine' = [s \in Sessions |->
           IF s \notin read THEN quarantine[s]
           ELSE IF Promoted(s) THEN {} ELSE quarantine[s] \cup {Selected(s).run}]
      /\ built' = [s \in Sessions |-> IF s \in sessions THEN runs ELSE built[s]]
  BY DEF Build
<1>3. \A s \in promoted : Valid(Selected(s)) /\ ~Contested(Selected(s))
  BY DEF Promoted
<1>4. \A s \in Sessions : \A r \in Candidates(s) : s \in sessions => s \in read
  OBVIOUS
<1>5. read \subseteq sessions /\ promoted \subseteq read /\ \A s \in read : Promoted(s) <=> s \in promoted
  OBVIOUS
<1> HIDE DEF read, promoted
<1>6. \A r \in canonical' : \/ r \in canonical /\ r.session \notin read
                            \/ r.session \in promoted /\ r = Selected(r.session)
  BY <1>1, <1>2, <1>5
<1>7. canonical' \subseteq raw /\ \A r, q \in canonical' : r.session = q.session => r = q
  BY <1>0, <1>1, <1>5, <1>6 DEF TypeOK
<1>8. quarantine' \in [Sessions -> SUBSET (1..MaxRuns)]
  <2>1. \A s \in Sessions : quarantine'[s] = IF s \notin read THEN quarantine[s]
           ELSE IF Promoted(s) THEN {} ELSE quarantine[s] \cup {Selected(s).run}
    BY <1>2
  <2>2. ASSUME NEW s \in Sessions PROVE quarantine'[s] \in SUBSET (1..MaxRuns)
    <3>1. quarantine[s] \in SUBSET (1..MaxRuns)
      BY <1>0 DEF TypeOK
    <3>2. s \in read => {Selected(s).run} \in SUBSET (1..MaxRuns)
      BY <1>1
    <3> QED BY <2>1, <3>1, <3>2
  <2> QED BY <1>2, <2>2
<1>9. built' \in [Sessions -> 0..MaxRuns] /\ \A s \in Sessions : built'[s] = IF s \in sessions THEN runs ELSE built[s]
  BY <1>0, <1>2 DEF TypeOK
<1>10. RawInv'
  BY <1>0 DEF RawInv
<1>11. \A r \in raw : r.session \in Sessions /\ r.run \in Nat /\ r.run <= runs /\ runs \in Nat /\ r \in Candidates(r.session)
  BY <1>0 DEF TypeOK, RawInv, Rows, Candidates
<1>12. \A r \in canonical' : r.session \in Sessions /\ (r.session \notin promoted => r.session \notin sessions)
  BY <1>4, <1>6, <1>7, <1>11
<1>13. BarInv'
  <2>1. ASSUME NEW r \in canonical' PROVE Valid(r) /\ r.run <= built'[r.session]
    BY <2>1, <1>0, <1>3, <1>5, <1>6, <1>7, <1>9, <1>11, <1>12 DEF BarInv
  <2>2. \A s \in Sessions : built'[s] <= runs
    BY <1>0, <1>9, <1>11 DEF BarInv, TypeOK
  <2> QED BY <2>1, <2>2 DEF BarInv, Valid
<1>14. BarsAreUncontested'
  <2>1. ASSUME NEW r \in canonical', NEW q \in Candidates(r.session), Valid(q), q.run <= built'[r.session], ~HasPolicy(r)
        PROVE  q.value = r.value \/ q.provider = r.provider
    <3>1. CASE r.session \in promoted
      BY <2>1, <3>1, <1>3, <1>5, <1>6 DEF Contested
    <3>2. CASE r.session \notin promoted
      <4>1. r \in canonical /\ built'[r.session] = built[r.session]
        BY <3>2, <1>6, <1>9, <1>12
      <4> QED BY <2>1, <4>1, <1>0 DEF BarsAreUncontested
    <3> QED BY <3>1, <3>2
  <2>2. \A s : Candidates(s)' = Candidates(s)
    BY DEF Candidates
  <2> QED BY <2>1, <2>2 DEF BarsAreUncontested, Valid, HasPolicy
<1>15. EvidenceIsAccounted'
  <2> SUFFICES ASSUME NEW s \in Sessions
               PROVE  /\ quarantine'[s] # {} => s \notin Present'
                      /\ (\E r \in Candidates(s) : r.run <= built'[s]) => s \in Present' \/ quarantine'[s] # {}
    BY DEF EvidenceIsAccounted, Candidates
  <2>1. s \in Present' <=> \E r \in canonical' : r.session = s
    BY DEF Present
  <2>2. s \in Present <=> \E r \in canonical : r.session = s
    BY DEF Present
  <2>3. quarantine'[s] = IF s \notin read THEN quarantine[s]
           ELSE IF s \in promoted THEN {} ELSE quarantine[s] \cup {Selected(s).run}
    BY <1>2, <1>5
  <2>4. CASE s \in promoted
    <3>1. Selected(s) \in canonical' /\ Selected(s).session = s
      BY <2>4, <1>1, <1>2, <1>5
    <3> QED BY <2>1, <2>3, <2>4, <3>1, <1>5
  <2>5. CASE s \in read /\ s \notin promoted
    <3>1. s \notin Present'
      BY <2>1, <2>5, <1>6
    <3> QED BY <2>3, <2>5, <3>1
  <2>6. CASE s \notin read
    <3>1. quarantine'[s] = quarantine[s]
      BY <2>3, <2>6
    <3>2. s \in Present' <=> s \in Present
      BY <2>1, <2>2, <2>6, <1>2, <1>5, <1>6
    <3>3. \A r \in Candidates(s) : s \notin sessions
      BY <2>6, <1>4
    <3>4. \A r \in Candidates(s) : r.run <= built'[s] => r.run <= built[s]
      BY <3>3, <1>9
    <3> QED BY <3>1, <3>2, <3>4, <1>0 DEF EvidenceIsAccounted
  <2> QED BY <2>4, <2>5, <2>6, <1>5
<1> QED BY <1>7, <1>8, <1>9, <1>10, <1>13, <1>14, <1>15 DEF DataInv

\* All but a build of a range read every session.
LEMMA PromoteStep == Configured /\ BarsInv /\ Promote => BarsInv'
<1> SUFFICES ASSUME Configured, BarsInv, Promote PROVE BarsInv'
  OBVIOUS
<1> DEFINE sessions == IF op.kind = "build" THEN op.sessions ELSE Sessions
<1>0. TypeOK /\ OpType /\ StepInv
  BY DEF BarsInv, TypeOK, OpType
<1>1. sessions \in SUBSET Sessions /\ Build(sessions) /\ UNCHANGED <<raw, runs, gap, listed>>
  BY <1>0 DEF Promote, OpType
<1>2. op' = IF op.kind = "repair"
            THEN [op EXCEPT !.step = "reobserve", !.todo = op.sessions \ Present'] ELSE Idle
  BY DEF Promote
<1>3. op.kind = "repair" => sessions = Sessions
  OBVIOUS
<1> HIDE DEF sessions
<1>4. /\ canonical' \subseteq raw
      /\ \A r, q \in canonical' : r.session = q.session => r = q
      /\ quarantine' \in [Sessions -> SUBSET (1..MaxRuns)]
      /\ built' \in [Sessions -> 0..MaxRuns]
      /\ \A s \in Sessions : built'[s] = IF s \in sessions THEN runs ELSE built[s]
      /\ DataInv'
  BY <1>1, BuildIs
<1>5. OpType'
  BY <1>0, <1>2 DEF OpType, Idle
<1>6. TypeOK'
  BY <1>0, <1>1, <1>4, <1>5 DEF TypeOK, OpType
<1>7. StepInv'
  BY <1>0, <1>2 DEF StepInv, Idle, OpType
<1>8. ToldInv'
  <2>1. CASE op.kind = "repair"
    <3>1. Renewed'
      BY <1>0, <1>1, <1>3, <1>4, <2>1 DEF Renewed, BarsInv, RawInv, TypeOK, Rows
    <3>2. op' = [op EXCEPT !.step = "reobserve", !.todo = op.sessions \ Present']
      BY <1>2, <2>1
    <3>3. op'.step = "reobserve" /\ op'.sessions = op.sessions /\ op'.todo = op.sessions \ Present'
      BY <1>0, <3>2 DEF OpType
    <3> QED BY <3>1, <3>3 DEF ToldInv
  <2>2. CASE op.kind # "repair"
    BY <1>2, <2>2 DEF ToldInv, Idle
  <2> QED BY <2>1, <2>2
<1> QED BY <1>4, <1>6, <1>7, <1>8 DEF BarsInv, DataInv

\* What the second look leaves are the sessions with bars.
LEMMA ObservedAfterStep == BarsInv /\ ObservedAfter => BarsInv'
<1> SUFFICES ASSUME BarsInv, ObservedAfter PROVE BarsInv'
  OBVIOUS
<1>0. TypeOK /\ OpType /\ StepInv /\ ToldInv
  BY DEF BarsInv, TypeOK, OpType
<1>1. op' = [op EXCEPT !.step = "resolve", !.todo = Present \cap op.sessions]
  BY DEF ObservedAfter
<1>2. /\ op'.step = "resolve" /\ op'.kind = op.kind /\ op'.empty = op.empty /\ op'.missing = op.missing
      /\ op'.sessions = op.sessions /\ op'.todo = Present \cap op.sessions
  BY <1>0, <1>1 DEF OpType
<1>3. OpType' /\ StepInv'
  BY <1>0, <1>1, <1>2 DEF OpType, StepInv
<1>4. /\ DataInv' /\ (Renewed => Renewed') /\ Present' = Present
      /\ \A s \in Sessions : gap'[s] = gap[s] /\ op.missing \subseteq op'.missing /\ RepairTells(s) => RepairTells(s)'
  BY DataKept DEF ObservedAfter
<1>5. \A s \in op.sessions : s \in Sessions /\ (s \notin Present => RepairTells(s))
  BY <1>0 DEF ToldInv, ObservedAfter, OpType
<1>6. \A s \in op.sessions : s \notin Present => RepairTells(s)'
  BY <1>2, <1>4, <1>5 DEF ObservedAfter
<1>7. ToldInv'
  BY <1>0, <1>2, <1>4, <1>6 DEF ToldInv, ObservedAfter
<1> QED BY <1>0, <1>3, <1>4, <1>7, Together DEF ObservedAfter, TypeOK

\* An observation is resolved.
LEMMA ResolveStep == BarsInv /\ Resolve => BarsInv'
<1> SUFFICES ASSUME BarsInv, Resolve PROVE BarsInv'
  OBVIOUS
<1>0. TypeOK /\ OpType /\ StepInv /\ ToldInv
  BY DEF BarsInv, TypeOK, OpType
<1>1. PICK s \in op.todo : /\ gap' = [gap EXCEPT ![s] = IF gap[s] \in MissingKinds THEN "resolved" ELSE gap[s]]
                           /\ op' = [op EXCEPT !.todo = op.todo \ {s}]
  BY DEF Resolve
<1>2. /\ op'.step = "resolve" /\ op'.kind = op.kind /\ op'.empty = op.empty /\ op'.missing = op.missing
      /\ op'.sessions = op.sessions /\ op'.todo = op.todo \ {s} /\ s \in Sessions
  BY <1>0, <1>1 DEF OpType, Resolve
<1>3. OpType' /\ StepInv'
  BY <1>0, <1>1, <1>2 DEF OpType, StepInv
<1>4. /\ DataInv' /\ (Renewed => Renewed') /\ Present' = Present
      /\ \A x \in Sessions : gap'[x] = gap[x] /\ op.missing \subseteq op'.missing /\ RepairTells(x) => RepairTells(x)'
  BY DataKept DEF Resolve
<1>5. gap' \in [Sessions -> MissingKinds \cup {"none", "resolved"}] /\ gap'[s] \notin MissingKinds
  BY <1>0, <1>1, <1>2 DEF TypeOK, MissingKinds
<1>6. s \in Present /\ op.todo \subseteq Present
  BY <1>0 DEF ToldInv, Resolve
<1>7. ASSUME NEW x \in op.sessions \ op'.todo PROVE RepairTells(x)'
  <2>1. CASE x = s
    BY <2>1, <1>4, <1>5, <1>6 DEF RepairTells, MissingKinds
  <2>2. CASE x # s
    <3>1. RepairTells(x) /\ x \in Sessions
      BY <1>0, <1>2, <1>7, <2>2 DEF ToldInv, Resolve, OpType
    <3>2. gap'[x] = gap[x]
      BY <1>0, <1>1, <2>2, <3>1 DEF TypeOK
    <3> QED BY <1>2, <1>4, <3>1, <3>2
  <2> QED BY <2>1, <2>2
<1>8. ToldInv'
  BY <1>0, <1>2, <1>4, <1>6, <1>7 DEF ToldInv, Resolve
<1> QED BY <1>0, <1>3, <1>4, <1>5, <1>8, Together DEF Resolve, TypeOK

\* Every step keeps BarsInv.
LEMMA BarsStep == Configured /\ BarsInv /\ [Next]_vars => BarsInv'
<1> SUFFICES ASSUME Configured, BarsInv, [Next]_vars PROVE BarsInv'
  OBVIOUS
<1>0. TypeOK /\ OpType /\ Last \in Nat
  BY DEF BarsInv, TypeOK, OpType, Configured
<1>1. ASSUME NEW x \in Sessions, NEW y \in Sessions
      PROVE  x..y \in SUBSET Sessions /\ MissingIn(x..y) \in SUBSET Sessions
  BY <1>0 DEF Sessions, MissingIn
<1>10. {} \in SUBSET Sessions
  OBVIOUS
<1>2. CASE Download
  <2>1. PICK x, y \in Sessions : Begin("download", "fetch", x..y, {})
    BY <1>2 DEF Download
  <2> QED BY <2>1, <1>1, <1>10, BeginStep
<1>3. CASE SyncDaily
  <2>1. PICK date \in Sessions : Begin("daily", "fetch", NextStart..date, {})
    BY <1>3 DEF SyncDaily
  <2>2. NextStart..date \in SUBSET Sessions
    BY <1>0, NextStartIs DEF Sessions
  <2> QED BY <2>1, <2>2, <1>10, BeginStep
<1>4. CASE BuildCanonical
  <2>1. PICK x, y \in Sessions : Begin("build", "build", x..y, {})
    BY <1>4 DEF BuildCanonical
  <2> QED BY <2>1, <1>1, <1>10, BeginStep
<1>5. CASE ScanGaps
  <2>1. PICK x, y \in Sessions : Begin("scan", "observe", x..y, MissingIn(x..y))
    BY <1>5 DEF ScanGaps
  <2> QED BY <2>1, <1>1, <1>10, BeginStep
<1>6. CASE RepairGaps
  <2>1. PICK x, y \in Sessions : Begin("repair", "observe", x..y, MissingIn(x..y))
    BY <1>6 DEF RepairGaps
  <2> QED BY <2>1, <1>1, <1>10, BeginStep
<1>7. CASE RepairEnds \/ Stop
  BY <1>7, ToIdle DEF RepairEnds, Stop
<1>8. CASE ChangeLifecycle
  <2>1. op' = op /\ UNCHANGED <<raw, runs, canonical, quarantine, gap, built>> /\ listed' \in BOOLEAN
    BY <1>0, <1>8 DEF ChangeLifecycle, TypeOK
  <2>2. DataInv'
    BY <2>1, DataKept
  <2>3. OpType' /\ StepInv' /\ ToldInv'
    BY <1>0, <1>8, <2>1 DEF OpType, StepInv, ToldInv, ChangeLifecycle, Idle, BarsInv
  <2> QED BY <1>0, <2>1, <2>2, <2>3, Together DEF TypeOK
<1>9. CASE UNCHANGED vars
  <2>1. op' = op /\ listed' = listed /\ gap' = gap /\ UNCHANGED <<raw, runs, canonical, quarantine, built>>
    BY <1>9 DEF vars
  <2>2. /\ DataInv' /\ (Renewed => Renewed') /\ Present' = Present
        /\ \A x \in Sessions : gap'[x] = gap[x] /\ op.missing \subseteq op'.missing /\ RepairTells(x) => RepairTells(x)'
    BY <2>1, DataKept
  <2>3. OpType' /\ StepInv'
    BY <1>0, <2>1 DEF OpType, StepInv, BarsInv
  <2>4. \A x \in op.sessions : RepairTells(x) => RepairTells(x)'
    BY <1>0, <2>1, <2>2 DEF OpType
  <2>5. ToldInv'
    BY <2>1, <2>2, <2>4 DEF ToldInv, BarsInv
  <2> QED BY <1>0, <2>1, <2>2, <2>3, <2>5, Together DEF TypeOK
<1> QED BY <1>2, <1>3, <1>4, <1>5, <1>6, <1>7, <1>8, <1>9, ObserveStep, ObservedBeforeStep, FetchNothingStep,
           FetchRowsStep, PromoteStep, ObservedAfterStep, ResolveStep DEF Next

\* BarsInv is inductive.
LEMMA BarsInduction == Configured => (Spec => []BarsInv)
<1> SUFFICES ASSUME Configured PROVE Spec => []BarsInv
  OBVIOUS
<1>1. Init => BarsInv
  BY BarsInit
<1>2. BarsInv /\ [Next]_vars => BarsInv'
  BY BarsStep
<1> QED BY <1>1, <1>2, PTL DEF Spec

\* No bar stands against valid evidence a build has read, and what a build has
\* read became a bar or is open in quarantine, never both.
THEOREM BarsAreSound == Configured => (Spec => [](TypeOK /\ BarsAreUncontested /\ EvidenceIsAccounted))
<1> SUFFICES ASSUME Configured PROVE Spec => [](TypeOK /\ BarsAreUncontested /\ EvidenceIsAccounted)
  OBVIOUS
<1>1. BarsInv => TypeOK /\ BarsAreUncontested /\ EvidenceIsAccounted
  BY DEF BarsInv
<1> QED BY <1>1, BarsInduction, PTL

\* Without an index policy a bar that goes met passing evidence newer than it.
LEMMA YieldStep ==
  Configured /\ Precedence = <<>> /\ BarsInv /\ [Next]_vars => OnlyNewerEvidenceReplaces
<1> SUFFICES ASSUME Configured, Precedence = <<>>, BarsInv, [Next]_vars, NEW r \in canonical \ canonical'
             PROVE  \E q \in Candidates(r.session) : q.passed /\ q.run > r.run
  BY DEF OnlyNewerEvidenceReplaces
<1>0. TypeOK /\ RawInv /\ BarInv /\ BarsAreUncontested
  BY DEF BarsInv
<1>1. Promote
  BY DEF Next, vars, Download, SyncDaily, BuildCanonical, ScanGaps, RepairGaps, Begin, Observe, ObservedBefore,
         FetchNothing, FetchRows, ObservedAfter, Resolve, RepairEnds, Stop, ChangeLifecycle
<1> DEFINE sessions == IF op.kind = "build" THEN op.sessions ELSE Sessions
           read == {s \in sessions : Candidates(s) # {}}
           s == r.session
<1>2. canonical' = {x \in canonical : x.session \notin read}
                      \cup {Selected(x) : x \in {y \in read : Promoted(y)}}
  BY <1>1 DEF Promote, Build
<1> HIDE DEF read, sessions
<1>3. s \in read /\ (Promoted(s) => Selected(s) # r)
  BY <1>2
<1>4. /\ r \in raw /\ r \in Candidates(s) /\ s \in Sessions /\ r.run \in Nat /\ Valid(r) /\ r.passed
      /\ r.run <= built[s] /\ built[s] \in Nat
  BY <1>0 DEF TypeOK, Rows, Candidates, BarInv, Valid
<1>5. \A q \in Candidates(s) : q.run \in Nat /\ q.passed \in BOOLEAN
  BY <1>0 DEF TypeOK, Rows, Candidates
<1>6. Preferred(Candidates(s)) = Candidates(s) /\ ~HasPolicy(r)
  BY DEF Preferred, HasPolicy
<1>7. Selected(s) \in Candidates(s) /\ \A q \in Candidates(s) \ {Selected(s)} : RankedBefore(Selected(s), q)
  BY <1>0, <1>4, <1>6, TopIs DEF Selected
<1>8. CASE Selected(s) = r
  <2>1. Contested(r)
    BY <1>3, <1>4, <1>8 DEF Promoted
  <2>2. PICK q \in Candidates(s) : Valid(q) /\ q.provider # r.provider /\ q.value # r.value
    BY <2>1 DEF Contested
  <2>3. ~(q.run <= built[s])
    BY <2>2, <1>0, <1>6 DEF BarsAreUncontested
  <2> QED BY <2>2, <2>3, <1>4, <1>5 DEF Valid
<1>9. CASE Selected(s) # r
  <2>1. RankedBefore(Selected(s), r)
    BY <1>4, <1>7, <1>9
  <2> QED BY <2>1, <1>4, <1>5, <1>7 DEF RankedBefore
<1> QED BY <1>8, <1>9

\* The bar of a symbol without an index policy changes or goes only for passing
\* evidence newer than it, however requests fail.
THEOREM BarsYield == Configured /\ Precedence = <<>> => (Spec => BarsYieldToEvidence)
<1> SUFFICES ASSUME Configured, Precedence = <<>> PROVE Spec => BarsYieldToEvidence
  OBVIOUS
<1>1. BarsInv /\ [Next]_vars => OnlyNewerEvidenceReplaces
  BY YieldStep
<1> QED BY <1>1, BarsInduction, PTL DEF Spec, BarsYieldToEvidence

\* A repair that ends has told of every session in its range.
LEMMA RepairStep == BarsInv => (RepairEnds => RepairTold)
<1> SUFFICES ASSUME BarsInv, RepairEnds PROVE RepairTold
  OBVIOUS
<1>1. op.step = "resolve" /\ op.todo = {} /\ ToldInv
  BY DEF BarsInv, RepairEnds
<1> QED BY <1>1 DEF ToldInv, RepairTold

\* When a repair ends the open observations are exactly those of the sessions of its
\* range without a bar, whatever stopped earlier repairs.
THEOREM RepairIsTrue == Configured => (Spec => RepairTellsTheTruth)
<1> SUFFICES ASSUME Configured PROVE Spec => RepairTellsTheTruth
  OBVIOUS
<1>1. BarsInv => (RepairEnds => RepairTold)
  BY RepairStep
<1> QED BY <1>1, BarsInduction, PTL DEF RepairTellsTheTruth
=============================================================================
