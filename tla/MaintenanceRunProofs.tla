------------------------- MODULE MaintenanceRunProofs -------------------------
(***************************************************************************)
(* Invariance proofs for MaintenanceRun, for every number of producers,    *)
(* goals, jobs and crashes.                                                *)
(***************************************************************************)
EXTENDS MaintenanceRun, TLAPS, SequenceTheorems, WellFoundedInduction

\* The queue's jobs of this run.
Job == [goal : 0..expected, state : Ended \cup {"ACTIVE", "PRUNED"}, own : BOOLEAN]

\* The states of a producer.
Producer == [pc : {"off", "look", "find", "submit", "map", "finish"},
             goal : 0..(expected + 1), job : 0..Len(jobs), enqueuing : BOOLEAN]

\* Before the run exists there is nothing; a producer that looks at a goal looks
\* at one of the run's, and walks at most one beyond them.
NothingBefore ==
  status = "none" =>
    expected = 0 /\ jobs = <<>> /\ worker.pc = "idle" /\ \A p \in Producers : prod[p].pc = "off"

GoalsInRange ==
  \A p \in Producers :
    /\ prod[p].pc \in {"find", "submit", "map"} => prod[p].goal \in 1..expected
    /\ prod[p].pc = "look" => prod[p].goal \in 1..(expected + 1)

IInv == TypeOK /\ jobs \in Seq(Job) /\ NothingBefore /\ GoalsInRange /\ FinalizationAfterAcquisition

----------------------------------------------------------------------------
(* The queue *)

\* What every operation leaves of the jobs: none is forgotten, changes its goal or
\* is active again.
JobsAdvance ==
  /\ jobs' \in Seq(Job) /\ Len(jobs) <= Len(jobs')
  /\ \A j \in DOMAIN jobs : /\ j \in DOMAIN jobs'
                            /\ jobs[j].state # "ACTIVE" => jobs'[j].state # "ACTIVE"
  /\ pruning \subseteq DOMAIN jobs'

\* No finalization job appears where there was none.
NoNewFin ==
  (\E j \in DOMAIN jobs' : jobs'[j].goal = Fin) => \E j \in DOMAIN jobs : jobs[j].goal = Fin

LEMMA JobsTyped ==
  ASSUME IInv
  PROVE  /\ jobs \in Seq(Job) /\ Len(jobs) \in Nat /\ DOMAIN jobs = 1..Len(jobs)
         /\ \A j \in DOMAIN jobs : jobs[j] \in Job
         /\ expected \in 0..MaxGoals /\ expected \in Nat /\ MaxGoals \in Nat
BY MaintenanceAssumption DEF IInv, TypeOK, Job

LEMMA NothingAdvances ==
  ASSUME IInv, UNCHANGED jobs
  PROVE  JobsAdvance /\ NoNewFin
BY JobsTyped DEF JobsAdvance, NoNewFin, IInv, TypeOK

\* submit_or_join.
LEMMA SubmitAdvances ==
  ASSUME IInv, NEW g \in 0..expected, NEW own \in BOOLEAN, NEW j, SubmitOrJoin(g, own, j)
  PROVE  /\ JobsAdvance /\ j \in 1..Len(jobs')
         /\ g # Fin => NoNewFin
         /\ (\E i \in DOMAIN jobs : jobs[i].goal = g) => NoNewFin
<1>1. /\ jobs \in Seq(Job) /\ Len(jobs) \in Nat /\ DOMAIN jobs = 1..Len(jobs)
      /\ pruning \subseteq DOMAIN jobs
  BY JobsTyped DEF IInv, TypeOK
<1>2. CASE j \in DOMAIN jobs /\ UNCHANGED jobs
  BY <1>1, <1>2 DEF JobsAdvance, NoNewFin
<1>3. CASE j = Len(jobs) + 1 /\ jobs' = Append(jobs, [goal |-> g, state |-> "ACTIVE", own |-> own])
  <2> DEFINE new == [goal |-> g, state |-> "ACTIVE", own |-> own]
  <2>1. new \in Job
    BY DEF Job
  <2>2. /\ jobs' \in Seq(Job) /\ Len(jobs') = Len(jobs) + 1
        /\ jobs'[Len(jobs) + 1] = new
        /\ \A i \in 1..Len(jobs) : jobs'[i] = jobs[i]
    <3> HIDE DEF new
    <3> QED BY <1>1, <1>3, <2>1, AppendProperties DEF new
  <2>3. DOMAIN jobs' = 1..(Len(jobs) + 1)
    BY <2>2
  <2>4. JobsAdvance /\ j \in 1..Len(jobs')
    BY <1>1, <1>3, <2>2, <2>3 DEF JobsAdvance
  <2>5. \A i \in DOMAIN jobs' : i \in DOMAIN jobs \/ jobs'[i].goal = g
    BY <1>1, <2>2, <2>3
  <2>6. g # Fin => NoNewFin
    BY <1>1, <2>2, <2>5 DEF NoNewFin
  <2>7. (\E i \in DOMAIN jobs : jobs[i].goal = g) => NoNewFin
    BY <1>1, <2>2, <2>5 DEF NoNewFin
  <2> QED BY <2>4, <2>6, <2>7
<1> QED BY <1>2, <1>3 DEF SubmitOrJoin

\* The end of a job.
LEMMA EndAdvances ==
  ASSUME IInv, NEW j, NEW s \in Ended, EndAs(j, s)
  PROVE  JobsAdvance /\ NoNewFin
<1>1. /\ jobs \in Seq(Job) /\ Len(jobs) \in Nat /\ DOMAIN jobs = 1..Len(jobs)
      /\ pruning \subseteq DOMAIN jobs
      /\ \A i \in DOMAIN jobs : jobs[i] \in Job
  BY JobsTyped DEF IInv, TypeOK
<1>2. jobs' = [jobs EXCEPT ![j].state = s]
  BY DEF EndAs
<1>3. ASSUME NEW i \in DOMAIN jobs
      PROVE  /\ jobs'[i] \in Job /\ jobs'[i].goal = jobs[i].goal
             /\ jobs[i].state # "ACTIVE" => jobs'[i].state # "ACTIVE"
  <2>1. jobs'[i] = jobs[i] \/ jobs'[i] = [jobs[i] EXCEPT !.state = s]
    BY <1>1, <1>2
  <2> QED BY <1>1, <2>1 DEF Job, Ended
<1>4. jobs' = [i \in 1..Len(jobs) |-> jobs'[i]]
  BY <1>1, <1>2
<1>5. jobs' \in Seq(Job) /\ Len(jobs') = Len(jobs) /\ DOMAIN jobs' = DOMAIN jobs
  BY <1>1, <1>3, <1>4
<1> QED BY <1>1, <1>3, <1>5 DEF JobsAdvance, NoNewFin

\* The pruning of a batch.
LEMMA PruneAdvances ==
  ASSUME IInv, NEW batch,
         jobs' = [j \in DOMAIN jobs |->
                    IF j \in batch THEN [jobs[j] EXCEPT !.state = "PRUNED"] ELSE jobs[j]]
  PROVE  JobsAdvance /\ NoNewFin
<1>1. /\ jobs \in Seq(Job) /\ Len(jobs) \in Nat /\ DOMAIN jobs = 1..Len(jobs)
      /\ pruning \subseteq DOMAIN jobs
      /\ \A i \in DOMAIN jobs : jobs[i] \in Job
  BY JobsTyped DEF IInv, TypeOK
<1>2. ASSUME NEW i \in DOMAIN jobs
      PROVE  /\ jobs'[i] \in Job /\ jobs'[i].goal = jobs[i].goal
             /\ jobs[i].state # "ACTIVE" => jobs'[i].state # "ACTIVE"
  <2>1. jobs'[i] = jobs[i] \/ jobs'[i] = [jobs[i] EXCEPT !.state = "PRUNED"]
    OBVIOUS
  <2> QED BY <1>1, <2>1 DEF Job
<1>3. jobs' \in Seq(Job) /\ Len(jobs') = Len(jobs) /\ DOMAIN jobs' = DOMAIN jobs
  BY <1>1, <1>2
<1> QED BY <1>1, <1>2, <1>3 DEF JobsAdvance, NoNewFin

----------------------------------------------------------------------------
(* Steps and the invariant *)

\* Finalization stays behind acquisition while mappings stay and no finalization
\* job is new.
LEMMA AcquisitionKept ==
  ASSUME IInv, JobsAdvance, NoNewFin, UNCHANGED expected,
         \A g \in 1..MaxGoals : goalJob[g] # 0 => goalJob'[g] = goalJob[g]
  PROVE  FinalizationAfterAcquisition'
<1> SUFFICES ASSUME \E j \in DOMAIN jobs' : jobs'[j].goal = Fin, NEW g \in 1..expected
             PROVE  goalJob'[g] # 0 /\ jobs'[goalJob'[g]].state # "ACTIVE"
  BY DEF FinalizationAfterAcquisition
<1>1. g \in 1..MaxGoals
  BY JobsTyped
<1>2. goalJob[g] # 0 /\ jobs[goalJob[g]].state # "ACTIVE"
  BY DEF NoNewFin, IInv, FinalizationAfterAcquisition
<1>3. goalJob[g] \in DOMAIN jobs
  BY <1>1, <1>2, JobsTyped DEF IInv, TypeOK
<1> QED BY <1>1, <1>2, <1>3 DEF JobsAdvance

\* A finalization job that is submitted when all is acquired comes after it.
LEMMA AcquisitionDone ==
  ASSUME IInv, JobsAdvance, Acquired, UNCHANGED <<expected, goalJob>>
  PROVE  FinalizationAfterAcquisition'
<1> SUFFICES ASSUME NEW g \in 1..expected
             PROVE  goalJob'[g] # 0 /\ jobs'[goalJob'[g]].state # "ACTIVE"
  BY DEF FinalizationAfterAcquisition
<1>1. g \in 1..MaxGoals
  BY JobsTyped
<1>2. goalJob[g] # 0 /\ jobs[goalJob[g]].state # "ACTIVE"
  BY DEF Acquired, Ended
<1>3. goalJob[g] \in DOMAIN jobs
  BY <1>1, <1>2, JobsTyped DEF IInv, TypeOK
<1> QED BY <1>2, <1>3 DEF JobsAdvance

\* What is typed stays typed when jobs are added.
LEMMA TypesWiden ==
  ASSUME IInv, JobsAdvance, UNCHANGED expected
  PROVE  /\ goalJob \in [1..MaxGoals -> 0..Len(jobs')] /\ finJob \in 0..Len(jobs')
         /\ prod \in [Producers -> Producer']
         /\ worker \in [pc : {"idle", "ended", "submitting", "final"}, job : 0..Len(jobs')]
         /\ Producer \subseteq Producer'
         /\ Len(jobs') \in Nat /\ DOMAIN jobs' = 1..Len(jobs') /\ jobs' \in Seq(Job')
         /\ \A j \in DOMAIN jobs' : jobs'[j] \in Job'
<1>1. Len(jobs) \in Nat /\ Len(jobs') \in Nat /\ Len(jobs) <= Len(jobs')
  BY JobsTyped DEF JobsAdvance
<1>2. 0..Len(jobs) \subseteq 0..Len(jobs')
  BY <1>1
<1>3. Producer \subseteq Producer'
  BY <1>2 DEF Producer
<1>4. prod \in [Producers -> Producer]
  BY DEF IInv, TypeOK, Producer
<1>5. Job' = Job
  BY DEF Job
<1>6. jobs' \in Seq(Job') /\ DOMAIN jobs' = 1..Len(jobs') /\ \A j \in DOMAIN jobs' : jobs'[j] \in Job'
  BY <1>5 DEF JobsAdvance
<1>7. prod \in [Producers -> Producer']
  BY <1>3, <1>4
<1> QED BY <1>1, <1>2, <1>3, <1>6, <1>7 DEF IInv, TypeOK

\* A producer goes on; it may have added a job or a mapping.
LEMMA ProducerKeeps ==
  ASSUME IInv, JobsAdvance, NoNewFin, NEW p \in Producers, NEW r \in Producer', Becomes(p, r),
         UNCHANGED <<expected, finJob, worker, pruning>>,
         status' \in RunState, interruptions' \in 0..MaxInterruptions,
         goalJob' \in [1..MaxGoals -> 0..Len(jobs')],
         \A g \in 1..MaxGoals : goalJob[g] # 0 => goalJob'[g] = goalJob[g],
         r.pc \in {"find", "submit", "map"} => r.goal \in 1..expected,
         r.pc = "look" => r.goal \in 1..(expected + 1)
  PROVE  IInv'
<1>1. prod' \in [Producers -> Producer']
  BY TypesWiden DEF Becomes
<1>2. TypeOK' /\ jobs' \in Seq(Job')
  BY <1>1, TypesWiden DEF IInv, TypeOK, Producer, Job, JobsAdvance
<1>3. NothingBefore'
  BY DEF NothingBefore, RunState
<1>4. GoalsInRange'
  <2>1. prod'[p] = r /\ \A q \in Producers \ {p} : prod'[q] = prod[q]
    BY DEF Becomes, IInv, TypeOK
  <2> QED BY <2>1 DEF GoalsInRange, IInv
<1> QED BY <1>2, <1>3, <1>4, AcquisitionKept DEF IInv

\* Everybody else: the mappings of goals and the producers stay.
LEMMA OthersKeep ==
  ASSUME IInv, JobsAdvance, NoNewFin \/ Acquired, UNCHANGED <<expected, goalJob, prod>>,
         status' \in RunState \cup {"none"}, finJob' \in 0..Len(jobs'),
         worker' \in [pc : {"idle", "ended", "submitting", "final"}, job : 0..Len(jobs')],
         pruning' \subseteq DOMAIN jobs', interruptions' \in 0..MaxInterruptions,
         status' = "none" => status = "none" /\ jobs' = jobs /\ worker'.pc = "idle"
  PROVE  IInv'
<1>1. TypeOK' /\ jobs' \in Seq(Job')
  BY TypesWiden DEF IInv, TypeOK, Producer, Job
<1>2. NothingBefore' /\ GoalsInRange'
  BY DEF IInv, NothingBefore, GoalsInRange
<1>3. FinalizationAfterAcquisition'
  BY AcquisitionKept, AcquisitionDone
<1> QED BY <1>1, <1>2, <1>3 DEF IInv

----------------------------------------------------------------------------
(* The producers *)

\* Max names a member of a set of job ids.
LEMMA MaxIsMember ==
  ASSUME NEW n \in Nat, NEW S \in SUBSET (1..n), S # {}
  PROVE  Max(S) \in S
<1>0. \A k \in S : k \in 1..n
  OBVIOUS
<1> DEFINE T == {n - i : i \in S}
<1>1. T \subseteq Nat /\ T # {}
  <2>1. \A i \in S : n - i \in Nat
    OBVIOUS
  <2> QED BY <2>1
<1>2. PICK t \in T : \A u \in T : <<u, t>> \notin OpToRel(<, Nat)
  BY <1>1, NatLessThanWellFounded, WFMin, Zenon
<1>3. \A u \in T : <<u, t>> \in OpToRel(<, Nat) <=> u < t
  BY <1>1 DEF OpToRel
<1>4. PICK i \in S : t = n - i
  OBVIOUS
<1>5. ASSUME NEW j \in S
      PROVE  i >= j
  <2>1. ~(n - j < n - i)
    BY <1>2, <1>3, <1>4
  <2>2. i \in 1..n /\ j \in 1..n
    BY <1>0, <1>4
  <2> HIDE DEF T
  <2> QED BY <2>1, <2>2, SMT
<1> QED BY <1>5 DEF Max

\* The run comes to be (_prepare_run).
LEMMA CreateRunKeeps ==
  ASSUME IInv, NEW p \in Producers, CreateRun(p)
  PROVE  IInv'
<1> DEFINE r == [prod[p] EXCEPT !.pc = "look", !.goal = 1, !.enqueuing = TRUE]
<1>1. /\ status = "none" /\ status' = "ENQUEUING" /\ expected' \in 0..MaxGoals
      /\ prod' = [prod EXCEPT ![p] = r]
      /\ UNCHANGED <<goalJob, finJob, jobs, worker, pruning, interruptions>>
  BY DEF CreateRun, Becomes
<1>2. /\ expected = 0 /\ jobs = <<>> /\ \A q \in Producers : prod[q].pc = "off"
  BY <1>1 DEF IInv, NothingBefore
<1>3. expected' \in Nat /\ MaxGoals \in Nat /\ 1 \in 0..(expected' + 1) /\ 1 \in 1..(expected' + 1)
      /\ 0..(expected + 1) \subseteq 0..(expected' + 1)
  BY <1>1, <1>2, MaintenanceAssumption
<1>4. prod[p] \in Producer /\ Producer \subseteq Producer'
  BY <1>1, <1>3 DEF Producer, IInv, TypeOK
<1>5. r \in Producer' /\ r.pc = "look" /\ r.goal = 1
  BY <1>3, <1>4 DEF Producer
<1> HIDE DEF r
<1>6. prod' \in [Producers -> Producer']
  <2>1. prod \in [Producers -> Producer]
    BY DEF IInv, TypeOK, Producer
  <2> QED BY <1>1, <1>4, <1>5, <2>1
<1>7. jobs' \in Seq(Job') /\ DOMAIN jobs' = {}
  BY <1>1, <1>2
<1>8. TypeOK'
  BY <1>1, <1>6, <1>7 DEF IInv, TypeOK, Producer, RunState
<1>9. NothingBefore'
  BY <1>1 DEF NothingBefore
<1>10. prod'[p] = r /\ \A q \in Producers \ {p} : prod'[q] = prod[q]
  BY <1>1 DEF IInv, TypeOK
<1>11. GoalsInRange'
  BY <1>2, <1>3, <1>5, <1>10 DEF GoalsInRange
<1>12. FinalizationAfterAcquisition'
  BY <1>7 DEF FinalizationAfterAcquisition
<1> QED BY <1>7, <1>8, <1>9, <1>11, <1>12 DEF IInv

\* The steps that read the ledger and the queue, the end and the death of a
\* producer.
LEMMA ReadingKeeps ==
  ASSUME IInv, NEW p \in Producers,
         \/ ResumeRun(p) \/ LookUpMapping(p) \/ FindSubmitted(p) \/ FinishProduce(p)
         \/ CrashProducer(p)
  PROVE  IInv'
<1>1. JobsAdvance /\ NoNewFin /\ UNCHANGED <<expected, goalJob, finJob, jobs, worker, pruning>>
  BY NothingAdvances DEF ResumeRun, LookUpMapping, FindSubmitted, FinishProduce, CrashProducer, ledger
<1>2. /\ prod[p] \in Producer /\ Producer' = Producer /\ expected \in Nat /\ Len(jobs) \in Nat
      /\ goalJob' \in [1..MaxGoals -> 0..Len(jobs')]
  BY <1>1, JobsTyped DEF IInv, TypeOK, Producer
<1>3. status # "none" /\ status \in RunState
  BY DEF IInv, TypeOK, NothingBefore, RunState, At, ResumeRun, LookUpMapping, FindSubmitted,
     FinishProduce, CrashProducer
<1>4. status' \in RunState /\ interruptions' \in 0..MaxInterruptions
  BY <1>3, MaintenanceAssumption DEF IInv, TypeOK, RunState, ResumeRun, LookUpMapping, FindSubmitted,
     FinishProduce, CrashProducer, ledger
<1>5. \E r \in Producer :
        /\ Becomes(p, r)
        /\ r.pc \in {"find", "submit", "map"} => r.goal \in 1..expected
        /\ r.pc = "look" => r.goal \in 1..(expected + 1)
  <2>1. CASE ResumeRun(p)
    <3> DEFINE e == (status = "ENQUEUING")
    <3>1. e \in BOOLEAN /\ 1 \in 0..(expected + 1) /\ 1 \in 1..(expected + 1)
      BY <1>2
    <3>2. Becomes(p, [prod[p] EXCEPT !.pc = "look", !.goal = 1, !.enqueuing = e])
      BY <2>1 DEF ResumeRun
    <3> HIDE DEF e
    <3>3. /\ [prod[p] EXCEPT !.pc = "look", !.goal = 1, !.enqueuing = e] \in Producer
          /\ [prod[p] EXCEPT !.pc = "look", !.goal = 1, !.enqueuing = e].pc = "look"
          /\ [prod[p] EXCEPT !.pc = "look", !.goal = 1, !.enqueuing = e].goal = 1
      BY <1>2, <3>1 DEF Producer
    <3> QED BY <3>1, <3>2, <3>3
  <2>2. CASE LookUpMapping(p)
    <3> DEFINE g == prod[p].goal
               r == IF g > expected THEN [prod[p] EXCEPT !.pc = "finish"]
                    ELSE IF goalJob[g] # 0 THEN [prod[p] EXCEPT !.goal = @ + 1]
                    ELSE [prod[p] EXCEPT !.pc = "find"]
    <3>1. prod[p].pc = "look" /\ g \in 1..(expected + 1)
      BY <2>2 DEF LookUpMapping, At, IInv, GoalsInRange
    <3>2. CASE g > expected
      BY <1>2, <2>2, <3>2 DEF LookUpMapping, Producer
    <3>3. CASE ~(g > expected) /\ goalJob[g] # 0
      <4>1. g + 1 \in 1..(expected + 1) /\ g + 1 \in 0..(expected + 1)
        BY <1>2, <3>1, <3>3
      <4>2. [prod[p] EXCEPT !.goal = @ + 1] = [prod[p] EXCEPT !.goal = g + 1]
        OBVIOUS
      <4>3. Becomes(p, [prod[p] EXCEPT !.goal = g + 1])
        BY <2>2, <3>3, <4>2 DEF LookUpMapping
      <4>4. /\ [prod[p] EXCEPT !.goal = g + 1] \in Producer
            /\ [prod[p] EXCEPT !.goal = g + 1].pc = "look"
            /\ [prod[p] EXCEPT !.goal = g + 1].goal = g + 1
        BY <1>2, <3>1, <4>1 DEF Producer
      <4> QED BY <4>1, <4>3, <4>4
    <3>4. CASE ~(g > expected) /\ goalJob[g] = 0
      <4>1. g \in 1..expected
        BY <1>2, <3>1, <3>4
      <4>2. Becomes(p, [prod[p] EXCEPT !.pc = "find"])
        BY <2>2, <3>4 DEF LookUpMapping
      <4>3. /\ [prod[p] EXCEPT !.pc = "find"] \in Producer
            /\ [prod[p] EXCEPT !.pc = "find"].pc = "find"
            /\ [prod[p] EXCEPT !.pc = "find"].goal = g
        BY <1>2 DEF Producer
      <4> QED BY <4>1, <4>2, <4>3
    <3> QED BY <3>2, <3>3, <3>4
  <2>3. CASE FindSubmitted(p)
    <3> DEFINE found == FoundJobs(prod[p].goal)
    <3>1. prod[p].goal \in 1..expected
      BY <2>3 DEF FindSubmitted, At, IInv, GoalsInRange
    <3>2. CASE found # {}
      <4>1. found \subseteq 1..Len(jobs)
        BY JobsTyped DEF FoundJobs
      <4> DEFINE j == Max(found)
      <4>2. j \in 0..Len(jobs)
        <5>1. found \in SUBSET (1..Len(jobs))
          BY <4>1
        <5> HIDE DEF found
        <5>2. j \in found
          BY <1>2, <3>2, <5>1, MaxIsMember
        <5> HIDE DEF j
        <5> QED BY <1>2, <5>1, <5>2
      <4>3. Becomes(p, [prod[p] EXCEPT !.pc = "map", !.job = j])
        BY <2>3, <3>2 DEF FindSubmitted
      <4> HIDE DEF j
      <4>4. /\ [prod[p] EXCEPT !.pc = "map", !.job = j] \in Producer
            /\ [prod[p] EXCEPT !.pc = "map", !.job = j].pc = "map"
            /\ [prod[p] EXCEPT !.pc = "map", !.job = j].goal = prod[p].goal
        BY <1>2, <4>2 DEF Producer
      <4> QED BY <3>1, <4>3, <4>4
    <3>3. CASE found = {}
      <4>1. Becomes(p, [prod[p] EXCEPT !.pc = "submit"])
        BY <2>3, <3>3 DEF FindSubmitted
      <4>2. /\ [prod[p] EXCEPT !.pc = "submit"] \in Producer
            /\ [prod[p] EXCEPT !.pc = "submit"].pc = "submit"
            /\ [prod[p] EXCEPT !.pc = "submit"].goal = prod[p].goal
        BY <1>2 DEF Producer
      <4> QED BY <3>1, <4>1, <4>2
    <3> QED BY <3>2, <3>3
  <2>4. CASE FinishProduce(p) \/ CrashProducer(p)
    <3>1. OffProducer \in Producer /\ OffProducer.pc = "off"
      BY <1>2 DEF OffProducer, Producer
    <3> QED BY <2>4, <3>1 DEF FinishProduce, CrashProducer
  <2> QED BY <2>1, <2>2, <2>3, <2>4
<1> QED BY <1>1, <1>2, <1>4, <1>5, ProducerKeeps

\* Submitting a goal, with the run's origin.
LEMMA SubmitGoalKeeps ==
  ASSUME IInv, NEW p \in Producers, SubmitGoal(p)
  PROVE  IInv'
<1>1. PICK j \in Returned :
        /\ SubmitOrJoin(prod[p].goal, TRUE, j)
        /\ Becomes(p, [prod[p] EXCEPT !.pc = "map", !.job = j])
  BY DEF SubmitGoal
<1>2. /\ prod[p].goal \in 1..expected /\ status # "none" /\ expected \in Nat
      /\ UNCHANGED <<status, expected, goalJob, finJob, worker, pruning, interruptions>>
  BY JobsTyped DEF SubmitGoal, At, ledger, IInv, GoalsInRange, NothingBefore
<1>3. JobsAdvance /\ NoNewFin /\ j \in 1..Len(jobs')
  <2>1. prod[p].goal \in 0..expected /\ prod[p].goal # Fin
    BY <1>2 DEF Fin
  <2> QED BY <1>1, <2>1, SubmitAdvances
<1>4. prod[p] \in Producer' /\ j \in 0..Len(jobs')
  BY <1>2, <1>3, TypesWiden
<1> DEFINE r == [prod[p] EXCEPT !.pc = "map", !.job = j]
<1>5. r \in Producer' /\ r.pc = "map" /\ r.goal = prod[p].goal
  <2>1. prod[p] \in [pc : {"off", "look", "find", "submit", "map", "finish"},
                     goal : 0..(expected' + 1), job : 0..Len(jobs'), enqueuing : BOOLEAN]
    BY <1>4 DEF Producer
  <2>2. r \in [pc : {"off", "look", "find", "submit", "map", "finish"},
               goal : 0..(expected' + 1), job : 0..Len(jobs'), enqueuing : BOOLEAN]
    BY <1>4, <2>1
  <2> QED BY <2>1, <2>2 DEF Producer
<1>6. status' \in RunState /\ interruptions' \in 0..MaxInterruptions
      /\ goalJob' \in [1..MaxGoals -> 0..Len(jobs')]
  BY <1>2, <1>3, TypesWiden DEF IInv, TypeOK
<1> HIDE DEF r
<1>7. Becomes(p, r)
  BY <1>1 DEF r
<1> QED BY <1>2, <1>3, <1>5, <1>6, <1>7, ProducerKeeps

\* Mapping a job to its goal (UPDATE ... WHERE job_id IS NULL).
LEMMA MapJobKeeps ==
  ASSUME IInv, NEW p \in Producers, MapJob(p)
  PROVE  IInv'
<1> DEFINE r == [prod[p] EXCEPT !.pc = "look", !.goal = prod[p].goal + 1, !.job = 0]
<1>1. /\ prod[p].pc = "map" /\ prod[p].goal \in 1..expected /\ status # "none" /\ expected \in Nat
      /\ Becomes(p, r)
      /\ UNCHANGED <<status, expected, finJob, jobs, worker, pruning, interruptions>>
  BY JobsTyped DEF MapJob, At, IInv, GoalsInRange, NothingBefore
<1>2. JobsAdvance /\ NoNewFin
  BY <1>1, NothingAdvances
<1>3. prod[p] \in Producer /\ Producer' = Producer /\ Len(jobs) \in Nat
  BY <1>1, JobsTyped DEF IInv, TypeOK, Producer
<1>4. r \in Producer /\ r.pc = "look" /\ r.goal \in 1..(expected + 1)
  <2> DEFINE g == prod[p].goal + 1
  <2>1. g \in 1..(expected + 1) /\ g \in 0..(expected + 1) /\ 0 \in 0..Len(jobs)
    BY <1>1, <1>3
  <2> HIDE DEF g
  <2>2. /\ [prod[p] EXCEPT !.pc = "look", !.goal = g, !.job = 0] \in Producer
        /\ [prod[p] EXCEPT !.pc = "look", !.goal = g, !.job = 0].pc = "look"
        /\ [prod[p] EXCEPT !.pc = "look", !.goal = g, !.job = 0].goal = g
    BY <1>3, <2>1 DEF Producer
  <2> QED BY <2>1, <2>2 DEF g
<1>5. goalJob' = [goalJob EXCEPT ![prod[p].goal] =
                    IF goalJob[prod[p].goal] = 0 THEN prod[p].job ELSE goalJob[prod[p].goal]]
  BY DEF MapJob, NewMapping
<1>6. prod[p].job \in 0..Len(jobs) /\ goalJob \in [1..MaxGoals -> 0..Len(jobs)]
  BY <1>3 DEF IInv, TypeOK, Producer
<1>7. /\ goalJob' \in [1..MaxGoals -> 0..Len(jobs')]
      /\ \A g \in 1..MaxGoals : goalJob[g] # 0 => goalJob'[g] = goalJob[g]
  BY <1>1, <1>5, <1>6
<1>8. status' \in RunState /\ interruptions' \in 0..MaxInterruptions
  BY <1>1 DEF IInv, TypeOK
<1> HIDE DEF r
<1> QED BY <1>1, <1>2, <1>3, <1>4, <1>7, <1>8, ProducerKeeps

----------------------------------------------------------------------------
(* Finalization: the trigger, the recovery and the jobs they submit *)

\* The finalization job, submitted only when all is acquired.
LEMMA FinAdvances ==
  ASSUME IInv, Acquired, NEW j, SubmitOrJoin(Fin, FALSE, j)
  PROVE  JobsAdvance /\ j \in 0..Len(jobs')
<1>1. Fin \in 0..expected
  BY JobsTyped DEF Fin
<1>2. JobsAdvance /\ j \in 1..Len(jobs')
  BY <1>1, SubmitAdvances
<1> QED BY <1>2

\* What maybe_submit_session_finalization leaves behind, whether it commits or not.
LEMMA SubmissionKeeps ==
  ASSUME IInv, status # "none", MaybeSubmit \/ (SubmitWithoutCommit /\ UNCHANGED ledger),
         UNCHANGED <<prod, pruning>>, worker' \in {worker, IdleWorker},
         interruptions' \in 0..MaxInterruptions
  PROVE  IInv'
<1>1. /\ JobsAdvance
      /\ NoNewFin \/ Acquired
      /\ UNCHANGED <<expected, goalJob>>
      /\ status' \in RunState /\ finJob' \in 0..Len(jobs')
  <2>1. CASE UNCHANGED <<ledger, jobs>>
    BY <2>1, NothingAdvances DEF ledger, IInv, TypeOK
  <2>2. CASE MaybeSubmit /\ Acquired /\ finJob = 0
    BY <2>2, FinAdvances DEF MaybeSubmit, RunState
  <2>3. CASE SubmitWithoutCommit /\ UNCHANGED ledger
    <3>1. PICK j \in Returned : SubmitOrJoin(Fin, FALSE, j)
      BY <2>3 DEF SubmitWithoutCommit
    <3>2. Acquired /\ JobsAdvance
      BY <2>3, <3>1, FinAdvances DEF SubmitWithoutCommit
    <3>3. UNCHANGED <<status, expected, goalJob, finJob>>
      BY <2>3 DEF ledger
    <3> QED BY <3>2, <3>3, TypesWiden DEF IInv, TypeOK
  <2> QED BY <2>1, <2>2, <2>3 DEF MaybeSubmit
<1>2. worker' \in [pc : {"idle", "ended", "submitting", "final"}, job : 0..Len(jobs')]
  <2>1. worker \in [pc : {"idle", "ended", "submitting", "final"}, job : 0..Len(jobs')]
        /\ Len(jobs') \in Nat
    BY <1>1, TypesWiden
  <2> QED BY <2>1 DEF IdleWorker
<1>3. pruning' \subseteq DOMAIN jobs'
  BY <1>1 DEF JobsAdvance
<1> QED BY <1>1, <1>2, <1>3, OthersKeep DEF RunState

\* A worker that is not idle works for a run that exists.
LEMMA WorkingExists ==
  ASSUME IInv, worker.pc # "idle"
  PROVE  status # "none"
BY DEF IInv, NothingBefore

LEMMA TriggersKeep ==
  ASSUME IInv, \/ RecoverFinalization \/ CrashRecovery \/ TriggerFinalization \/ CrashTrigger
  PROVE  IInv'
<1>1. interruptions' \in 0..MaxInterruptions
  <2>1. \/ UNCHANGED interruptions
        \/ interruptions < MaxInterruptions /\ interruptions' = interruptions + 1
    BY DEF RecoverFinalization, CrashRecovery, TriggerFinalization, CrashTrigger, SubmitWithoutCommit
  <2>2. interruptions \in 0..MaxInterruptions
    BY DEF IInv, TypeOK
  <2> QED BY <2>1, <2>2, MaintenanceAssumption
<1>2. status # "none"
  BY WorkingExists DEF RecoverFinalization, CrashRecovery, TriggerFinalization, CrashTrigger, WorkerAt
<1>3. MaybeSubmit \/ (SubmitWithoutCommit /\ UNCHANGED ledger)
  BY DEF RecoverFinalization, CrashRecovery, TriggerFinalization, CrashTrigger, SubmitWithoutCommit
<1>4. UNCHANGED <<prod, pruning>> /\ worker' \in {worker, IdleWorker}
  BY DEF RecoverFinalization, CrashRecovery, TriggerFinalization, CrashTrigger
<1> QED BY <1>1, <1>2, <1>3, <1>4, SubmissionKeeps

----------------------------------------------------------------------------
(* The provisioner, the operator and the other callers *)

\* A step that leaves the ledger and the producers.
LEMMA QueueKeeps ==
  ASSUME IInv, status # "none", JobsAdvance, NoNewFin, UNCHANGED <<ledger, prod>>,
         worker' \in [pc : {"idle", "ended", "submitting", "final"}, job : 0..Len(jobs')],
         pruning' \subseteq DOMAIN jobs', interruptions' \in 0..MaxInterruptions
  PROVE  IInv'
<1>1. UNCHANGED <<status, expected, goalJob, finJob>>
  BY DEF ledger
<1>2. finJob' \in 0..Len(jobs') /\ status' \in RunState \cup {"none"}
  BY <1>1, TypesWiden DEF IInv, TypeOK
<1> QED BY <1>1, <1>2, OthersKeep

\* The jobs exist only after the run.
LEMMA JobsExist ==
  ASSUME IInv, NEW j \in DOMAIN jobs
  PROVE  status # "none" /\ j \in 0..Len(jobs) /\ jobs[j].goal \in 0..expected /\ jobs[j].own \in BOOLEAN
<1>1. status # "none" \/ jobs = <<>>
  BY DEF IInv, NothingBefore
<1> QED BY <1>1, JobsTyped DEF Job

LEMMA WorkerKeeps ==
  ASSUME IInv,
         \/ \E j \in DOMAIN jobs : EndAcquisition(j) \/ StartFinalization(j)
         \/ SelectRuns \/ EndFinalization \/ CrashWorker
  PROVE  IInv'
<1> DEFINE W(n) == [pc : {"idle", "ended", "submitting", "final"}, job : 0..n]
<1>1. worker \in W(Len(jobs)) /\ Len(jobs) \in Nat /\ IdleWorker \in W(Len(jobs))
  BY JobsTyped DEF IInv, TypeOK, IdleWorker
<1>2. ASSUME NEW j \in DOMAIN jobs, EndAcquisition(j)
      PROVE  IInv'
  <2>1. JobsAdvance /\ NoNewFin
    BY <1>2, EndAdvances DEF EndAcquisition
  <2>2. j \in 0..Len(jobs') /\ pruning \subseteq DOMAIN jobs'
    BY <2>1, <1>1, JobsExist DEF JobsAdvance
  <2>3. worker' \in W(Len(jobs'))
    BY <1>2, <2>2 DEF EndAcquisition
  <2> QED BY <1>2, <2>1, <2>2, <2>3, JobsExist, QueueKeeps DEF EndAcquisition, IInv, TypeOK
<1>3. ASSUME NEW j \in DOMAIN jobs, StartFinalization(j)
      PROVE  IInv'
  <2>1. JobsAdvance /\ NoNewFin
    BY <1>3, NothingAdvances DEF StartFinalization
  <2>2. j \in 0..Len(jobs') /\ pruning \subseteq DOMAIN jobs'
    BY <2>1, <1>1, JobsExist DEF JobsAdvance
  <2>3. worker' \in W(Len(jobs'))
    BY <1>3, <2>2 DEF StartFinalization
  <2> QED BY <1>3, <2>1, <2>2, <2>3, JobsExist, QueueKeeps DEF StartFinalization, IInv, TypeOK
<1>4. CASE SelectRuns \/ CrashWorker
  <2>1. UNCHANGED jobs /\ UNCHANGED <<ledger, prod, pruning>> /\ worker.pc # "idle"
        /\ interruptions' \in 0..MaxInterruptions
    BY <1>4, MaintenanceAssumption DEF SelectRuns, CrashWorker, WorkerAt, IInv, TypeOK
  <2>2. JobsAdvance /\ NoNewFin
    BY <2>1, NothingAdvances
  <2>3. worker' \in W(Len(jobs))
    <3>1. [worker EXCEPT !.pc = "submitting"] \in W(Len(jobs))
      BY <1>1
    <3> QED BY <1>1, <1>4, <3>1 DEF SelectRuns, CrashWorker
  <2>4. pruning' \subseteq DOMAIN jobs' /\ worker' \in W(Len(jobs'))
    BY <2>1, <2>2, <2>3 DEF JobsAdvance
  <2> QED BY <2>1, <2>2, <2>4, WorkingExists, QueueKeeps
<1>5. CASE EndFinalization
  <2>1. JobsAdvance /\ NoNewFin /\ worker.pc # "idle"
    BY <1>5, EndAdvances DEF EndFinalization, WorkerAt
  <2>2. worker' \in W(Len(jobs'))
    <3>1. Len(jobs') \in Nat
      BY <2>1, TypesWiden, <1>5 DEF EndFinalization, ledger
    <3> QED BY <1>5, <3>1 DEF EndFinalization, IdleWorker
  <2>3. pruning' \subseteq DOMAIN jobs'
    BY <1>5, <2>1 DEF EndFinalization, JobsAdvance
  <2> QED BY <1>5, <2>1, <2>2, <2>3, WorkingExists, QueueKeeps DEF EndFinalization, IInv, TypeOK
<1> QED BY <1>2, <1>3, <1>4, <1>5

LEMMA StageKeeps ==
  ASSUME IInv, FinalizationStage
  PROVE  IInv'
<1>1. JobsAdvance /\ NoNewFin
  BY NothingAdvances DEF FinalizationStage
<1>2. status' \in RunState
  BY DEF FinalizationStage, RunState
<1>3. /\ UNCHANGED <<expected, goalJob, finJob, jobs, prod, worker, pruning, interruptions>>
  BY DEF FinalizationStage
<1>4. finJob' \in 0..Len(jobs') /\ pruning' \subseteq DOMAIN jobs'
      /\ worker' \in [pc : {"idle", "ended", "submitting", "final"}, job : 0..Len(jobs')]
      /\ interruptions' \in 0..MaxInterruptions
  BY <1>3 DEF IInv, TypeOK
<1> QED BY <1>1, <1>2, <1>3, <1>4, OthersKeep DEF RunState

LEMMA CallersKeep ==
  ASSUME IInv,
         \/ \E j \in DOMAIN jobs : EndSilently(j) \/ RetryJob(j)
         \/ \E g \in 1..expected : SubmitElsewhere(g)
         \/ ReadRetained \/ PruneJobs
  PROVE  IInv'
<1>1. JobsAdvance /\ NoNewFin
  <2>1. ASSUME NEW j \in DOMAIN jobs, EndSilently(j) PROVE JobsAdvance /\ NoNewFin
    BY <2>1, EndAdvances DEF EndSilently, Ended
  <2>2. ASSUME NEW j \in DOMAIN jobs, RetryJob(j) PROVE JobsAdvance /\ NoNewFin
    <3>1. PICK i \in Returned : SubmitOrJoin(jobs[j].goal, jobs[j].own, i)
      BY <2>2 DEF RetryJob
    <3>2. jobs[j].goal \in 0..expected /\ jobs[j].own \in BOOLEAN
      BY JobsExist
    <3> QED BY <3>1, <3>2, SubmitAdvances
  <2>3. ASSUME NEW g \in 1..expected, SubmitElsewhere(g) PROVE JobsAdvance /\ NoNewFin
    <3>1. PICK i \in Returned : SubmitOrJoin(g, FALSE, i)
      BY <2>3 DEF SubmitElsewhere
    <3>2. g \in 0..expected /\ g # Fin
      BY JobsTyped DEF Fin
    <3> QED BY <3>1, <3>2, SubmitAdvances
  <2>4. CASE ReadRetained
    BY <2>4, NothingAdvances DEF ReadRetained
  <2>5. CASE PruneJobs
    <3>1. PICK batch \in SUBSET pruning :
            jobs' = [j \in DOMAIN jobs |->
                       IF j \in batch THEN [jobs[j] EXCEPT !.state = "PRUNED"] ELSE jobs[j]]
      BY <2>5 DEF PruneJobs
    <3> QED BY <3>1, PruneAdvances
  <2> QED BY <2>1, <2>2, <2>3, <2>4, <2>5
<1>2. status # "none"
  <2>1. ASSUME NEW g \in 1..expected PROVE status # "none"
    BY DEF IInv, NothingBefore
  <2>2. pruning # {} => status # "none"
    BY DEF IInv, TypeOK, NothingBefore
  <2> QED BY <2>1, <2>2, JobsExist DEF ReadRetained, PruneJobs
<1>3. UNCHANGED <<ledger, prod, worker, interruptions>>
  BY DEF EndSilently, RetryJob, SubmitElsewhere, ReadRetained, PruneJobs
<1>4. pruning' \subseteq DOMAIN jobs'
  <2>1. pruning \subseteq DOMAIN jobs' /\ \A j \in DOMAIN jobs : j \in DOMAIN jobs'
    BY <1>1 DEF JobsAdvance
  <2> QED BY <2>1 DEF EndSilently, RetryJob, SubmitElsewhere, ReadRetained, PruneJobs
<1>5. worker' \in [pc : {"idle", "ended", "submitting", "final"}, job : 0..Len(jobs')]
  BY <1>1, <1>3, TypesWiden DEF ledger
<1>6. interruptions' \in 0..MaxInterruptions
  BY <1>3 DEF IInv, TypeOK
<1> QED BY <1>1, <1>2, <1>3, <1>4, <1>5, <1>6, QueueKeeps

----------------------------------------------------------------------------
(* The theorems *)

LEMMA InitInvariant == Init => IInv
<1> SUFFICES ASSUME Init PROVE IInv
  OBVIOUS
<1>1. jobs \in Seq(Job) /\ DOMAIN jobs = {} /\ Len(jobs) = 0
  BY DEF Init
<1>2. TypeOK
  BY <1>1, MaintenanceAssumption DEF Init, TypeOK, OffProducer, IdleWorker
<1>3. NothingBefore /\ GoalsInRange /\ FinalizationAfterAcquisition
  BY <1>1 DEF Init, NothingBefore, GoalsInRange, FinalizationAfterAcquisition, OffProducer, IdleWorker
<1> QED BY <1>1, <1>2, <1>3 DEF IInv

LEMMA StutterKeeps == ASSUME IInv, UNCHANGED vars PROVE IInv'
BY DEF IInv, TypeOK, NothingBefore, GoalsInRange, FinalizationAfterAcquisition, Job, vars, ledger, Fin

LEMMA StepInvariant == IInv /\ [Next]_vars => IInv'
<1> SUFFICES ASSUME IInv, [Next]_vars PROVE IInv'
  OBVIOUS
<1>1. ASSUME NEW p \in Producers, ProducerStep(p) \/ CrashProducer(p)
      PROVE  IInv'
  BY <1>1, CreateRunKeeps, ReadingKeeps, SubmitGoalKeeps, MapJobKeeps DEF ProducerStep
<1>2. CASE WorkerStep \/ FinalizationStage \/ CrashWorker \/ CrashTrigger
  BY <1>2, WorkerKeeps, StageKeeps, TriggersKeep DEF WorkerStep
<1>3. CASE RecoverFinalization \/ CrashRecovery
  BY <1>3, TriggersKeep
<1>4. CASE \/ \E j \in DOMAIN jobs : EndSilently(j) \/ RetryJob(j)
           \/ \E g \in 1..expected : SubmitElsewhere(g)
           \/ ReadRetained \/ PruneJobs
  BY <1>4, CallersKeep
<1>5. CASE UNCHANGED vars
  BY <1>5, StutterKeeps
<1> QED BY <1>1, <1>2, <1>3, <1>4, <1>5 DEF Next, RunNext

\* The inductive invariant: what MaintenanceInvariant says, where the producers
\* stand among the goals, and that nothing precedes the run.
THEOREM RunInduction == Spec => []IInv
BY InitInvariant, StepInvariant, PTL DEF Spec

\* Finalization never starts over unfinished acquisition, and ledger, queue and
\* processes stay typed, for every number of producers, goals, jobs and crashes.
THEOREM FinalizationWaits == Spec => []MaintenanceInvariant
<1>1. IInv => MaintenanceInvariant
  BY DEF IInv, MaintenanceInvariant
<1> QED BY <1>1, RunInduction, PTL

\* A job once recorded for a goal, or as the finalization job, stays recorded
\* ("UPDATE ... WHERE job_id IS NULL", the check before the insert).
THEOREM RecordedJobsStay == Spec => MappingsAreStable
<1> DEFINE Stable == /\ \A g \in 1..MaxGoals : goalJob[g] # 0 => goalJob'[g] = goalJob[g]
                     /\ finJob # 0 => finJob' = finJob
<1>1. ASSUME IInv, [Next]_vars
      PROVE  Stable
  <2>1. CASE UNCHANGED <<goalJob, finJob>>
    BY <2>1
  <2>2. ASSUME NEW p \in Producers, MapJob(p)
        PROVE  Stable
    <3>1. UNCHANGED finJob /\ goalJob \in [1..MaxGoals -> 0..Len(jobs)]
      BY <1>1, <2>2 DEF MapJob, IInv, TypeOK
    <3>2. \A g \in 1..MaxGoals : goalJob[g] # 0 => goalJob'[g] = goalJob[g]
      BY <2>2, <3>1 DEF MapJob, NewMapping
    <3> QED BY <3>1, <3>2
  <2>3. CASE MaybeSubmit
    BY <2>3 DEF MaybeSubmit, ledger
  <2>4. CASE SubmitWithoutCommit
    BY <2>4, <2>1 DEF SubmitWithoutCommit, ledger
  <2>5. ASSUME NEW p \in Producers, ProducerStep(p) \/ CrashProducer(p)
        PROVE  Stable
    <3>1. MapJob(p) \/ UNCHANGED <<goalJob, finJob>>
      BY <2>5 DEF ProducerStep, CreateRun, ResumeRun, LookUpMapping, FindSubmitted, SubmitGoal,
         FinishProduce, CrashProducer, ledger
    <3> QED BY <2>1, <2>2, <3>1
  <2>6. CASE WorkerStep \/ FinalizationStage \/ CrashWorker \/ CrashTrigger
    <3>1. MaybeSubmit \/ UNCHANGED <<goalJob, finJob>>
      BY <2>6 DEF WorkerStep, EndAcquisition, StartFinalization, SelectRuns, TriggerFinalization,
         EndFinalization, FinalizationStage, CrashWorker, CrashTrigger, SubmitWithoutCommit, ledger
    <3> QED BY <2>1, <2>3, <3>1
  <2>7. CASE RecoverFinalization \/ CrashRecovery
    BY <2>7, <2>3, <2>4 DEF RecoverFinalization, CrashRecovery
  <2>8. CASE \/ \E j \in DOMAIN jobs : EndSilently(j) \/ RetryJob(j)
             \/ \E g \in 1..expected : SubmitElsewhere(g)
             \/ ReadRetained \/ PruneJobs
    BY <2>8, <2>1 DEF EndSilently, RetryJob, SubmitElsewhere, ReadRetained, PruneJobs, ledger
  <2>9. CASE UNCHANGED vars
    BY <2>9, <2>1 DEF vars, ledger
  <2> QED BY <1>1, <2>5, <2>6, <2>7, <2>8, <2>9 DEF Next, RunNext
<1>2. IInv /\ [Next]_vars => [Stable]_vars
  BY <1>1
<1> QED BY <1>2, RunInduction, PTL DEF Spec, MappingsAreStable

----------------------------------------------------------------------------
(* One producer at a time *)

\* No producer runs beside another.
Alone == \A p, q \in Producers : p = q

\* What a lone producer that is about to submit has not found does not exist; the
\* finalization job at work is one.
MissingInv ==
  /\ worker.pc = "final" => worker.job \in DOMAIN jobs /\ jobs[worker.job].goal = Fin
  /\ \A p \in Producers : At(p, "submit") => FoundJobs(prod[p].goal) = {}

\* No job changes its goal.
GoalsStay == \A i \in DOMAIN jobs : i \in DOMAIN jobs' /\ jobs'[i].goal = jobs[i].goal

\* No job of the run appears for the goal g.
NoneFound(g) == FoundJobs(g) = {} => FoundJobs(g)' = {}

\* The jobs stand as they are.
LEMMA JobsUnchanged == ASSUME NEW g, UNCHANGED jobs PROVE GoalsStay /\ NoneFound(g)
BY DEF GoalsStay, NoneFound, FoundJobs

\* A submission for another goal, without the run's correlation id, or of what
\* has a job of the run already.
LEMMA SubmissionFinds ==
  ASSUME IInv, NEW h \in 0..expected, NEW own \in BOOLEAN, NEW j, SubmitOrJoin(h, own, j), NEW g
  PROVE  GoalsStay /\ (h # g \/ ~own \/ FoundJobs(g) # {} => NoneFound(g))
<1>1. CASE UNCHANGED jobs
  BY <1>1, JobsUnchanged
<1>2. CASE jobs' = Append(jobs, [goal |-> h, state |-> "ACTIVE", own |-> own])
  <2> DEFINE new == [goal |-> h, state |-> "ACTIVE", own |-> own]
  <2>1. new \in Job /\ jobs \in Seq(Job) /\ Len(jobs) \in Nat /\ DOMAIN jobs = 1..Len(jobs)
    BY JobsTyped DEF Job
  <2>2. /\ jobs' \in Seq(Job) /\ Len(jobs') = Len(jobs) + 1
        /\ jobs'[Len(jobs) + 1] = new
        /\ \A i \in 1..Len(jobs) : jobs'[i] = jobs[i]
    <3> HIDE DEF new
    <3> QED BY <1>2, <2>1, AppendProperties DEF new
  <2>3. DOMAIN jobs' = 1..(Len(jobs) + 1)
    BY <2>2
  <2>4. \A i \in DOMAIN jobs : i \in DOMAIN jobs' /\ jobs'[i] = jobs[i]
    BY <2>1, <2>2, <2>3
  <2>5. \A i \in DOMAIN jobs' : i \in DOMAIN jobs \/ jobs'[i] = new
    BY <2>1, <2>2, <2>3
  <2>6. new.goal = h /\ new.own = own
    OBVIOUS
  <2> HIDE DEF new
  <2> QED BY <2>4, <2>5, <2>6 DEF GoalsStay, NoneFound, FoundJobs
<1> QED BY <1>1, <1>2 DEF SubmitOrJoin

\* Rows that only change their state, and are found afterwards only if they were.
LEMMA RowsFound ==
  ASSUME NEW g, DOMAIN jobs' = DOMAIN jobs,
         \A i \in DOMAIN jobs :
           /\ jobs'[i].goal = jobs[i].goal /\ jobs'[i].own = jobs[i].own
           /\ jobs'[i].state # "PRUNED" => jobs[i].state # "PRUNED" \/ jobs[i].goal # g
  PROVE  GoalsStay /\ NoneFound(g)
BY DEF GoalsStay, NoneFound, FoundJobs

\* The end of a job that is not pruned, or is not for g.
LEMMA EndFinds ==
  ASSUME IInv, NEW j, NEW s \in Ended, EndAs(j, s), NEW g,
         j \in DOMAIN jobs => jobs[j].state # "PRUNED" \/ jobs[j].goal # g
  PROVE  GoalsStay /\ NoneFound(g)
<1>1. jobs \in Seq(Job) /\ \A i \in DOMAIN jobs : jobs[i] \in Job
  BY JobsTyped
<1>2. DOMAIN jobs' = DOMAIN jobs
  BY <1>1 DEF EndAs
<1>3. ASSUME NEW i \in DOMAIN jobs
      PROVE  /\ jobs'[i].goal = jobs[i].goal /\ jobs'[i].own = jobs[i].own
             /\ jobs'[i].state # "PRUNED" => jobs[i].state # "PRUNED" \/ jobs[i].goal # g
  <2>1. jobs'[i] = IF i = j THEN [jobs[i] EXCEPT !.state = s] ELSE jobs[i]
    BY <1>1 DEF EndAs
  <2> QED BY <1>1, <2>1 DEF Job
<1> QED BY <1>2, <1>3, RowsFound

\* Pruning.
LEMMA PruneFinds ==
  ASSUME IInv, PruneJobs, NEW g
  PROVE  GoalsStay /\ NoneFound(g)
<1>1. jobs \in Seq(Job) /\ \A i \in DOMAIN jobs : jobs[i] \in Job
  BY JobsTyped
<1>2. PICK batch : jobs' = [j \in DOMAIN jobs |->
                             IF j \in batch THEN [jobs[j] EXCEPT !.state = "PRUNED"] ELSE jobs[j]]
  BY DEF PruneJobs
<1>3. ASSUME NEW i \in DOMAIN jobs
      PROVE  /\ jobs'[i].goal = jobs[i].goal /\ jobs'[i].own = jobs[i].own
             /\ jobs'[i].state # "PRUNED" => jobs[i].state # "PRUNED" \/ jobs[i].goal # g
  <2>1. jobs'[i] = IF i \in batch THEN [jobs[i] EXCEPT !.state = "PRUNED"] ELSE jobs[i]
    BY <1>2
  <2> QED BY <1>1, <2>1 DEF Job
<1> QED BY <1>2, <1>3, RowsFound

\* Whoever does not submit for the goal g leaves no job of the run for it.
LEMMA OnlySubmittedIsFound ==
  ASSUME IInv, MissingInv, [Next]_vars, NEW g, g # Fin
  PROVE  GoalsStay /\ (NoneFound(g) \/ \E p \in Producers : SubmitGoal(p))
<1> DEFINE Stands == GoalsStay /\ NoneFound(g)
<1>1. CASE UNCHANGED jobs
  BY <1>1, JobsUnchanged
<1>2. ASSUME NEW p \in Producers, SubmitGoal(p)
      PROVE  GoalsStay
  <2>1. prod[p].goal \in 0..expected
    BY <1>2, JobsTyped DEF SubmitGoal, At, IInv, GoalsInRange
  <2>2. PICK j : SubmitOrJoin(prod[p].goal, TRUE, j)
    BY <1>2 DEF SubmitGoal
  <2> QED BY <2>1, <2>2, SubmissionFinds
<1>3. ASSUME NEW j, SubmitOrJoin(Fin, FALSE, j)
      PROVE  Stands
  <2>1. Fin \in 0..expected
    BY JobsTyped DEF Fin
  <2> QED BY <1>3, <2>1, SubmissionFinds
<1>4. CASE MaybeSubmit \/ SubmitWithoutCommit
  BY <1>1, <1>3, <1>4 DEF MaybeSubmit, SubmitWithoutCommit
<1>5. ASSUME NEW j \in DOMAIN jobs, EndAcquisition(j) \/ EndSilently(j)
      PROVE  Stands
  <2>1. jobs[j].state = "ACTIVE" /\ \E s \in Ended : EndAs(j, s)
    BY <1>5 DEF EndAcquisition, EndSilently, Ended
  <2> QED BY <2>1, EndFinds
<1>6. CASE EndFinalization
  <2>1. PICK s \in Ended : EndAs(worker.job, s)
    BY <1>6 DEF EndFinalization
  <2>2. jobs[worker.job].goal = Fin
    BY <1>6 DEF EndFinalization, WorkerAt, MissingInv
  <2> QED BY <2>1, <2>2, EndFinds
<1>7. ASSUME NEW j \in DOMAIN jobs, RetryJob(j)
      PROVE  Stands
  <2>1. jobs[j] \in Job /\ jobs[j].state = "FAILED"
    BY <1>7, JobsTyped DEF RetryJob
  <2>2. PICK i : SubmitOrJoin(jobs[j].goal, jobs[j].own, i)
    BY <1>7 DEF RetryJob
  <2>3. jobs[j].goal \in 0..expected /\ jobs[j].own \in BOOLEAN
    BY <2>1 DEF Job
  <2>4. jobs[j].goal # g \/ ~jobs[j].own \/ FoundJobs(g) # {}
    BY <2>1 DEF FoundJobs
  <2> QED BY <2>2, <2>3, <2>4, SubmissionFinds
<1>8. ASSUME NEW h \in 1..expected, SubmitElsewhere(h)
      PROVE  Stands
  <2>1. PICK i : SubmitOrJoin(h, FALSE, i)
    BY <1>8 DEF SubmitElsewhere
  <2>2. h \in 0..expected
    BY JobsTyped
  <2> QED BY <2>1, <2>2, SubmissionFinds
<1>9. CASE PruneJobs
  BY <1>9, PruneFinds
<1>10. ASSUME NEW p \in Producers, ProducerStep(p) \/ CrashProducer(p)
       PROVE  SubmitGoal(p) \/ UNCHANGED jobs
  BY <1>10 DEF ProducerStep, CreateRun, ResumeRun, LookUpMapping, FindSubmitted, MapJob,
     FinishProduce, CrashProducer
<1>11. CASE WorkerStep \/ FinalizationStage \/ CrashWorker \/ CrashTrigger
  <2>1. \/ UNCHANGED jobs
        \/ MaybeSubmit \/ SubmitWithoutCommit \/ EndFinalization
        \/ \E j \in DOMAIN jobs : EndAcquisition(j)
    BY <1>11 DEF WorkerStep, StartFinalization, SelectRuns, TriggerFinalization,
       FinalizationStage, CrashWorker, CrashTrigger
  <2> QED BY <1>1, <1>4, <1>5, <1>6, <2>1
<1>12. CASE RecoverFinalization \/ CrashRecovery
  BY <1>4, <1>12 DEF RecoverFinalization, CrashRecovery
<1>13. CASE ReadRetained \/ UNCHANGED vars
  BY <1>1, <1>13 DEF ReadRetained, vars
<1> QED
  BY <1>1, <1>2, <1>5, <1>7, <1>8, <1>9, <1>10, <1>11, <1>12, <1>13 DEF Next, RunNext

\* Every step keeps what a lone producer knows.
LEMMA MissingStep ==
  ASSUME Alone, IInv, MissingInv, [Next]_vars
  PROVE  MissingInv'
<1>1. GoalsStay
  BY OnlySubmittedIsFound, 1 # Fin DEF Fin
<1>2. worker'.pc = "final" => worker'.job \in DOMAIN jobs' /\ jobs'[worker'.job].goal = Fin
  <2>1. CASE UNCHANGED worker
    BY <1>1, <2>1 DEF MissingInv, GoalsStay, Fin
  <2>2. ASSUME NEW j \in DOMAIN jobs, StartFinalization(j)
        PROVE  worker'.job \in DOMAIN jobs' /\ jobs'[worker'.job].goal = Fin
    BY <1>1, <2>2 DEF StartFinalization, GoalsStay, Fin
  <2>3. UNCHANGED worker \/ worker'.pc # "final" \/ \E j \in DOMAIN jobs : StartFinalization(j)
    <3>1. ASSUME NEW p \in Producers, ProducerStep(p) \/ CrashProducer(p)
          PROVE  UNCHANGED worker
      BY <3>1 DEF ProducerStep, CreateRun, ResumeRun, LookUpMapping, FindSubmitted, SubmitGoal,
         MapJob, FinishProduce, CrashProducer
    <3>2. CASE WorkerStep \/ FinalizationStage \/ CrashWorker \/ CrashTrigger
      <4>1. CASE SelectRuns
        <5>1. worker'.pc \in {"submitting", "idle"}
          BY <4>1 DEF SelectRuns, IdleWorker, IInv, TypeOK
        <5> QED BY <5>1
      <4>2. CASE \/ TriggerFinalization \/ EndFinalization \/ CrashWorker \/ CrashTrigger
                 \/ \E j \in DOMAIN jobs : EndAcquisition(j)
        <5>1. worker'.pc \in {"ended", "idle"}
          BY <4>2 DEF TriggerFinalization, EndFinalization, CrashWorker, CrashTrigger, EndAcquisition, IdleWorker
        <5> QED BY <5>1
      <4>3. CASE FinalizationStage
        BY <4>3 DEF FinalizationStage
      <4> QED BY <3>2, <4>1, <4>2, <4>3 DEF WorkerStep
    <3>3. CASE \/ RecoverFinalization \/ CrashRecovery \/ ReadRetained \/ PruneJobs
               \/ \E j \in DOMAIN jobs : EndSilently(j) \/ RetryJob(j)
               \/ \E g \in 1..expected : SubmitElsewhere(g)
      BY <3>3 DEF RecoverFinalization, CrashRecovery, ReadRetained, PruneJobs, EndSilently, RetryJob,
         SubmitElsewhere
    <3>4. CASE UNCHANGED vars
      BY <3>4 DEF vars
    <3> QED BY <3>1, <3>2, <3>3, <3>4 DEF Next, RunNext
  <2> QED BY <2>1, <2>2, <2>3
<1>3. ASSUME NEW p \in Producers, prod'[p].pc = "submit", NEW g, g = prod'[p].goal
      PROVE  FoundJobs(g)' = {}
  <2>1. prod \in [Producers -> Producer] /\ \A q \in Producers : q = p
    BY DEF Alone, IInv, TypeOK, Producer
  <2>2. CASE FindSubmitted(p)
    <3>1. FoundJobs(prod[p].goal) = {} /\ prod' = [prod EXCEPT ![p] = [prod[p] EXCEPT !.pc = "submit"]]
      BY <1>3, <2>1, <2>2 DEF FindSubmitted, Becomes, At, Producer
    <3>2. g = prod[p].goal /\ UNCHANGED jobs
      BY <1>3, <2>1, <2>2, <3>1 DEF FindSubmitted, Producer
    <3>3. FoundJobs(g) = {}
      BY <3>1, <3>2
    <3> QED BY <3>2, <3>3 DEF FoundJobs
  <2>3. CASE UNCHANGED prod
    <3>1. At(p, "submit") /\ g = prod[p].goal /\ FoundJobs(g) = {}
      BY <1>3, <2>3 DEF MissingInv, At
    <3>2. g # Fin
      BY <3>1, JobsTyped DEF At, IInv, GoalsInRange, Fin
    <3>3. ~ \E q \in Producers : SubmitGoal(q)
      <4>1. ASSUME NEW q \in Producers, SubmitGoal(q)
            PROVE  FALSE
        <5>1. PICK j : prod' = [prod EXCEPT ![p] = [prod[p] EXCEPT !.pc = "map", !.job = j]]
          BY <2>1, <4>1 DEF SubmitGoal, Becomes
        <5> QED BY <1>3, <2>1, <5>1 DEF Producer
      <4> QED BY <4>1
    <3>4. NoneFound(g)
      BY <3>2, <3>3, OnlySubmittedIsFound
    <3> QED BY <3>1, <3>4 DEF NoneFound
  <2>4. FindSubmitted(p) \/ UNCHANGED prod
    <3>1. CASE ProducerStep(p) \/ CrashProducer(p)
      <4>1. \A r : Becomes(p, r) => prod'[p] = r
        BY <2>1 DEF Becomes
      <4>2. prod[p] \in Producer
        BY <2>1
      <4>3. CASE CreateRun(p) \/ ResumeRun(p)
        <5>1. prod'[p].pc = "look"
          BY <4>1, <4>2, <4>3 DEF CreateRun, ResumeRun, Producer
        <5> QED BY <1>3, <5>1
      <4>4. CASE LookUpMapping(p)
        <5>1. prod'[p].pc \in {"finish", "look", "find"}
          BY <4>1, <4>2, <4>4 DEF LookUpMapping, Producer, At
        <5> QED BY <1>3, <5>1
      <4>5. CASE SubmitGoal(p)
        <5>1. prod'[p].pc = "map"
          BY <4>1, <4>2, <4>5 DEF SubmitGoal, Producer
        <5> QED BY <1>3, <5>1
      <4>6. CASE MapJob(p)
        <5>1. prod'[p].pc = "look"
          BY <4>1, <4>2, <4>6 DEF MapJob, Producer
        <5> QED BY <1>3, <5>1
      <4>7. CASE FinishProduce(p) \/ CrashProducer(p)
        <5>1. prod'[p].pc = "off"
          BY <4>1, <4>7 DEF FinishProduce, CrashProducer, OffProducer
        <5> QED BY <1>3, <5>1
      <4> QED BY <3>1, <4>3, <4>4, <4>5, <4>6, <4>7 DEF ProducerStep
    <3>2. CASE WorkerStep \/ FinalizationStage \/ CrashWorker \/ CrashTrigger
      BY <3>2 DEF WorkerStep, EndAcquisition, StartFinalization, SelectRuns, TriggerFinalization,
         EndFinalization, FinalizationStage, CrashWorker, CrashTrigger
    <3>3. CASE \/ RecoverFinalization \/ CrashRecovery \/ ReadRetained \/ PruneJobs
               \/ \E j \in DOMAIN jobs : EndSilently(j) \/ RetryJob(j)
               \/ \E h \in 1..expected : SubmitElsewhere(h)
      BY <3>3 DEF RecoverFinalization, CrashRecovery, ReadRetained, PruneJobs, EndSilently, RetryJob,
         SubmitElsewhere
    <3>4. CASE UNCHANGED vars
      BY <3>4 DEF vars
    <3> QED BY <2>1, <3>1, <3>2, <3>3, <3>4 DEF Next, RunNext
  <2> QED BY <2>2, <2>3, <2>4
<1>4. ASSUME NEW p \in Producers, At(p, "submit")'
      PROVE  (FoundJobs(prod[p].goal) = {})'
  BY <1>3, <1>4 DEF At, FoundJobs
<1> QED BY <1>2, <1>4 DEF MissingInv, Fin

\* At the beginning nobody works.
LEMMA MissingInit == Init => MissingInv
BY DEF Init, MissingInv, At, OffProducer, IdleWorker

\* What a lone producer knows holds whenever it submits.
LEMMA LoneInduction == Alone => (Spec => []MissingInv)
<1> SUFFICES ASSUME Alone PROVE Spec => []MissingInv
  OBVIOUS
<1>1. IInv /\ MissingInv /\ [Next]_vars => MissingInv'
  BY MissingStep
<1> QED BY <1>1, MissingInit, RunInduction, PTL DEF Spec

\* A producer alone submits for a goal of the run only what no earlier pass has
\* submitted, whatever the worker, retries, other callers and prune do meanwhile
\* (find_by_identity before submit_or_join).
THEOREM OnlyMissingIsSubmitted == Alone => (Spec => SubmitsOnlyMissing)
<1> SUFFICES ASSUME Alone PROVE Spec => SubmitsOnlyMissing
  OBVIOUS
<1>1. MissingInv =>
        \A p \in Producers :
          At(p, "submit") /\ Len(jobs') > Len(jobs) /\ prod'[p].pc = "map"
            => FoundJobs(prod[p].goal) = {}
  BY DEF MissingInv
<1> QED BY <1>1, LoneInduction, PTL DEF SubmitsOnlyMissing

=============================================================================
