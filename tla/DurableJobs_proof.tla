------------------------- MODULE DurableJobs_proof -------------------------
(* Theorems about DurableJobs, for every number of rows and workers, every   *)
(* budget of attempts and every number of crashes.                           *)
EXTENDS DurableJobs, FiniteSetTheorems, TLAPS

\* A row whose claim has not outlived its lease is held by one worker at most,
\* which is processing it.
JobInv ==
  /\ JobsTypeOK
  /\ \A k \in Keys \ everLapsed :
       /\ \A w \in Workers : held[w] = k => row[k] = "PROCESSING"
       /\ \A v, w \in Workers : held[v] = k /\ held[w] = k => v = w

\* What OutcomeIsFinal asks of one step.
FinalKept == \A k \in Keys \ everLapsed : row[k] \in Final => row'[k] = row[k]

\* The first state.
LEMMA JobInit == JobsInit => JobInv
  BY JobsAssumption DEF JobsInit, JobInv, JobsTypeOK, RowStatus, Claimable, Final, Revisions, NoResult

\* Clients and time.
LEMMA ClientStep ==
  ASSUME JobInv, NEW k \in Keys,
         EnqueueJob(k) \/ Edit(k) \/ BackoffElapses(k) \/ LeaseLapses(k)
  PROVE  JobInv' /\ FinalKept
<1> USE JobsAssumption
    DEF JobInv, JobsTypeOK, FinalKept, RowStatus, Claimable, Final, Revisions, NoResult, worker, jobHistory
<1>1. CASE EnqueueJob(k)
  BY <1>1 DEF EnqueueJob
<1>2. CASE Edit(k)
  BY <1>2 DEF Edit
<1>3. CASE BackoffElapses(k)
  BY <1>3 DEF BackoffElapses
<1>4. CASE LeaseLapses(k)
  BY <1>4 DEF LeaseLapses
<1> QED
  BY <1>1, <1>2, <1>3, <1>4

\* Claiming takes a row nobody holds, and counts the attempt.
LEMMA ClaimStep ==
  ASSUME JobInv, NEW w \in Workers, NEW k \in Keys, ClaimNextJob(w, k)
  PROVE  JobInv' /\ FinalKept
  BY JobsAssumption
  DEF JobInv, JobsTypeOK, FinalKept, RowStatus, Claimable, Final, ClaimNextJob, Idle, Available,
      jobHistory

\* A worker that computes a result, or loses what it held.
LEMMA HoldStep ==
  ASSUME JobInv, NEW w \in Workers, Execute(w) \/ OutcomeLost(w) \/ WorkerCrash(w)
  PROVE  JobInv' /\ FinalKept
<1> USE JobsAssumption DEF JobInv, JobsTypeOK, FinalKept, Free, jobHistory
<1>1. CASE Execute(w)
  BY <1>1 DEF Execute
<1>2. CASE OutcomeLost(w)
  BY <1>2 DEF OutcomeLost
<1>3. CASE WorkerCrash(w)
  BY <1>3 DEF WorkerCrash
<1> QED
  BY <1>1, <1>2, <1>3

\* A worker that writes the outcome of the row it holds.
LEMMA OutcomeStep ==
  ASSUME JobInv, NEW w \in Workers, CompleteDurableJob(w) \/ RetryOrDeadLetterJob(w)
  PROVE  JobInv' /\ FinalKept
<1> USE JobsAssumption DEF JobInv, JobsTypeOK, FinalKept, Free, RowStatus, Claimable, Final, jobHistory
<1>1. CASE CompleteDurableJob(w)
  BY <1>1 DEF CompleteDurableJob
<1>2. CASE RetryOrDeadLetterJob(w)
  BY <1>2 DEF RetryOrDeadLetterJob, Exhausted
<1> QED
  BY <1>1, <1>2

\* A worker that starts recovers rows whose claims have outlived their lease.
LEMMA StartStep ==
  ASSUME JobInv, NEW w \in Workers, StartDurableJobWorker(w)
  PROVE  JobInv' /\ FinalKept
  BY DEF JobInv, JobsTypeOK, FinalKept, RowStatus, Claimable, Final, StartDurableJobWorker,
         Abandoned, worker, jobHistory

\* Every step, or none.
LEMMA JobStep == JobInv /\ [JobsNext]_jobVars => JobInv' /\ FinalKept
<1> SUFFICES ASSUME JobInv, [JobsNext]_jobVars
             PROVE  JobInv' /\ FinalKept
  OBVIOUS
<1>1. CASE UNCHANGED jobVars
  BY <1>1 DEF jobVars, worker, jobHistory, JobInv, JobsTypeOK, FinalKept
<1> QED
  BY <1>1, ClientStep, ClaimStep, HoldStep, OutcomeStep, StartStep DEF JobsNext, WorkerStep

\* The invariant holds; fairness has no part in it.
LEMMA JobInvKept == JobsSpec => []JobInv
  BY JobInit, JobStep, PTL DEF JobsSpec

\* Rows, leases and workers' copies hold values of their types, and a stopped
\* process works on nothing.
THEOREM JobTypes == JobsSpec => []JobsTypeOK
<1>1. JobInv => JobsTypeOK
  BY DEF JobInv
<1> QED
  BY <1>1, JobInvKept, PTL

\* The claiming statement never gives a row to two workers, through retries,
\* crashes and restarts, while no claim outlives its lease.
THEOREM NoRowIsRunTwice == JobsSpec => []NoDuplicateExecution
<1>1. JobInv => NoDuplicateExecution
  BY DEF JobInv, JobsTypeOK, NoDuplicateExecution
<1> QED
  BY <1>1, JobInvKept, PTL

\* A completed or dead row is never reopened and keeps its outcome.
THEOREM OutcomeStays == JobsSpec => OutcomeIsFinal
<1>1. JobInv /\ [JobsNext]_jobVars => [FinalKept]_jobVars
  BY JobStep
<1> QED
  BY <1>1, JobInvKept, PTL DEF JobsSpec, OutcomeIsFinal, FinalKept

-----------------------------------------------------------------------------
(* What holds of every row, one whose claim has outlived its lease included:  *)
(* two workers may then write its outcome, in either order, from their copies. *)

\* A worker's copy is behind the row, never ahead of it, and an outcome stands
\* for the attempts and the validation it reports.
OutcomeOK(k) ==
  /\ row[k] = "NONE" <=> asked[k] = NoResult
  /\ row[k] = "NONE" => tried[k] = 0
  /\ row[k] = "DEAD_LETTER" => tried[k] >= MaxAttempts
  /\ row[k] = "COMPLETED" => result[k] # NoResult
  /\ result[k] # NoResult => tried[k] > 0 /\ result[k] <= revision[k]

CopyOK(w) ==
  /\ held[w] # NoKey => /\ counted[w] \in 1..tried[held[w]]
                        /\ seen[w] <= revision[held[w]]
  /\ held[w] = NoKey => seen[w] = NoResult

CopyInv == /\ JobsTypeOK
           /\ \A k \in Keys : OutcomeOK(k)
           /\ \A w \in Workers : CopyOK(w)

\* A row exists once validation has been asked for.  It is a dead letter only
\* after max_attempts claims, and completed only by one, with a result computed
\* from a revision the invoice has had.
OutcomesAreEarned ==
  \A k \in Keys :
    /\ row[k] = "NONE" <=> asked[k] = NoResult
    /\ row[k] = "DEAD_LETTER" => tried[k] >= MaxAttempts
    /\ row[k] = "COMPLETED" => tried[k] > 0 /\ result[k] \in 0..revision[k]

\* The first state.
LEMMA CopyInit == JobsInit => CopyInv
  BY JobInit DEF JobsInit, JobInv, CopyInv, OutcomeOK, CopyOK, NoResult

\* Clients and time: a request makes the row, an edit leaves the copies behind.
LEMMA ClientCopies ==
  ASSUME CopyInv, JobsTypeOK', NEW k \in Keys,
         EnqueueJob(k) \/ Edit(k) \/ BackoffElapses(k) \/ LeaseLapses(k)
  PROVE  CopyInv'
<1> USE JobsAssumption DEF CopyInv, OutcomeOK, CopyOK, JobsTypeOK, Revisions, NoResult, worker, jobHistory
<1>1. CASE EnqueueJob(k)
  BY <1>1 DEF EnqueueJob
<1>2. CASE Edit(k)
  BY <1>2 DEF Edit
<1>3. CASE BackoffElapses(k)
  BY <1>3 DEF BackoffElapses
<1>4. CASE LeaseLapses(k)
  BY <1>4 DEF LeaseLapses
<1> QED
  BY <1>1, <1>2, <1>3, <1>4

\* Claims, results, outcomes and losses: a claim copies the attempts it counts.
LEMMA WorkerCopies ==
  ASSUME CopyInv, JobsTypeOK', NEW w \in Workers, WorkerStep(w)
  PROVE  CopyInv'
<1> USE JobsAssumption DEF CopyInv, OutcomeOK, CopyOK, JobsTypeOK, Revisions, NoResult, Free, jobHistory
<1>1. ASSUME NEW k \in Keys, ClaimNextJob(w, k)
      PROVE  CopyInv'
  BY <1>1 DEF ClaimNextJob, Idle, Available, Claimable
<1>2. CASE Execute(w)
  BY <1>2 DEF Execute
<1>3. CASE CompleteDurableJob(w)
  BY <1>3 DEF CompleteDurableJob
<1>4. CASE RetryOrDeadLetterJob(w)
  BY <1>4 DEF RetryOrDeadLetterJob, Exhausted
<1>5. CASE OutcomeLost(w) \/ WorkerCrash(w)
  BY <1>5 DEF OutcomeLost, WorkerCrash
<1>6. CASE StartDurableJobWorker(w)
  BY <1>6 DEF StartDurableJobWorker, Abandoned, worker
<1> QED
  BY <1>1, <1>2, <1>3, <1>4, <1>5, <1>6 DEF WorkerStep

\* The copies stay behind their rows in every step.
LEMMA CopyStep == JobsTypeOK' /\ CopyInv /\ [JobsNext]_jobVars => CopyInv'
<1> SUFFICES ASSUME JobsTypeOK', CopyInv, [JobsNext]_jobVars
             PROVE  CopyInv'
  OBVIOUS
<1>1. CASE UNCHANGED jobVars
  BY <1>1 DEF jobVars, worker, jobHistory, CopyInv, OutcomeOK, CopyOK
<1> QED
  BY <1>1, ClientCopies, WorkerCopies DEF JobsNext

\* Whatever two workers write, and in whichever order, a row's outcome stands
\* for claims and validations that took place, also when its lease has lapsed.
THEOREM OutcomesEarned == JobsSpec => []OutcomesAreEarned
<1>1. CopyInv => OutcomesAreEarned
  BY DEF CopyInv, OutcomeOK, OutcomesAreEarned, JobsTypeOK, Revisions, NoResult
<1> QED
  BY <1>1, CopyInit, CopyStep, JobTypes, PTL DEF JobsSpec

-----------------------------------------------------------------------------
(* The budget of attempts.  Each worker that may still send a row back, and a
   row that waits, is a claim to come: before the budget is spent there is one
   at most and one more per reset, and after it every claim uses up one. *)

\* Workers whose copy of row k allows another attempt.
Retriers(k) == {w \in Workers : held[w] = k /\ counted[w] < MaxAttempts}

\* The claims of row k still to come.
ToCome(k) == Cardinality(Retriers(k)) + IF row[k] \in Claimable THEN 1 ELSE 0

BudgetOK(k) ==
  IF tried[k] < MaxAttempts THEN ToCome(k) <= 1 + resets[k]
                            ELSE tried[k] + ToCome(k) <= MaxAttempts + resets[k]

Budget == \A k \in Keys : BudgetOK(k)

\* The workers that hold a row can be counted.
LEMMA RetriersFinite ==
  ASSUME NEW k \in Keys
  PROVE  IsFiniteSet(Retriers(k)) /\ Cardinality(Retriers(k)) \in Nat
  BY FS_Subset, FS_CardinalityType, JobsAssumption DEF Retriers

\* A worker that lets go of a row is counted no longer, and no other is affected.
LEMMA FewerRetriers ==
  ASSUME JobsTypeOK, NEW w \in Workers, Free(w), NEW k \in Keys
  PROVE  /\ Retriers(k)' = Retriers(k) \ {w}
         /\ Cardinality(Retriers(k)') \in Nat
         /\ Cardinality(Retriers(k)') <= Cardinality(Retriers(k))
         /\ w \in Retriers(k) => Cardinality(Retriers(k)') = Cardinality(Retriers(k)) - 1
<1>1. Retriers(k)' = Retriers(k) \ {w}
  BY JobsAssumption DEF Retriers, Free, JobsTypeOK
<1>2. Cardinality(Retriers(k) \ {w})
        = IF w \in Retriers(k) THEN Cardinality(Retriers(k)) - 1 ELSE Cardinality(Retriers(k))
  BY FS_RemoveElement, RetriersFinite
<1>3. Cardinality(Retriers(k) \ {w}) \in Nat
  BY FS_RemoveElement, FS_CardinalityType, RetriersFinite
<1> QED
  BY <1>1, <1>2, <1>3, RetriersFinite

\* The first state: nobody holds a row, and none waits.
LEMMA BudgetInit == JobsInit => Budget
<1> SUFFICES ASSUME JobsInit, NEW k \in Keys
             PROVE  BudgetOK(k)
  BY DEF Budget
<1>1. Retriers(k) = {}
  BY JobsAssumption DEF JobsInit, Retriers
<1> QED
  BY <1>1, FS_EmptySet, JobsAssumption DEF JobsInit, BudgetOK, ToCome, Claimable

\* A claim uses up the row's place among those that wait, and its worker is one
\* that may send the row back while the budget lasts.
LEMMA BudgetClaim ==
  ASSUME JobsTypeOK, Budget, NEW w \in Workers, NEW k \in Keys, ClaimNextJob(w, k),
         NEW j \in Keys
  PROVE  BudgetOK(j)'
<1>1. CASE j # k
  <2>1. Retriers(j)' = Retriers(j)
    BY <1>1, JobsAssumption DEF Retriers, ClaimNextJob, Idle, JobsTypeOK
  <2> QED
    BY <1>1, <2>1 DEF ClaimNextJob, Budget, BudgetOK, ToCome, JobsTypeOK, jobHistory
<1>2. CASE j = k
  <2>1. w \notin Retriers(k) /\ row[k] \in Claimable /\ row'[k] \notin Claimable
    BY JobsAssumption DEF Retriers, ClaimNextJob, Idle, Available, Claimable, JobsTypeOK
  <2>2. tried'[k] = tried[k] + 1 /\ resets' = resets /\ tried[k] \in Nat /\ resets[k] \in Nat
    BY DEF ClaimNextJob, JobsTypeOK, jobHistory
  <2>3. Retriers(k)' = IF tried[k] + 1 < MaxAttempts THEN Retriers(k) \cup {w} ELSE Retriers(k)
    BY JobsAssumption DEF Retriers, ClaimNextJob, Idle, JobsTypeOK
  <2>4. Cardinality(Retriers(k) \cup {w}) = Cardinality(Retriers(k)) + 1
    BY <2>1, FS_AddElement, RetriersFinite
  <2>5. ToCome(k) = Cardinality(Retriers(k)) + 1 /\ ToCome(k)' = Cardinality(Retriers(k)')
    BY <2>1, <2>3, <2>4, RetriersFinite DEF ToCome
  <2>6. BudgetOK(k)
    BY DEF Budget
  <2> QED
    BY <1>2, <2>2, <2>3, <2>4, <2>5, <2>6, RetriersFinite, JobsAssumption DEF BudgetOK
<1> QED
  BY <1>1, <1>2

\* A worker that is done with its row, or loses it, takes away the claim it
\* stood for, or turns it into the row's.
LEMMA BudgetOutcome ==
  ASSUME JobsTypeOK, Budget, NEW w \in Workers, NEW k \in Keys,
         CompleteDurableJob(w) \/ RetryOrDeadLetterJob(w) \/ OutcomeLost(w) \/ WorkerCrash(w)
  PROVE  BudgetOK(k)'
<1>1. tried' = tried /\ resets' = resets /\ tried[k] \in Nat /\ resets[k] \in Nat
  BY DEF CompleteDurableJob, RetryOrDeadLetterJob, OutcomeLost, WorkerCrash, jobHistory,
         JobsTypeOK
<1>2. Free(w)
  BY DEF CompleteDurableJob, RetryOrDeadLetterJob, OutcomeLost, WorkerCrash
<1>3. row'[k] \in Claimable => row[k] \in Claimable \/ w \in Retriers(k)
  <2>1. CASE CompleteDurableJob(w)
    BY <2>1 DEF CompleteDurableJob, Claimable, JobsTypeOK
  <2>2. CASE RetryOrDeadLetterJob(w)
    BY <2>2, JobsAssumption DEF RetryOrDeadLetterJob, Exhausted, Retriers, Claimable, JobsTypeOK
  <2>3. CASE OutcomeLost(w) \/ WorkerCrash(w)
    BY <2>3 DEF OutcomeLost, WorkerCrash
  <2> QED
    BY <2>1, <2>2, <2>3
<1>4. ToCome(k)' <= ToCome(k) /\ ToCome(k)' \in Nat /\ ToCome(k) \in Nat
  BY <1>2, <1>3, FewerRetriers, RetriersFinite DEF ToCome
<1> QED
  BY <1>1, <1>4, JobsAssumption DEF Budget, BudgetOK

\* Recovery makes its claims to come by resetting them, one each.
LEMMA BudgetStart ==
  ASSUME JobsTypeOK, Budget, NEW w \in Workers, NEW k \in Keys, StartDurableJobWorker(w)
  PROVE  BudgetOK(k)'
<1>1. Retriers(k)' = Retriers(k)
  BY DEF StartDurableJobWorker, worker, Retriers
<1>2. /\ tried' = tried /\ tried[k] \in Nat /\ resets[k] \in Nat
      /\ resets'[k] = resets[k] + IF k \in Abandoned THEN 1 ELSE 0
      /\ row'[k] \in Claimable => row[k] \in Claimable \/ k \in Abandoned
  BY DEF StartDurableJobWorker, JobsTypeOK
<1>3. ToCome(k)' <= ToCome(k) + IF k \in Abandoned THEN 1 ELSE 0
  BY <1>1, <1>2, RetriersFinite DEF ToCome, Abandoned
<1>4. ToCome(k)' \in Nat /\ ToCome(k) \in Nat
  BY <1>1, RetriersFinite DEF ToCome
<1> QED
  BY <1>2, <1>3, <1>4, JobsAssumption DEF Budget, BudgetOK

\* Clients, time and results: only the first request makes a row wait, and
\* nobody has a copy of a row that does not exist.
LEMMA BudgetOther ==
  ASSUME CopyInv, Budget, NEW j \in Keys,
         \/ \E k \in Keys : EnqueueJob(k) \/ Edit(k) \/ BackoffElapses(k) \/ LeaseLapses(k)
         \/ \E w \in Workers : Execute(w)
         \/ UNCHANGED jobVars
  PROVE  BudgetOK(j)'
<1> USE DEF EnqueueJob, Edit, BackoffElapses, LeaseLapses, Execute, jobVars, worker, jobHistory
<1>1. Retriers(j)' = Retriers(j) /\ tried' = tried /\ resets' = resets
  BY DEF Retriers
<1>2. tried[j] \in Nat /\ resets[j] \in Nat
  BY DEF CopyInv, JobsTypeOK
<1>3. CASE row[j] = "NONE"
  <2>1. Retriers(j) = {} /\ tried[j] = 0
    BY <1>2, <1>3, JobsAssumption DEF CopyInv, CopyOK, OutcomeOK, JobsTypeOK, Retriers
  <2>2. ToCome(j)' <= 1
    BY <1>1, <2>1, FS_EmptySet DEF ToCome
  <2>3. ToCome(j)' \in Nat
    BY <1>1, RetriersFinite DEF ToCome
  <2> QED
    BY <1>1, <1>2, <2>1, <2>2, <2>3, JobsAssumption DEF BudgetOK
<1>4. CASE row[j] # "NONE"
  <2>1. row'[j] = row[j]
    BY <1>4 DEF CopyInv, JobsTypeOK
  <2> QED
    BY <1>1, <2>1 DEF Budget, BudgetOK, ToCome
<1> QED
  BY <1>3, <1>4

\* A row is tried no more than max_attempts times and once more per reset,
\* whatever crashes, is lost, or outlives its lease.
THEOREM BudgetIsKept == JobsSpec => []AttemptsWithinBudget
<1>1. JobsTypeOK /\ CopyInv /\ Budget /\ [JobsNext]_jobVars => Budget'
  BY BudgetClaim, BudgetOutcome, BudgetStart, BudgetOther DEF Budget, JobsNext, WorkerStep
<1>2. JobsTypeOK /\ Budget => AttemptsWithinBudget
  <2> SUFFICES ASSUME JobsTypeOK, Budget, NEW k \in Keys
               PROVE  tried[k] <= MaxAttempts + resets[k]
    BY DEF AttemptsWithinBudget
  <2> QED
    BY RetriersFinite, JobsAssumption DEF Budget, BudgetOK, ToCome, JobsTypeOK
<1>3. JobsSpec => []CopyInv
  BY CopyInit, CopyStep, JobTypes, PTL DEF JobsSpec
<1> QED
  BY <1>1, <1>2, <1>3, BudgetInit, JobTypes, PTL DEF JobsSpec
=============================================================================
