---------------------------- MODULE DurableJobs ----------------------------
(***************************************************************************)
(* Validation jobs in PostgreSQL: databaseJobService, its worker, and the  *)
(* controllers that enqueue.  A row is an idempotency key, which names an  *)
(* invoice; a worker is an API process.  Every SQL statement is a step,    *)
(* and a worker may die between any two of its own.                        *)
(***************************************************************************)
EXTENDS Integers, FiniteSets

CONSTANTS
  Keys,         \* idempotency keys: one row, and here one invoice, each
  Workers,      \* API processes
  MaxAttempts,  \* max_attempts of a row
  MaxRevision,  \* bound on the edits of an invoice
  MaxFaults,    \* bound on crashes and failed outcome writes
  NoKey

ASSUME JobsAssumption == /\ MaxAttempts \in Nat \ {0}
                         /\ MaxRevision \in Nat
                         /\ MaxFaults \in Nat
                         /\ NoKey \notin Keys
                         /\ IsFiniteSet(Workers)

Revisions == 0..MaxRevision
NoResult == -1

VARIABLES
  row,         \* AsyncJob.status, or NONE
  tried,       \* AsyncJob.attempts
  delayed,     \* rows with available_at in the future
  lapsed,      \* rows with claimed_at more than 15 minutes ago
  result,      \* revision the row's result was computed from
  live,        \* workers whose timer runs
  held,        \* row a worker processes, or NoKey
  counted,     \* attempts in the worker's copy of that row
  seen,        \* revision the worker's validation has read, or NoResult
  revision,    \* Invoice.revision
  asked,       \* revision at which validation was last asked for
  everLapsed,  \* rows whose claim once outlived its lease (history)
  resets,      \* times recovery has reset a row's claim (history)
  faults

worker == <<held, counted, seen>>
jobVars == <<row, tried, delayed, lapsed, result, live, held, counted, seen,
          revision, asked, everLapsed, resets, faults>>
jobHistory == <<everLapsed, resets>>

Final == {"COMPLETED", "DEAD_LETTER"}
Claimable == {"QUEUED", "RETRYING"}
RowStatus == Claimable \cup Final \cup {"NONE", "PROCESSING"}

JobsInit ==
  /\ row = [k \in Keys |-> "NONE"]
  /\ tried = [k \in Keys |-> 0]
  /\ delayed = {} /\ lapsed = {} /\ everLapsed = {}
  /\ result = [k \in Keys |-> NoResult]
  /\ live = Workers
  /\ held = [w \in Workers |-> NoKey]
  /\ counted = [w \in Workers |-> 0]
  /\ seen = [w \in Workers |-> NoResult]
  /\ revision = [k \in Keys |-> 0]
  /\ asked = [k \in Keys |-> NoResult]
  /\ resets = [k \in Keys |-> 0]
  /\ faults = 0

-----------------------------------------------------------------------------
(* Clients. *)

\* enqueueJob: an upsert that leaves an existing row as it is.  The web client
\* sends no revision, so every request for an invoice has the same key.
EnqueueJob(k) ==
  /\ asked' = [asked EXCEPT ![k] = revision[k]]
  /\ row' = [row EXCEPT ![k] = IF @ = "NONE" THEN "QUEUED" ELSE @]
  /\ UNCHANGED <<tried, delayed, lapsed, result, live, worker, revision,
                 jobHistory, faults>>

\* A material edit of the invoice.
Edit(k) ==
  /\ revision[k] < MaxRevision
  /\ revision' = [revision EXCEPT ![k] = @ + 1]
  /\ UNCHANGED <<row, tried, delayed, lapsed, result, live, worker, asked,
                 jobHistory, faults>>

-----------------------------------------------------------------------------
(* Workers. *)

Free(w) == /\ held' = [held EXCEPT ![w] = NoKey]
           /\ counted' = [counted EXCEPT ![w] = 0]
           /\ seen' = [seen EXCEPT ![w] = NoResult]

\* Faulty variant: stopping does not clear the timer.
IdleOrStopped(w) == held[w] = NoKey

Idle(w) == w \in live /\ held[w] = NoKey

\* Faulty variant: the claim takes rows that are already claimed.
AvailableClaimed(k) == row[k] \in Claimable \cup {"PROCESSING"} /\ k \notin delayed

\* Faulty variant: the claim forgets the rows to be retried.
AvailableQueued(k) == row[k] = "QUEUED" /\ k \notin delayed

\* The candidates of the claiming statement.
Available(k) == row[k] \in Claimable /\ k \notin delayed

\* claimNextJob, by a worker that is not busy.
ClaimNextJob(w, k) ==
  /\ Idle(w) /\ Available(k)
  /\ row' = [row EXCEPT ![k] = "PROCESSING"]
  /\ tried' = [tried EXCEPT ![k] = @ + 1]
  /\ lapsed' = lapsed \ {k}
  /\ held' = [held EXCEPT ![w] = k]
  /\ counted' = [counted EXCEPT ![w] = tried[k] + 1]
  /\ UNCHANGED <<delayed, result, live, seen, revision, asked, jobHistory, faults>>

\* validateInvoice or checkNextGenChanges, and the audit entry.
Execute(w) ==
  /\ held[w] # NoKey /\ seen[w] = NoResult
  /\ seen' = [seen EXCEPT ![w] = revision[held[w]]]
  /\ UNCHANGED <<row, tried, delayed, lapsed, result, live, held, counted,
                 revision, asked, jobHistory, faults>>

\* completeDurableJob updates the row by id, whoever has claimed it meanwhile.
CompleteDurableJob(w) ==
  /\ held[w] # NoKey /\ seen[w] # NoResult
  /\ row' = [row EXCEPT ![held[w]] = "COMPLETED"]
  /\ result' = [result EXCEPT ![held[w]] = seen[w]]
  /\ Free(w)
  /\ UNCHANGED <<tried, delayed, lapsed, live, revision, asked, jobHistory, faults>>

\* Faulty variant: one attempt more than the budget.
ExhaustedLate(w) == counted[w] > MaxAttempts

Exhausted(w) == counted[w] >= MaxAttempts

\* retryOrDeadLetterJob, after an error in any statement of the worker.
RetryOrDeadLetterJob(w) ==
  LET k == held[w]
  IN  /\ k # NoKey
      /\ IF Exhausted(w)
         THEN /\ row' = [row EXCEPT ![k] = "DEAD_LETTER"]
              /\ UNCHANGED <<delayed, lapsed>>
         ELSE /\ row' = [row EXCEPT ![k] = "RETRYING"]
              /\ delayed' = delayed \cup {k}
              /\ lapsed' = lapsed \ {k}
      /\ Free(w)
      /\ UNCHANGED <<tried, result, live, revision, asked, jobHistory, faults>>

\* Writing the outcome fails as well: the error is logged, the row left.
OutcomeLost(w) ==
  /\ held[w] # NoKey
  /\ faults < MaxFaults
  /\ faults' = faults + 1
  /\ Free(w)
  /\ UNCHANGED <<row, tried, delayed, lapsed, result, live, revision, asked,
                 jobHistory>>

\* The process of w stops or dies, with its job in flight.
WorkerCrash(w) ==
  /\ w \in live
  /\ faults < MaxFaults
  /\ faults' = faults + 1
  /\ live' = live \ {w}
  /\ Free(w)
  /\ UNCHANGED <<row, tried, delayed, lapsed, result, revision, asked, jobHistory>>

\* Faulty variant: every claim is taken for abandoned.
AbandonedAll == {k \in Keys : row[k] = "PROCESSING"}

\* Claims recoverAbandonedJobs resets, whether or not their worker is alive.
Abandoned == {k \in Keys : row[k] = "PROCESSING" /\ k \in lapsed}

\* startDurableJobWorker: the one place that recovers abandoned jobs.
StartDurableJobWorker(w) ==
  /\ w \notin live
  /\ live' = live \cup {w}
  /\ row' = [k \in Keys |-> IF k \in Abandoned THEN "RETRYING" ELSE row[k]]
  /\ lapsed' = lapsed \ Abandoned
  /\ delayed' = delayed \ Abandoned
  /\ resets' = [k \in Keys |-> resets[k] + IF k \in Abandoned THEN 1 ELSE 0]
  /\ UNCHANGED <<tried, result, worker, revision, asked, everLapsed, faults>>

\* available_at of a retry is reached.
BackoffElapses(k) ==
  /\ k \in delayed
  /\ delayed' = delayed \ {k}
  /\ UNCHANGED <<row, tried, lapsed, result, live, worker, revision, asked,
                 jobHistory, faults>>

\* Fifteen minutes have passed since the claim.
LeaseLapses(k) ==
  /\ row[k] = "PROCESSING" /\ k \notin lapsed
  /\ lapsed' = lapsed \cup {k}
  /\ everLapsed' = everLapsed \cup {k}
  /\ UNCHANGED <<row, tried, delayed, result, live, worker, revision, asked, resets,
                 faults>>

WorkerStep(w) ==
  \/ \E k \in Keys : ClaimNextJob(w, k)
  \/ Execute(w) \/ CompleteDurableJob(w) \/ RetryOrDeadLetterJob(w)
  \/ OutcomeLost(w) \/ WorkerCrash(w) \/ StartDurableJobWorker(w)

JobsNext ==
  \/ \E k \in Keys : EnqueueJob(k) \/ Edit(k) \/ BackoffElapses(k) \/ LeaseLapses(k)
  \/ \E w \in Workers : WorkerStep(w)

\* Time passes, a stopped process is started again, a free worker polls every
\* second, and a job a worker holds comes to an end.
JobsFairness ==
  /\ \A k \in Keys : WF_jobVars(BackoffElapses(k)) /\ WF_jobVars(LeaseLapses(k))
  /\ \A w \in Workers : /\ WF_jobVars(\E k \in Keys : ClaimNextJob(w, k))
                        /\ WF_jobVars(Execute(w))
                        /\ WF_jobVars(CompleteDurableJob(w) \/ RetryOrDeadLetterJob(w))
                        /\ WF_jobVars(StartDurableJobWorker(w))

JobsSpec == JobsInit /\ [][JobsNext]_jobVars /\ JobsFairness

-----------------------------------------------------------------------------
(* Properties.  A claim that outlives its 15 minutes while its worker is still
   at work voids two of the guarantees, the first and the third; short of that
   they hold. *)

\* Every variable holds a value of its type, and only a started worker works.
JobsTypeOK ==
  /\ row \in [Keys -> RowStatus]
  /\ tried \in [Keys -> Nat] /\ resets \in [Keys -> Nat]
  /\ delayed \subseteq Keys /\ lapsed \subseteq everLapsed /\ everLapsed \subseteq Keys
  /\ result \in [Keys -> Revisions \cup {NoResult}]
  /\ live \subseteq Workers
  /\ held \in [Workers -> Keys \cup {NoKey}]
  /\ counted \in [Workers -> Nat]
  /\ seen \in [Workers -> Revisions \cup {NoResult}]
  /\ revision \in [Keys -> Revisions]
  /\ asked \in [Keys -> Revisions \cup {NoResult}]
  /\ \A w \in Workers \ live : held[w] = NoKey

\* No two workers process a row at a time, through retries, crashes and
\* restarts of the others (claimNextJob: no duplicate execution).
NoDuplicateExecution ==
  \A v, w \in Workers :
    v # w /\ held[v] # NoKey /\ held[v] = held[w] => held[v] \in everLapsed

\* A row is tried at most max_attempts times, and once more for every time that
\* recovery has reset its claim, through crashes, lost outcomes and two workers
\* on one row.  recoverAbandonedJobs does not compare attempts with
\* max_attempts, so a row whose last attempt dies with its process gets another.
AttemptsWithinBudget ==
  \A k \in Keys : tried[k] <= MaxAttempts + resets[k]

\* A completed or dead row is never reopened, nor one outcome replaced by the
\* other: clients stop polling at the first they see.
OutcomeIsFinal ==
  [][\A k \in Keys \ everLapsed : row[k] \in Final => row'[k] = row[k]]_jobVars

\* A queued or retried row is eventually claimed, although workers die, lose
\* outcomes and are busy with other rows.
WaitingIsClaimed ==
  \A k \in Keys : row[k] \in Claimable ~> row[k] \notin Claimable

-----------------------------------------------------------------------------
(* What the documents say, and the code does not keep. *)

\* A request for validation is answered for the invoice as it was when asked,
\* not for an earlier revision.
RequestIsValidated ==
  \A k \in Keys, r \in Revisions :
    asked[k] = r ~> row[k] = "DEAD_LETTER" \/ result[k] >= r
=============================================================================
