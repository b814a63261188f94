---------------------------- MODULE UploadQueue ----------------------------
(***************************************************************************)
(* The upload queue of the API: invoiceUploadQueue, its payload files and  *)
(* the job store that clients poll.                                        *)
(*                                                                         *)
(* Node runs one synchronous stretch of code at a time.  The writes that   *)
(* the current stretch has left to do for a job are `turn': they happen in *)
(* order, and before any other event but a crash, which loses them.  The   *)
(* files that a start of the process finds are gone through one by one,    *)
(* and the queue's drain loop runs, before the next event too (Quiet).     *)
(***************************************************************************)
EXTENDS Integers, Sequences, FiniteSets

CONSTANTS
  Jobs,         \* upload job ids
  Concurrency,  \* INVOICE_WORKER_CONCURRENCY
  MaxRetries,   \* INVOICE_MAX_RETRIES
  MaxCrashes,   \* bound on the crashes of the API process
  FaultyDisk,   \* jobs whose .bin file may vanish from the disk
  NoJob         \* no job

ASSUME QueueAssumption == /\ Concurrency \in Nat \ {0}
                          /\ MaxRetries \in Nat
                          /\ MaxCrashes \in Nat
                          /\ FaultyDisk \subseteq Jobs
                          /\ NoJob \notin Jobs

VARIABLES
  up,        \* the API process runs
  turn,      \* writes left in the current stretch of code
  subject,   \* the job they are about
  found,     \* jobs whose files the start of the process has still to go through
  pending,   \* InvoiceUploadQueue.pending
  active,    \* InvoiceUploadQueue.active
  running,   \* jobs whose processor call is awaited
  status,    \* status of each job in the job store (memory and file agree)
  meta,      \* the .json file: none, ok, or torn by a crash while written
  attempts,  \* QueuePayloadMeta.attempts in that file
  bin,       \* jobs whose .bin file exists
  aged,      \* jobs whose files are older than INVOICE_QUEUE_RETENTION_MS
  accepted,  \* uploads answered 202
  starts,    \* times the processor was called for a job
  crashes

vars == <<up, turn, subject, found, pending, active, running, status, meta,
          attempts, bin, aged, accepted, starts, crashes>>
memory == <<pending, active, running>>
files == <<status, meta, attempts, bin>>
history == <<accepted, starts>>

Status == {"none", "queued", "processing", "retrying", "completed", "failed",
           "dead_letter", "expired"}
Waiting == {"queued", "processing", "retrying"}
Operation == {"queued", "processing", "retrying", "completed", "dead_letter",
              "bin", "unbin", "meta", "unmeta", "count", "push", "start", "settle"}

RemovePayload == <<"unmeta", "unbin">>
FailPermanently == <<"dead_letter", "unmeta", "unbin">>

\* A stretch of code about job j begins.
Begin(j, writes) == subject' = j /\ turn' = writes

\* Faulty variant: the number of active runs is not looked at.
CanDrainUnlimited == pending # <<>>

CanDrain == active < Concurrency /\ pending # <<>>

\* The process waits for an event.
Quiet == up /\ turn = <<>> /\ found = {} /\ ~CanDrain

Init ==
  /\ up = TRUE
  /\ turn = <<>> /\ subject = NoJob /\ found = {}
  /\ pending = <<>> /\ active = 0 /\ running = {}
  /\ status = [j \in Jobs |-> "none"]
  /\ meta = [j \in Jobs |-> "none"]
  /\ attempts = [j \in Jobs |-> 0]
  /\ bin = {} /\ aged = {} /\ accepted = {}
  /\ starts = [j \in Jobs |-> 0]
  /\ crashes = 0

-----------------------------------------------------------------------------
(* The writes of a turn. *)

\* Status writes, each persisted by the job store; a record that was cleaned
\* up is silently left alone.
WriteStatus(op, j) ==
  /\ op \in {"queued", "processing", "retrying", "completed", "dead_letter"}
  /\ status' = [status EXCEPT ![j] = IF @ = "expired" THEN @ ELSE op]
  /\ UNCHANGED <<memory, meta, attempts, bin, history>>

WriteFile(op, j) ==
  /\ \/ /\ op \in {"meta", "count"}
        /\ meta' = [meta EXCEPT ![j] = "ok"]
        /\ attempts' = [attempts EXCEPT ![j] = IF op = "count" THEN @ + 1 ELSE @]
        /\ UNCHANGED bin
     \/ /\ op = "unmeta"
        /\ meta' = [meta EXCEPT ![j] = "none"]
        /\ UNCHANGED <<attempts, bin>>
     \/ /\ op = "bin"   /\ bin' = bin \cup {j}
        /\ UNCHANGED <<meta, attempts>>
     \/ /\ op = "unbin" /\ bin' = bin \ {j}
        /\ UNCHANGED <<meta, attempts>>
  /\ UNCHANGED <<memory, status, history>>

\* In-memory effects at the end of a stretch: the upload is queued and answered,
\* the processor is called, or the run's slot is given back.
EndStretch(op, j) ==
  /\ \/ /\ op = "push"
        /\ pending' = Append(pending, j)
        /\ accepted' = accepted \cup {j}
        /\ UNCHANGED <<active, running, starts>>
     \/ /\ op = "start"
        /\ running' = running \cup {j}
        /\ starts' = [starts EXCEPT ![j] = @ + 1]
        /\ UNCHANGED <<pending, active, accepted>>
     \/ /\ op = "settle"
        /\ active' = active - 1
        /\ UNCHANGED <<pending, running, history>>
  /\ UNCHANGED files

Write ==
  /\ up /\ turn # <<>>
  /\ LET op == Head(turn)
     IN  WriteStatus(op, subject) \/ WriteFile(op, subject) \/ EndStretch(op, subject)
  /\ turn' = Tail(turn)
  /\ subject' = IF Tail(turn) = <<>> THEN NoJob ELSE subject
  /\ UNCHANGED <<up, found, aged, crashes>>

-----------------------------------------------------------------------------
(* Events. *)

\* uploadMadisonInvoiceAsync: createJob, then enqueue writes .bin before .json.
Upload(j) ==
  /\ Quiet
  /\ status[j] = "none"
  /\ Begin(j, <<"queued", "bin", "meta", "push">>)
  /\ UNCHANGED <<up, found, memory, files, aged, history, crashes>>

\* Faulty variant: a run that ends early keeps its slot.
RunLeaking(j) ==
  IF meta[j] # "ok" THEN FailPermanently
  ELSE IF j \in bin THEN <<"count", "processing", "start">>
  ELSE <<"count", "dead_letter", "unmeta", "unbin">>

\* run, up to its await: the attempt is on disk before the work begins.
\* readMeta throws when the .json file is torn.
Run(j) ==
  IF meta[j] # "ok" THEN <<"dead_letter", "unmeta", "unbin", "settle">>
  ELSE IF j \in bin THEN <<"count", "processing", "start">>
  ELSE <<"count", "dead_letter", "unmeta", "unbin", "settle">>

\* One iteration of the loop of drain.
Drain ==
  /\ up /\ turn = <<>> /\ found = {} /\ CanDrain
  /\ pending' = Tail(pending)
  /\ active' = active + 1
  /\ Begin(Head(pending), Run(Head(pending)))
  /\ UNCHANGED <<up, found, running, files, aged, history, crashes>>

\* Faulty variant: the files go before the result is recorded.
FinishedRemovedFirst == <<"unmeta", "unbin", "completed", "settle">>

Finished == <<"completed", "unmeta", "unbin", "settle">>

\* The processor resolves.
Succeed(j) ==
  /\ Quiet /\ j \in running
  /\ running' = running \ {j}
  /\ Begin(j, Finished)
  /\ UNCHANGED <<up, found, pending, active, files, aged, history, crashes>>

\* The processor rejects; the payload waits for the next start of the process
\* unless its retries are used up.
Fail(j) ==
  /\ Quiet /\ j \in running
  /\ running' = running \ {j}
  /\ Begin(j, IF attempts[j] >= MaxRetries
              THEN <<"meta", "dead_letter", "unmeta", "unbin", "settle">>
              ELSE <<"meta", "retrying", "settle">>)
  /\ UNCHANGED <<up, found, pending, active, files, aged, history, crashes>>

\* The record of j passes its retention: cleanupOldJobs deletes it, or loadJobs
\* skips it if the process is down at the time.
ExpireJob(j) ==
  /\ Quiet \/ ~up
  /\ status[j] \notin {"none", "expired"}
  /\ status' = [status EXCEPT ![j] = "expired"]
  /\ UNCHANGED <<up, turn, subject, found, memory, meta, attempts, bin, aged,
                 history, crashes>>

\* The files of j pass theirs, which is longer.
AgePayload(j) ==
  /\ Quiet \/ ~up
  /\ status[j] = "expired" /\ j \in bin \ aged
  /\ aged' = aged \cup {j}
  /\ UNCHANGED <<up, turn, subject, found, memory, files, history, crashes>>

\* The .bin half disappears from a faulty disk.
LoseBin(j) ==
  /\ j \in FaultyDisk \cap bin /\ turn = <<>> /\ found = {}
  /\ bin' = bin \ {j}
  /\ UNCHANGED <<up, turn, subject, found, memory, status, meta, attempts, aged,
                 history, crashes>>

\* The process dies between two writes, or within the write of a .json file.
Crash ==
  /\ up /\ crashes < MaxCrashes
  /\ crashes' = crashes + 1
  /\ up' = FALSE
  /\ Begin(NoJob, <<>>) /\ found' = {}
  /\ pending' = <<>> /\ active' = 0 /\ running' = {}
  /\ \/ UNCHANGED meta
     \/ /\ turn # <<>> /\ Head(turn) \in {"meta", "count"}
        /\ meta' = [meta EXCEPT ![subject] = "torn"]
  /\ UNCHANGED <<status, attempts, bin, aged, history>>

-----------------------------------------------------------------------------
(* Starting the process: loadJobs, then start. *)

\* Faulty variant: the store is loaded as it was saved.
LoadUnchanged == status

\* loadJobs: what was processing has been interrupted.
LoadJobs == [j \in Jobs |-> IF status[j] = "processing" THEN "failed" ELSE status[j]]

Boot ==
  /\ ~up
  /\ up' = TRUE
  /\ status' = LoadJobs
  /\ found' = {j \in Jobs : meta[j] # "none" \/ j \in bin}
  /\ UNCHANGED <<turn, subject, memory, meta, attempts, bin, aged, history, crashes>>

\* Files cleanupStalePayloads removes: aged ones, and halves without the other.
Stale == {j \in found : j \in aged \/ meta[j] = "none" \/ j \notin bin}

CleanupStalePayload(j) ==
  /\ up /\ turn = <<>> /\ j \in Stale
  /\ found' = found \ {j}
  /\ Begin(j, RemovePayload)
  /\ UNCHANGED <<up, memory, files, aged, history, crashes>>

\* Faulty variant: one attempt more than the budget.
HopelessAfterBudget == {j \in found : meta[j] = "torn" \/ attempts[j] > MaxRetries}

\* Payloads failed for good: torn metadata, or no attempt left.
Hopeless == {j \in found : meta[j] = "torn" \/ attempts[j] >= MaxRetries}

\* The retry scan, after the cleanup; the directory is listed in any order.
RecoverPayload(j) ==
  /\ up /\ turn = <<>> /\ Stale = {} /\ j \in found
  /\ found' = found \ {j}
  /\ \/ /\ j \in Hopeless
        /\ Begin(j, FailPermanently)
        /\ UNCHANGED pending
     \/ /\ j \notin Hopeless
        /\ pending' = Append(pending, j)
        /\ UNCHANGED <<turn, subject>>
  /\ UNCHANGED <<up, active, running, files, aged, history, crashes>>

Next ==
  \/ Write \/ Drain \/ Crash \/ Boot
  \/ \E j \in Jobs : \/ CleanupStalePayload(j) \/ RecoverPayload(j)
                     \/ Upload(j) \/ Succeed(j) \/ Fail(j)
                     \/ ExpireJob(j) \/ AgePayload(j) \/ LoseBin(j)

\* The process keeps running its own code, a supervisor restarts it, and every
\* processor call settles.
Fairness ==
  /\ WF_vars(Write) /\ WF_vars(Drain) /\ WF_vars(Boot)
  /\ WF_vars(\E j \in Jobs : CleanupStalePayload(j) \/ RecoverPayload(j))
  /\ \A j \in Jobs : WF_vars(Succeed(j) \/ Fail(j))

Spec == Init /\ [][Next]_vars /\ Fairness

-----------------------------------------------------------------------------
(* Properties. *)

\* Every variable holds a value of its type; no more runs are awaited than the
\* queue has slots.
TypeOK ==
  /\ up \in BOOLEAN
  /\ turn \in Seq(Operation) /\ subject \in Jobs \cup {NoJob}
  /\ (turn = <<>> <=> subject = NoJob) /\ found \subseteq Jobs
  /\ pending \in Seq(Jobs)
  /\ active \in 0..Concurrency
  /\ running \subseteq Jobs /\ Cardinality(running) <= active
  /\ status \in [Jobs -> Status]
  /\ meta \in [Jobs -> {"none", "ok", "torn"}]
  /\ attempts \in [Jobs -> Nat]
  /\ bin \subseteq Jobs /\ aged \subseteq Jobs /\ accepted \subseteq Jobs
  /\ starts \in [Jobs -> Nat]

\* The first attempt is made even where no retry is allowed.
Budget == IF MaxRetries = 0 THEN 1 ELSE MaxRetries

\* However often the process dies, and whenever, a file is processed at most
\* Budget times: a file that kills the process cannot do so for ever.
StartsWithinBudget == \A j \in Jobs : starts[j] <= Budget

\* An upload that was answered and is still reported as under way has both its
\* files, or is about to be failed for its torn metadata.
AcceptedUploadKept ==
  \A j \in accepted \ FaultyDisk :
    status[j] \in Waiting => meta[j] # "none" /\ j \in bin

\* A client that polls "processing" polls a file that is being processed, not
\* one that an earlier process was working on.
ProcessingIsRunning ==
  Quiet => \A j \in Jobs : status[j] = "processing" => j \in running

\* No accepted upload waits in the queue for ever, even behind files that fail
\* early or crash the process.
QueuedIsTakenUp ==
  \A j \in Jobs \ FaultyDisk :
    (j \in accepted /\ status[j] = "queued") ~> (status[j] # "queued")
=============================================================================
