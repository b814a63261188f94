----------------------------- MODULE FileWatcher -----------------------------
(***************************************************************************)
(* The SFTP folder watcher (fileWatcherService.ts).  Power Automate drops  *)
(* PDFs in incoming/; a poll, one at a time, takes each through            *)
(* processing/ and parks it in processed/, duplicates/, manual-review/ or  *)
(* failed/.  The steps of a poll are separate because it awaits database   *)
(* and OCR between them, and the process may die there; renames and the    *)
(* loops of the recovery are synchronous.  Events are found by FILE NAME   *)
(* and recorded best effort, documents are told apart by nothing else: a   *)
(* second document with the same name is what makes this hard.             *)
(*                                                                         *)
(* Every document has its own content; multi-invoice splits are left out   *)
(* (a part's name does not end in .pdf, so recovery and retry skip it).    *)
(* All names look like invoice names (isLikelyInvoiceFilename).            *)
(***************************************************************************)
EXTENDS Naturals

CONSTANTS
  Docs,        \* documents; also the names they get after a collision
  Names,       \* names given by the sender
  NameOf,      \* the name a document arrives under
  None,
  MaxRetries,  \* MAX_AUTO_REVIEW_RETRIES
  MaxFaults    \* bound: crashes, failed writes and failed moves together

ASSUME WatcherAssumption ==
  /\ NameOf \in [Docs -> Names]
  /\ Docs \cap Names = {}
  /\ None \notin Docs
  /\ MaxRetries \in Nat /\ MaxFaults \in Nat

VARIABLES
  place, name,  \* where a document lies and under which name
  age,          \* its mtime: 0 new, 1 over ten minutes, 2 over an hour
  row,          \* its newest invoice row
  path,         \* the file in processing/ that its pdf_path names, or Elsewhere
  upload,       \* the latest UPLOADED event of a name, answered by its own run or not
  latest,       \* what kind the latest event of a name is
  retries,      \* RETRY_QUEUED events of a name
  phase,        \* what the poll is doing
  todo,         \* documents the scan has listed
  work,         \* the document being processed
  taken,        \* for RunsBounded: how often a document entered the pipeline
  faults

vars == <<place, name, age, row, path, upload, latest, retries, phase, todo,
          work, taken, faults>>
files == <<place, name>>
events == <<upload, latest, retries>>
rows == <<row, path>>

Places == {"incoming", "processing", "processed", "failed", "manual-review", "duplicates"}
Parked == {"processing", "manual-review", "failed"}   \* where the age is read
AllNames == Names \cup Docs
NoWork == [doc |-> None, file |-> None, at |-> "none", kind |-> "plain", logged |-> FALSE]
Elsewhere == None   \* storage, or another folder: nothing looks at such a path again

TypeOK ==
  /\ place \in [Docs -> Places \cup {"mail", "gone"}]
  /\ name \in [Docs -> AllNames]
  /\ age \in [Docs -> 0..2]
  /\ row \in [Docs -> {"none", "open", "protected"}]
  /\ path \in [Docs -> AllNames \cup {Elsewhere}]
  /\ upload \in [AllNames -> {"none", "open", "old", "answered"}]
  /\ latest \in [AllNames -> {"plain", "created", "retryable", "final"}]
  /\ retries \in [AllNames -> 0..MaxRetries]
  /\ phase \in {"idle", "audit", "reconcile", "queue", "scan", "down"}
  /\ todo \subseteq Docs
  /\ work \in [doc : Docs \cup {None}, file : AllNames \cup {None}, 
              at : {"none", "taken", "read", "diverted", "saved", "recorded", "moved"},
              kind : {"plain", "retryable", "final"}, logged : BOOLEAN]
  /\ faults \in 0..MaxFaults

Init ==
  /\ place = [d \in Docs |-> "mail"] /\ name = NameOf
  /\ age = [d \in Docs |-> 0]
  /\ row = [d \in Docs |-> "none"] /\ path = [d \in Docs |-> Elsewhere]
  /\ upload = [n \in AllNames |-> "none"]
  /\ latest = [n \in AllNames |-> "plain"]
  /\ retries = [n \in AllNames |-> 0]
  /\ phase = "idle" /\ todo = {} /\ work = NoWork
  /\ taken = [d \in Docs |-> 0] /\ faults = 0

-----------------------------------------------------------------------------
\* Files.  A rename replaces whatever lies at its target.
Exists(folder, n) == \E d \in Docs : place[d] = folder /\ name[d] = n

\* The name a document gets in a folder: its own, or one with a time stamp.
FreeName(d, folder) == IF Exists(folder, name[d]) THEN d ELSE name[d]

\* Faulty variant: the move does not look for a namesake.
KeptName(d, folder) == name[d]
TargetName(d, folder) == FreeName(d, folder)

Rename(S, folder, n) ==
  /\ place' = [d \in Docs |->
       IF d \in S THEN folder
       ELSE IF \E m \in S : place[d] = folder /\ name[d] = n[m] THEN "gone"
       ELSE place[d]]
  /\ name' = [d \in Docs |-> IF d \in S THEN n[d] ELSE name[d]]

\* recoverStuckFiles, recoverStuckFilesPeriodic and safeMove
MoveTo(S, folder) == Rename(S, folder, [d \in S |-> TargetName(d, folder)])

Fault == faults < MaxFaults /\ faults' = faults + 1

-----------------------------------------------------------------------------
\* Around the watcher: SFTP, time, and the people who work on the rows.
Deliver(d) ==
  /\ place[d] = "mail" /\ ~Exists("incoming", name[d])
  /\ place' = [place EXCEPT ![d] = "incoming"]
  /\ UNCHANGED <<name, age, rows, events, phase, todo, work, taken, faults>>

\* The clock passes the next threshold, ten minutes or an hour, of every file
\* that lies in a folder, and of the events recorded until then.
Tick ==
  /\ phase = "idle"
  /\ age' = [d \in Docs |-> IF place[d] \in Parked /\ age[d] < 2 THEN age[d] + 1 ELSE age[d]]
  /\ upload' = [n \in AllNames |-> IF upload[n] = "open" THEN "old" ELSE upload[n]]
  /\ <<age', upload'>> # <<age, upload>>
  /\ UNCHANGED <<files, rows, latest, retries, phase, todo, work, taken, faults>>

\* The invoice is approved, held, scheduled or paid: it can no longer be replaced.
Protect(d) ==
  /\ row[d] = "open"
  /\ row' = [row EXCEPT ![d] = "protected"]
  /\ UNCHANGED <<files, age, path, events, phase, todo, work, taken, faults>>

Crash ==
  /\ phase # "down" /\ Fault
  /\ phase' = "down" /\ todo' = {} /\ work' = NoWork
  /\ UNCHANGED <<files, age, rows, events, taken>>

-----------------------------------------------------------------------------
\* The poll.
Boot ==
  /\ phase = "down"
  /\ MoveTo({d \in Docs : place[d] = "processing"}, "incoming")
  /\ phase' = "idle"
  /\ UNCHANGED <<age, rows, events, todo, work, taken, faults>>

StartPoll ==
  /\ phase = "idle"
  /\ MoveTo({d \in Docs : place[d] = "processing" /\ age[d] > 0}, "incoming")
  /\ phase' = "audit"
  /\ UNCHANGED <<age, rows, events, todo, work, taken, faults>>

\* Audit and reconciliation run in every tenth poll.
SkipAudit ==
  /\ phase = "audit" /\ phase' = "queue"
  /\ UNCHANGED <<files, age, rows, events, todo, work, taken, faults>>

\* An old upload that its run has not answered, and whose file is not about
\* to be taken or recovered.
UploadOnly(n) ==
  /\ upload[n] = "old"
  /\ ~Exists("incoming", n) /\ ~Exists("processing", n)

\* Faulty variant: only files that are gone are reported.
UploadLost(n) == upload[n] = "old" /\ \A p \in Places : ~Exists(p, n)
NeedsRecovery(n) == UploadOnly(n)

AuditUploadOnlyIntake ==
  /\ phase = "audit" /\ phase' = "reconcile"
  /\ upload' = [n \in AllNames |-> IF NeedsRecovery(n) THEN "answered" ELSE upload[n]]
  /\ latest' = [n \in AllNames |-> IF NeedsRecovery(n) THEN "final" ELSE latest[n]]
  /\ UNCHANGED <<files, age, rows, retries, todo, work, taken, faults>>

\* findWatcherPath looks in every folder.
Stale(d) ==
  /\ path[d] # Elsewhere /\ ~Exists("processing", path[d])
  /\ \E p \in Places : Exists(p, path[d])

\* Faulty variant: the folder of failures is not searched.
StaleButFailed(d) == Stale(d) /\ ~Exists("failed", path[d])
Healable(d) == Stale(d)

ReconcileStalePdfPaths ==
  /\ phase = "reconcile" /\ phase' = "queue"
  /\ path' = [d \in Docs |-> IF Healable(d) THEN Elsewhere ELSE path[d]]
  /\ UNCHANGED <<files, age, row, events, todo, work, taken, faults>>

\* The latest event of the name, whatever its stage, decides.
WithinBudget(n) == retries[n] < MaxRetries

\* Faulty variant: a fresh upload of the name starts a fresh budget.
BudgetOfUpload(n) == retries[n] < MaxRetries \/ upload[n] = "answered"

\* Faulty variant: off by one.
BudgetAndOne(n) == retries[n] <= MaxRetries
MayRetry(n) == WithinBudget(n)

Retryable(d) ==
  /\ place[d] \in {"manual-review", "failed"} /\ age[d] = 2
  /\ latest[name[d]] \notin {"created", "final"}
  /\ MayRetry(name[d])
  /\ ~Exists("incoming", name[d])

QueueRetryableFiles(d) ==
  /\ phase = "queue" /\ Retryable(d)
  /\ Rename({d}, "incoming", name)
  /\ \/ /\ retries' = [retries EXCEPT ![name[d]] = @ + 1]
        /\ latest' = [latest EXCEPT ![name[d]] = "plain"]
        /\ UNCHANGED faults
     \/ Fault /\ UNCHANGED <<retries, latest>>   \* the event is not recorded
  /\ UNCHANGED <<age, rows, upload, phase, todo, work, taken>>

ListIncoming ==
  /\ phase = "queue" /\ \A d \in Docs : ~Retryable(d)
  /\ phase' = "scan" /\ todo' = {d \in Docs : place[d] = "incoming"}
  /\ UNCHANGED <<files, age, rows, events, work, taken, faults>>

EndPoll ==
  /\ phase = "scan" /\ todo = {} /\ work = NoWork
  /\ phase' = "idle"
  /\ UNCHANGED <<files, age, rows, events, todo, work, taken, faults>>

-----------------------------------------------------------------------------
\* One document.  ATTACHMENT_DETECTED is recorded, then the file is moved to
\* processing/ under its name, without looking what lies there.
Take(d) ==
  /\ phase = "scan" /\ d \in todo /\ work = NoWork
  /\ Rename({d}, "processing", name)
  /\ latest' = [latest EXCEPT ![name[d]] = "plain"]
  /\ work' = [NoWork EXCEPT !.doc = d, !.file = name[d], !.at = "taken"]
  /\ todo' = todo \ {d} /\ taken' = [taken EXCEPT ![d] = @ + 1]
  /\ UNCHANGED <<age, rows, upload, retries, phase, faults>>

TakeFails(d) ==
  /\ phase = "scan" /\ d \in todo /\ work = NoWork /\ Fault
  /\ \E k \in {"retryable", "final"} : latest' = [latest EXCEPT ![name[d]] = k]
  /\ todo' = todo \ {d}
  /\ UNCHANGED <<files, age, rows, upload, retries, phase, work, taken>>

\* The terminal event of a run answers its own UPLOADED event only.
Answer(k) ==
  \/ /\ latest' = [latest EXCEPT ![work.file] = k]
     /\ upload' = IF work.logged THEN [upload EXCEPT ![work.file] = "answered"] ELSE upload
     /\ UNCHANGED faults
  \/ Fault /\ UNCHANGED <<upload, latest>>

\* safeMove: logs its failure and leaves the file where it is.
SafeMove(d, folder) ==
  \/ MoveTo({d}, folder) /\ UNCHANGED faults
  \/ Fault /\ UNCHANGED files

RecordUploaded(d) ==
  /\ work.doc = d /\ work.at = "taken"
  /\ \/ /\ upload' = [upload EXCEPT ![work.file] = "open"]
        /\ work' = [work EXCEPT !.at = "read", !.logged = TRUE]
        /\ UNCHANGED faults
     \/ Fault /\ work' = [work EXCEPT !.at = "read"] /\ UNCHANGED upload
  /\ UNCHANGED <<files, age, rows, latest, retries, phase, todo, taken>>

\* The file cannot be read, decoded or extracted, is no invoice, or needs a
\* person.  The event is recorded under the run's name, after the move.
DivertAs(d, folder, k) ==
  /\ SafeMove(d, folder)
  /\ work' = [work EXCEPT !.at = "diverted", !.kind = k]
  /\ UNCHANGED <<age, rows, events, phase, todo, taken>>

ReadFails(d) ==
  /\ work.doc = d /\ work.at = "taken"
  /\ DivertAs(d, "failed", "final")

Divert(d) ==
  /\ work.doc = d /\ work.at = "read"
  /\ \E folder \in {"manual-review", "failed"}, k \in {"retryable", "final"} :
       DivertAs(d, folder, k)

BlockDuplicate(d) ==
  /\ work.doc = d /\ work.at = "read" /\ row[d] = "protected"
  /\ DivertAs(d, "duplicates", "final")

\* The row cannot be written: the file stays in processing/.
SaveFails(d) ==
  /\ work.doc = d /\ work.at = "read" /\ Fault
  /\ \E k \in {"retryable", "final"} :
       work' = [work EXCEPT !.at = "diverted", !.kind = k]
  /\ UNCHANGED <<files, age, rows, events, phase, todo, taken>>

RecordDiverted ==
  /\ work.at = "diverted" /\ Answer(work.kind)
  /\ work' = NoWork
  /\ UNCHANGED <<files, age, rows, retries, phase, todo, taken>>

\* The row, and the replacement of an unprotected one with the same content.
CreateRow(d) ==
  /\ work.doc = d /\ work.at = "read" /\ row[d] # "protected"
  /\ row' = [row EXCEPT ![d] = "open"]
  /\ path' = [path EXCEPT ![d] = work.file]
  /\ work' = [work EXCEPT !.at = "saved"]
  /\ UNCHANGED <<files, age, events, phase, todo, taken, faults>>

RecordCreated ==
  /\ work.at = "saved" /\ Answer("created")
  /\ work' = [work EXCEPT !.at = "recorded"]
  /\ UNCHANGED <<files, age, rows, retries, phase, todo, taken>>

\* safeMoveAndUpdatePdfPath: without a move there is nothing to update.
\* After validation, or without a vendor.
Park(d) ==
  /\ work.doc = d /\ work.at = "recorded"
  /\ \E folder \in {"processed", "manual-review"} :
       \/ MoveTo({d}, folder) /\ work' = [work EXCEPT !.at = "moved"] /\ UNCHANGED faults
       \/ Fault /\ work' = NoWork /\ UNCHANGED files
  /\ UNCHANGED <<age, rows, events, phase, todo, taken>>

\* A later write fails, and perhaps the move that follows: the row stays, and
\* there may be no CREATED event.
AfterSaveFails(d) ==
  /\ work.doc = d /\ work.at \in {"saved", "recorded"} /\ Fault
  /\ \/ MoveTo({d}, "failed") /\ work' = [work EXCEPT !.at = "moved"]
     \/ work' = NoWork /\ UNCHANGED files
  /\ UNCHANGED <<age, rows, events, phase, todo, taken>>

UpdatePdfPath(d) ==
  /\ work.doc = d /\ work.at = "moved"
  /\ \/ /\ path' = [path EXCEPT ![d] = Elsewhere]
        /\ UNCHANGED faults
     \/ Fault /\ UNCHANGED path
  /\ work' = NoWork
  /\ UNCHANGED <<files, age, row, events, phase, todo, taken>>

-----------------------------------------------------------------------------
Poll == StartPoll \/ SkipAudit \/ AuditUploadOnlyIntake \/ ReconcileStalePdfPaths
        \/ ListIncoming \/ EndPoll \/ \E d \in Docs : QueueRetryableFiles(d)

ProcessFile ==
  \/ RecordDiverted \/ RecordCreated
  \/ \E d \in Docs :
       \/ Take(d) \/ TakeFails(d) \/ RecordUploaded(d) \/ ReadFails(d) \/ Divert(d)
       \/ BlockDuplicate(d) \/ SaveFails(d) \/ CreateRow(d) \/ Park(d)
       \/ AfterSaveFails(d) \/ UpdatePdfPath(d)

Next ==
  \/ Boot \/ Crash \/ Poll \/ ProcessFile
  \/ Tick \/ \E d \in Docs : Deliver(d) \/ Protect(d)

\* The timer calls the poll again, a started poll runs on, a supervisor
\* restarts the process, time passes, and the audit interval ends again and
\* again while the watcher runs.
Fairness ==
  /\ WF_vars(Boot) /\ WF_vars(Poll) /\ WF_vars(ProcessFile)
  /\ SF_vars(AuditUploadOnlyIntake)
  /\ SF_vars(Tick)

Spec == Init /\ [][Next]_vars /\ Fairness

-----------------------------------------------------------------------------
\* A document is lost only to a namesake that is taken while it still lies in
\* processing/ after a failed save or move: no recovery, retry or parking
\* overwrites one (safeMove, recoverStuckFiles, queueRetryableFiles).
DocumentsKept ==
  [][\A d \in Docs : place'[d] = "gone" /\ place[d] # "gone" =>
       /\ place[d] = "processing"
       /\ \E o \in Docs : place[o] = "incoming" /\ name[o] = name[d]
                         /\ place'[o] = "processing"]_vars

\* A document goes through extraction a bounded number of times: once, once
\* for each retry of its name and of the name a collision gave it, and once
\* for each fault (queueRetryableFiles: "never churned through the AI providers").
RunsBounded == \A d \in Docs : taken[d] <= 1 + 2 * MaxRetries + faults

\* Every upload is answered: by its run, by the run after its recovery, or by
\* the audit (auditUploadOnlyIntake: "it cannot silently disappear again").
UploadAnswered ==
  \A n \in AllNames : upload[n] \in {"open", "old"} ~> upload[n] = "answered"

\* A row does not keep pointing into processing/ at a file that has moved on
\* under its name (reconcileStalePdfPaths, "old records are healed").
StalePathHealed == \A d \in Docs : Stale(d) ~> ~Stale(d)
=============================================================================
