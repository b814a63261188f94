# TLA+ specifications of the M88 accounts-payable system

The system takes supplier invoices from e-mail, a watched SFTP folder or
uploads, extracts their fields, validates them against NextGen, takes them
through a chain of approvals, posts them to QuickBooks, and pays them in weekly
batches that a Supervisor, and for large amounts the CFO, must release. It is a
Node/Express API over PostgreSQL (Prisma) with a React client.

These modules model the parts that keep state and must not get it wrong: money,
approvals, bank details, the way of a document into the system, and the queues
and caches in between. They are written from the code under `apps/api/src`,
`packages/db` and `packages/shared`; where a comment or a document says
something else, a run shows the difference or section 3 describes it.

## 1. Inventory

| Component | State | Operations | What is hard | What makes it correct |
|---|---|---|---|---|
| Payment batches (`paymentBatchService`) | `Payment`, `PaymentBatch`, `BillStub` rows | select, hold, decide, create, charge, evidence, submit, review, CFO, export, return, cancel, process, confirm | some thirty handlers write the same rows, most by id and without a transaction; errors half way | released batches do not change; evidence and CFO gates cannot be bypassed |
| Posting (`postingService`) | `Invoice.status`, `Payment` | post, schedule, process, hold, release | check-then-create of payments; swallowed scheduling errors | one live payment per invoice; a paid payment closes its invoice |
| Workflow guard (`workflow-transitions`, Prisma middleware in `config/database`) | none | checks each invoice write | reads with a query of its own | PAID and CANCELLED are final |
| Invoices (`invoiceService`), reprocessing (`reprocessService`) | `Invoice`, revisions | edit, patch status, cancel, delete, reprocess | an edit voids approvals; cancelling and reprocessing reach into payments and batches; order of writes | nothing live is left behind |
| Approval chain (`approvalService`), exceptions (`exceptionService`) | `Signature`, `Exception` rows, current approver | request, sign, reject, return, raise, resolve | revisions, partial reopening of the chain, validations that write late | everybody the amount asks for has signed the current revision, in order; somebody can always go on |
| Vendor bank control (`vendorControlService`, `routes/vendors`) | three kinds of change requests, bank fields, versions | request, approve, reject, update, record a version | check-then-write by several people at once | nobody approves their own change; one version is in force |
| E-mail intake and duplicate control (`emailIntakeService`, `emailDuplicateService`, `controllers/emailInvoice`) | invoice rows, intake events, seen messages | webhook, poll, controller, recovery | overlapping deliveries of one file, an answer before the work, restarts | each file once; an uploaded file reaches an outcome; a replaced row has a successor |
| Folder watcher (`fileWatcherService`) | folders, events by file name, `pdf_path` | poll, park, recover, retry, audit, heal | files told apart by name, events that may get lost, crashes between rename and row | nothing overwritten, bounded runs, every upload answered, paths healed |
| NextGen client and caches (`nextGenService`) | request slots, breaker, cookies, header list, PO data, disk copies | request, log in, scan, look up, flush | expired sessions, lost pages, waiters, restarts | slots come back, calls end, lists are whole, the age of data is bounded |
| Upload queue (`invoiceUploadQueue`, `jobStore`) | two files per job, a job file, an in-memory list | enqueue, run, retry, recover, expire | crash between any two writes; re-entrant drain | accepted uploads survive, bounded retries, no false status |
| Durable jobs (`databaseJobService`, `durableJobWorker`) | `AsyncJob` rows | enqueue, claim, complete, retry, recover | several workers, dying workers, leases | one worker per row, attempts bounded by budget and resets, final outcomes, everything gets claimed |
| Invoice validation (`validationService`) | status, exceptions | rules, outcome | waits for NextGen between check and write | see the approval chain |
| Extraction and OCR, SharePoint, exports, remittance, QuickBooks, finance controls, reports, SLA, notifications, authentication, web client | none or derived | | heuristics, formats | not modelled (section 5) |

How they interact: documents come in by mail, folder or upload and become
invoice rows; validation, fed by NextGen, raises exceptions and moves invoices
into the approval chain; the last signature hands them to Accounting; posting
creates payments; the batch service moves payments and invoices on; cancellation
and reprocessing reach into payments and batches from the side; every invoice
write passes the workflow guard.

## 2. Modules

| Module | Models | Used by |
|---|---|---|
| `PaymentPipeline` | from the approved invoice to the confirmed payment | `MCPaymentPipeline` (TLC), `PaymentPipeline_proof` (TLAPS) |
| `BatchControl` | what batches promise, abstractly | `PaymentPipeline` (refinement) |
| `Approval` | one invoice from its creation to its posting | `MCApproval`, `Approval_proof` |
| `VendorBank` | the bank details of one vendor | `MCVendorBank`, `VendorBank_proof` |
| `Intake` | one file from its deliveries to its rows | `MCIntake`, `Intake_proof` |
| `FileWatcher` | documents in the watched folders | `MCFileWatcher`, `FileWatcher_proof` |
| `NextGenClient` | slots, breaker and sessions of the HTTP client | `MCNextGen`, `NextGen_proof` |
| `MPOCache` | the header list and PO data caches | `MCNextGen`, `NextGen_proof` |
| `UploadQueue` | upload queue, its files, the job store | `MCJobQueues`, `UploadQueue_proof` |
| `DurableJobs` | PostgreSQL jobs and their workers | `MCJobQueues`, `MCDurableJobs`, `DurableJobs_proof` |

### PaymentPipeline

Every column that a guard reads is a variable: `istatus`, `revision` for
invoices; `pstatus`, `snapshot`, `inBatch`, `selectedBy`, `paid`, `lastRef`,
`charge`, `stubs`, `decision`, `deadlines` for payments; `bstatus`, `setups`,
`cfoApproved`, `total` for batches. Each service function is one action of the
same name, a bulk operation on independent rows one step per row. Choices of
this model:

- *A handler is one step.* Its partial failures are not lost: where it throws
  after some of its writes, another disjunct or action has exactly those writes
  (`ReturnInvoicesInterrupted`, `ProcessPaymentBatch`, `MatchPaymentConfirmation`,
  `ReprocessInvoice`, `ProcessPayment`). Interleavings of two handlers are in the
  plan.
- *The approval chain is one status*, `IN_APPROVAL`, which also stands for
  intake, validation and flagged exceptions; `Approval` opens it up. `APPROVED`
  is treated like `PENDING_ACCOUNTING` by posting and is not a state of its own.
- *Only the terminal rule of the workflow guard is modelled.* REJECTED,
  SUPERSEDED, non-payable documents and pending duplicate reviews never get a
  payment and are left out.
- *Whether a pre-post flag blocks is a choice* (`PostInvoiceBlocked`).
- *Bank details change only by revision*: the snapshot hash is the vendor and
  the invoice revision, there is one currency, and the bank match that
  `createPaymentBatch` asks for is taken as given.
- Payment-level approval (`approveForPayment`, `rejectForPayment`,
  `bulkApproveForPayment`) needs `FOR_PAYMENT`, which nothing writes any more;
  `autoBatchPaymentOnPost` has no caller; the branch of `removeBankCharge` that
  endorses grouped payments needs vendor stubs, which only an export creates,
  after which the batch is never open again. None of these can run.
- Administrative wiping (`controllers/cleanup.ts`) is left out.

### BatchControl and the refinement

`BatchControl` knows four things of a batch: its phase (open, in review, at the
CFO, released, cancelled), the payments it holds, which payments have evidence,
and whether it is large. `PaymentPipeline` instantiates it as `Control` with
`phase <- PhaseOf` (the batch status, several statuses to one phase),
`holds <- Members`, `evidence <- stubs` and `large <- RequiresCfo`, and
`BatchControlled == Control!Spec` says that each step of each handler is one of
its steps or changes nothing it sees. It implies that a released batch keeps
its members, that nothing joins a batch after its creation, that a cancelled
batch is empty, and that submission and release pass the evidence and the CFO
gates. What it admits besides is what the code does: a withdrawal that breaks
off leaves a batch open and perhaps empty, takes payments also from a batch
that waits for the CFO, and assesses the open batches anew: `cancelInvoice` voids
the payments of an invoice and recalculates every open batch that lists one of
them, also one it takes no payment from, so that a batch can change between large
and small by the cancellation of an invoice whose payment stays in it.

### Approval

One invoice: `status`, `revision`, `tier` of its amount, whether its fields are
`ready`, the `approver` column, the `Signature` rows `sigs` in order of creation,
`pending` and `handled` exception reasons, the `requester` of a cancellation, and
the `check` under way. Handlers of `approvalService`, `exceptionService`,
`invoiceService` and `reprocessService` are one action each; a validation is
two, `BeginValidation` and `FinishValidation`, because it waits for NextGen in
between. One validation runs at a time. Two handlers change the amount:
`UpdateInvoice` opens a new revision, `ReExtractInvoice`, which reads the document
again, does not. `routed` remembers for which tier approval was last requested.
`PatchedStatuses` are the statuses an administrator writes by hand. Left out: MLO
and POLLY roles, a president's second role, associates who may only reject,
signatures from OCR, ties of `created_at`, the race of an approval with an edit,
and `REVISION_OF` links (`controllers/workbench.ts:131`), which raise the revision
and touch nothing else, so that no signature counts any more.
`lowValueQueueService.confirmLowValueInvoice`, `piFollowUpService.recordCIReceived`
and `checkVendorThreshold` have no caller.

### VendorBank

`details` is the vendor's bank fields as one value; `versions` the statuses of
`VendorBankVersion` rows by number; `request` the rows of
`VendorBankChangeRequest`, `VendorMasterChangeRequest` (bank updates) and
`BankChangeRequest`, told apart by `KindOf`; `handler` what each running handler
will do next. Every database call or transaction is a step, and `Fail` may end
a handler before any of them. Left out: the reassessment of invoices after an
approval, bank matching, invoice snapshots, new vendors, evidence files.

### Intake

`rows` are the invoices of a file in creation order; `task` what each worker
does (webhook requests, controller requests, the mailbox poll, recovery runs);
`uploads`, `terminal`, `retries` the intake events of Power Automate; `marked`
the audit records and `seen` the in-memory set by which the poll skips messages;
`aged` how many uploads are old enough for recovery, of which a run reads the oldest
`RecoveryLimit`. `Attempt` is the path of
`processEmailIntake`: extraction and first duplicate check, then the transaction
under the advisory lock with the check repeated, then the terminal event.
`Control` is the older controller, whose statements stand alone. Extraction, the
intake controls, and a failing duplicate query are free choices; business-key
matches only flag and are left out, as are rows kept for review, which have no
hash. Uploads recorded without a storage path, which the present code never
writes, and for which recovery asks for the PDF again, are left out. The SharePoint
path uses the same transaction.

### FileWatcher

Each document has a `place`, a `name`, an `age` (under ten minutes, under an hour,
over), a `row` and the `path` of that row as far as it matters (a file in
processing/, or `Elsewhere`). Events are kept as the code finds them, by file
name: `upload` (the latest UPLOADED and whether its own run answered it),
`latest` (the kind of the latest event), `retries`. `phase`, `todo` and `work` are
the poll in progress: recovery, every tenth time the audit and the healing of
paths, retries, then the files one by one. A crash may come at each await. Left out:
splits of a PDF, candidates by business key, sidecar files.

### NextGenClient

A caller runs one of four helpers (`read`, `form`, `write`, `writeForm`) and is at
a request, a login page, its credentials or the test login; `stage` follows the
request through `fetchWithTimeout`: waiting in `requestWaiters`, granted, sent.
`failures` and `cooldown` are the breaker, `sessionCookie` and `cookieOld` the
session. A reply is its class only. The request's own timer is cleared when the
headers have come; that a body ends is left to the timeout of `fetch` itself.

### MPOCache

Orders are numbered as NextGen lists them, a page holds one. `headers`, `listed`,
`stamp` are the cached list with its total and time, `disk` its file, `flight` the
scan whose promise others await, `saved` whether a restart loaded the list. PO data
is put together from two sources: the lines are read for it, while amount, vendor,
currency and status come from a header, which may be read for it too or come out of
the cached list. `poData` and `poDisk` therefore map an MPO to the time its entry is
stamped with, the time its lines were read, and the age its header had; of a list
loaded from disk no age is known. `task` is a scan, a search by material (`Search`)
or a lookup between two requests; `Tick`, `Restart` and `NextGenAddsOrder` are the
environment.

### UploadQueue

Node runs one synchronous stretch of code at a time. The stretch in progress is
the sequence `turn` of file and status writes that are left for the job
`subject`; `Write` performs the first, and every event (an upload, a result, a
timer) waits until `turn` is empty and `drain` has nothing to start. `Crash` may come between any two writes
and tears a `.json` file that is being written; it loses all memory. The job
store writes a temporary file and renames it, so its record is never torn.
`Boot` loads the store and lists the files (`found`); before any other event the
start goes through them one by one, first those it removes
(`CleanupStalePayload`), then those it recovers or gives up (`RecoverPayload`), in
any order, as the directory may be listed in any.

### DurableJobs

One row per idempotency key; each SQL statement is one step, so that a worker
can die, lose its outcome write or be overtaken between any two. `lapsed` says
that the claim is older than fifteen minutes; `everLapsed` remembers it and `resets`
counts how often recovery took a claim back, for the properties.

## 3. Properties and runs

Each run checks the type invariant of its module where it names one, and:

| Run | Property | Says |
|---|---|---|
| `batches`: two invoices with a payment each, one batch, thresholds at 50 and 120 (exactly the two invoices), status patches | `EndorsedOnlyInReleasedBatch` | an endorsed or partly paid payment is in a released batch |
| | `PaidPaymentStopsInvoice` | a PAID payment closes its invoice, even when the invoice's PAID write was refused |
| | `TerminalInvoiceFrozen` | PAID and CANCELLED invoices never change status (action property) |
| | `BatchControlled` | the handlers implement `BatchControl` (refinement) |
| `corrections`: one invoice, two batches; either edits, holds, decisions, a bank charge of 20 that takes 40 to the CFO threshold of 60 and is taken back, and confirmations of 30 of 60, or a second payment after a void or return | `CfoGate` | nothing at or over the threshold, by its total or by the payments it holds, or flagged, is released without the CFO |
| | `BatchControlled` | the same with a payment that changes batches |
| `approval`: four signatories, an edit, a new reading of the document, rejections, returns, exceptions, a late validation | `ChainComplete` | what waits for Accounting or has passed it is signed in its present revision by every role its amount asked for when approval was last requested |
| | `InOrder` | no signature stands above a missing earlier one |
| | `StageCanMove` | in a status of the chain there is somebody who can sign |
| `vendor_bank`: two Supervisors, an Associate, a Coordinator; any two of three requests; two handlers at a time | `OnlyNewestActive` | only the newest bank version can be ACTIVE |
| | `TwoPersons` | nobody's request is approved by themselves |
| `intake`: one file by webhook, poll and controller, a mail that splits into it and a second one, a recovery that reads one event, a restart or lost event | `FirstCopyIsAlone` | as long as nothing was superseded, the locked channels made at most one row |
| | `SuccessorStands` | a superseded row has a later one of its file or its mail |
| | `UploadedIsSettled` | every upload with an event among the oldest that a recovery run reads reaches an outcome or uses up its retries (liveness) |
| `file_watcher`: two documents under one name, one fault | `DocumentsKept` | a document is lost only to a namesake that is taken while it still lies in processing/ (action property) |
| | `RunsBounded` | extractions of a document are bounded by retries and faults |
| | `UploadAnswered` | every upload is answered by a run, a recovery or the audit (liveness) |
| | `StalePathHealed` | a path into processing/ does not stay wrong (liveness) |
| `nextgen`: either a form reader and two writers with one slot | `NoSlotIsLost` | slots are counted exactly; nobody waits while one is free |
| | `EveryCallReturns` | every call comes back, whatever the servers answer (liveness) |
| or a lookup and two scans, lost pages, one restart | `CacheIsWhole` | the cached list has no holes, or is empty after a lost first page; its file has none |
| | `PODataAge` | what is served has lines read less than a TTL ago, and a header less than a TTL old when it was chosen unless its list came from disk |
| | `FlightEnds` | a scan that others wait for ends and is forgotten (liveness) |
| `job_queues`: either two uploads, one slot, two retries, three crashes, a disk that loses one `.bin` | `StartsWithinBudget` | a file is processed at most `MaxRetries` times (once, if that is 0), however often the process dies |
| | `AcceptedUploadKept` | an upload reported as under way has its files |
| | `ProcessingIsRunning` | what is reported as processing is being processed |
| | `QueuedIsTakenUp` | every accepted upload leaves the queue (liveness) |
| or two rows, two workers, two attempts, one fault | `NoDuplicateExecution` | one worker per row |
| | `AttemptsWithinBudget` | at most `max_attempts` attempts, and one more for each time recovery reset the claim |
| | `OutcomeIsFinal` | a completed or dead row stays so (action property) |
| | `WaitingIsClaimed` | a queued or retried row is claimed (liveness) |

Two runs have two systems each, which share no state (`MCJobQueues`,
`MCNextGen`): the initial state chooses which of the two runs.

Conditions in these properties that a reader should know. `NoDuplicateExecution`
and `OutcomeIsFinal` are claimed only for rows whose claim has not outlived its
lease, after which the code does reset claims of living workers, and they fail.
`approval` speaks of invoices whose chain was not skipped at creation and that
carry no unsigned row which is superseded or of an earlier revision (`Ordinary`);
the code breaks them for the others. `ChainComplete` speaks of the amount at the last
request: a new reading of the document may raise the amount of an invoice that is
signed, and the roles the new amount asks for are then not asked (below).
`SuccessorStands` lets a row of the same mail follow: of one file it would be false,
which is the run `split_mail`. `UploadedIsSettled` speaks of the uploads recovery
looks at; of all of them it is false, the run `starved_upload`. `CacheIsWhole` speaks
of the orders NextGen reported when the scan began, and lets the list be empty
after its first page was lost. `PODataAge` bounds the age of the lines; amount,
vendor, currency and status may be two TTLs old, and of any age when the header
comes from a list that a restart loaded from disk. `RunsBounded` counts each failed
save as a fault: a document whose save fails every time is bounded by its retries
and the faults, not by a number of its own. `NoSlotIsLost` says nothing of the limit
itself (a newcomer can pass a waiter that was granted a slot and has not resumed).
`CfoGate` counts the payments of a batch (`Counted`) without voided ones and
without those under a below-threshold deadline, whose amounts a total may miss
(the revival described under "Seen while modelling").

### Disagreements between code and documents

Each is a run with one property, in which TLC finds it violated.

| Run | Trace | Against |
|---|---|---|
| `one_active_payment` | batch a payment, reprocess (voided, stays in the batch), post again, return the batch's payments: the voided one is SCHEDULED beside the new one | docs/FINANCE_RISK_REGISTER.md:11, active-payment uniqueness |
| `split_mail` | a mail to `/api/email/invoice` splits in two; part 2 finds part 1's row by the message id and supersedes it (emailInvoice.ts:75, 269): one invoice is left | docs/PDF_VIEWER_ACCOUNTING_SURVEY.md:33, "Each split becomes its own invoice in the system." |
| `starved_upload` | with as many older uploads as recovery reads at once, done ones included (emailIntakeService.ts:1698), a newer upload that fails is never recovered | index.ts:331, uploads without a terminal event are recovered |
| `revalidation` | validated, edited, asked again: the old result | docs/FINANCE_CONTROL_IMPLEMENTATION.md:12, edits invalidate validation |

### Seen while modelling

These are in the models as the code has them, without a run of their own.

Payments:
- `cancelInvoice` leaves a voided payment in its batch, and a return revives it;
  it also takes payments out of a batch that is PENDING_CFO, which
  `ACTIVE_BATCH_STATUSES` (invoiceService.ts:1615) does not name;
- `processPaymentBatch` marks a batch PROCESSED although it skipped an ENDORSED
  member; when a payment fails it leaves the batch PROCESSING for good;
- a voided payment stays in its batch, and a recalculation leaves it out of the
  total; a group request with its stale id puts it on hold below the threshold, and
  `approveHeldPayment` then makes it payable in that batch, beyond the total the
  CFO's threshold is compared with;
- the batch total leaves out bank charges after `returnInvoicesFromBatch` or
  `cancelInvoice`;
- a group request with a stale id turns a PAID or ENDORSED payment into
  HELD_BELOW_100; released, it can be paid again (which is why `MaxPaid` is
  needed), and `approveHeldPayment` releases threshold holds as well as manual ones;
- `processPayment` has a route of its own that pays without any batch review;
- the snapshot revision is never compared with the invoice when batching, and
  because it is part of the hash, two invoices of one vendor and account at
  different revisions fall into different groups;
- `reprocessInvoice` of a PAID invoice voids its payments and is then refused
  the status (reprocessService.ts:111).

Approval:
- a validation's late write moves an invoice out of the chain; one that is
  signed in full can then stay in VALIDATION_PENDING;
- `rejectInvoice` looks at rows of all revisions (approvalService.ts:981, 999), so
  unsigned rows of an old revision are reopened; where the rejecting row is itself
  superseded it takes the last row that counts in its place (1018–1037), and a chain
  can lose its order (why `Ordinary` leaves such rows out);
- `reExtractInvoice` writes a new `total_amount` (reprocessService.ts:612, 664, 715,
  727) in the same revision and leaves the signatures: an approved invoice can need a
  role by its new amount that never signed, although
  docs/FINANCE_CONTROL_IMPLEMENTATION.md:12 has material edits invalidate signatures;
  it compares the status from before the reading, which takes time, and may so take
  back to validation an invoice that was approved meanwhile;
- a reviewer of Accounting who signs after posting moves the invoice back; a
  coordinator alone can cancel an endorsed invoice that a late validation put
  into EXCEPTION_FLAGGED; an invoice created as pre-approved can reach payment
  without both approvals that docs/USER_FLOW.md:134 asks for.

Vendor bank details:
- an approval and a rejection of one request race: it ends REJECTED with its
  value applied, or the other way round;
- two recordings can leave no ACTIVE version at all (the second fails on the
  unique number after superseding), and the error skips the reassessment of
  invoices although the request is APPROVED; a version may copy fields that are
  already replaced;
- `PATCH /vendors/:id` lets a Supervisor write bank fields with no version, no
  lock and no check for an own request (against FINANCE_RISK_REGISTER.md:9);
  `beneficiary_name` does not count as a bank field in the check for own requests;
- invoice-level approval writes the vendor without a version.

Intake:
- the early duplicate event carries another id than the upload, so recovery
  retries what was settled; the watcher's uploads occupy the limit of recovery too;
- webhook and poll deliver each mail twice and the second replaces the first; a
  crash between creation and marker makes the poll replace its own row; a failed
  attachment is not retried once a sibling succeeded;
- the controller and the watcher check without the lock, so two rows for one
  file are possible (against emailDuplicateService.ts:13–18);
- the webhook answers 202 before anything is stored durably.

Folder watcher:
- a namesake overwrites what a failed save left in processing/, and the row of
  the first then shows the second; events of one decide for the other;
- after a restart the repair may point a path at incoming/, and it only repairs
  paths into processing/, so a path can stay wrong for good;
- the audit's own event is not retryable, although fileWatcherService.ts:1501–1506
  says the queue can recover the file; parts of a split have no `.pdf` suffix and
  are never recovered; a renamed file gets a fresh retry budget.

NextGen:
- writers and readers share one cookie although a comment says otherwise
  (nextGenService.ts:2324); the redirect of a login counts as a failure; queued
  requests proceed during a cooldown; a second test login waits two seconds and
  uses whatever cookie there is;
- a write answered 200 without JSON is repeated, and may be created twice;
- page 1 coming back empty caches an empty list as complete for an hour, in place of
  the list that was there (nextGenService.ts:1348; index.ts:409–411 says that checks
  never hit a cold cache); headers from disk count as new whatever the file's
  age (446); the hourly sync finds the cache fresh and refreshes every second hour; a
  comment says the TTL is ten minutes (108), the code says an hour;
- a caller that comes between the release of a slot and the resumption of the waiter
  it was granted to takes it too, so that more than six requests may be out.

Queues:
- the cleanup removes metadata whose `.bin` is missing before the retry scan
  could fail the job (invoiceUploadQueue.ts:167); a crash after a result is
  recorded and before the files are removed runs a completed upload again;
  with `INVOICE_MAX_RETRIES=0` an upload still runs once;
- `recoverAbandonedJobs` runs only at start and only for claims older than
  fifteen minutes; a job whose worker dies each time exceeds
  `max_attempts`, which recovery does not compare;
  the web poller does not know `dead_letter`.

### Bounds

| Bound | Where | Why it is enough |
|---|---|---|
| two payments, one or two batches | pipeline | a batch with a mixed fate needs two members, a move needs two batches; no guard counts further |
| `MaxRevision` 0 or 1, `MaxPaid` 120 | pipeline, jobs | one edit makes every snapshot stale; twice the amount admits one over-confirmation |
| `PatchedStatuses`, `Decisions`, `Charges`, `Confirmations` | pipeline | one value per side of each guard |
| `ReissuedOrCorrected` (state constraint) | `corrections` | a second payment and the corrections are explored, not both together: only the product of two independent bookkeepings is cut |
| one edit (`MaxRevision` 2), one new reading (`MaxReadings` 1), `MaxSignatures` 4, tiers 1 and 2, one reason of exceptions, no invoice created as pre-approved | approval | the edit supersedes signatures, edit and reading may lengthen or shorten the chain, and four rows hold a superseded chain of two beside its successor, or one superseded signature beside the longest new chain, or that chain and Accounting's row |
| `MaxRequests` 2, `MaxVersions` 2, two handlers | vendor bank | two writers and two requests are what each race needs; a second version is the first that supersedes |
| two deliveries (`MaxDeliveries` 2), `MaxRetries` 1, `MaxFaults` 1, `RecoveryLimit` 1 | intake | any two of the channels race over one file, and recovery with them; a second upload is beyond the limit of recovery |
| two documents, one name, `MaxRetries` 1, `MaxFaults` 1 | watcher | a collision needs two; retries, recovery and a fault combine |
| `MaxConcurrent` 1, `FailureThreshold` 2, three callers of one helper each | NextGen client | one sends, two queue; the fourth helper, `read`, retries after fewer replies than `form` |
| `TTL` 2, `MaxTime` 2, `MaxOrders` 3, window of two pages, one restart | MPO cache | an entry of the start expires within the clock, one of the time between outlives a restart; a list has a middle page to lose |
| `MaxCrashes` 3 | uploads | one more than the retry budget |
| `MaxFaults` 1 | jobs | one dead worker or lost outcome, with a second worker alive |

Interchangeable people, values and handlers of `vendor_bank` are a symmetry set;
it has no liveness property. Deadlock is checked for
`vendor_bank`; the other runs set `CHECK_DEADLOCK FALSE`, because when every
invoice is final, every upload expired, every delivery made or the clock at its
bound, nothing is left to do.

### Fairness

`PaymentPipeline`, `Approval` and `VendorBank` have none: every step is somebody's
decision or a handler nobody waits for. In `UploadQueue` the process runs its own
code (`Write`, `Drain`, the sweep of its start), a supervisor restarts it
(`Boot`), and a processor call settles; crashes, uploads and timers are not fair. In `DurableJobs` the poll
timer gives weak fairness to claiming by a living worker, a held job ends, time
passes (`BackoffElapses`, `LeaseLapses`) and a stopped process is started again.
In `Intake` time passes and the recovery timer fires (weak), and a started
attempt runs on (strong, since the lock it needs is taken and freed by others,
and the database serves waiters in order). In `NextGenClient` and `MPOCache` each
request is aborted after its timeout and its continuation runs (weak). In
`FileWatcher` the process is restarted, polls and works (weak); the tenth poll
comes round and time passes again and again, although not at each moment
(strong). Nothing forces clients, senders or crashes.

## 4. Proofs

A run of TLC covers one small instance; a theorem covers every one: any number of
rows, documents, people, workers or callers, any thresholds, limits and retries,
any number of crashes and faults. Each `X_proof` extends the module `X`, and
`NextGen_proof` both `NextGenClient` and `MPOCache`; they use the named assumptions
of those modules, and where a theorem has a hypothesis besides, it is in the table.

| Module | Theorem | States |
|---|---|---|
| `PaymentPipeline_proof` | `TypesHold` | `[]TypeOK` |
| | `TotalsCoverPayments` | the total of a batch is never below the sum of its `Counted` payments |
| | `PartialPaymentsAreDue` | a payment paid in part has a confirmation on record and is not paid in full |
| | `EndorsedInReleasedBatch` | `[]EndorsedOnlyInReleasedBatch` |
| | `TerminalInvoicesStay` | `TerminalInvoiceFrozen` |
| | `PaidPaymentsStop` | `[]PaidPaymentStopsInvoice` |
| | `BatchesImplementControl` | `BatchControlled`, the refinement |
| | `CfoGateHolds` | `[]CfoGate` |
| | `ReleasedBatchesStay` | a released batch keeps its payments and its total |
| | `EvidenceForReviewedBatches` | under review or released: a bill stub for every payment |
| | `CancelledBatchesHoldNothing` | no payment points into a cancelled batch |
| `VendorBank_proof` | `BankTypes` | `[]TypeOK` |
| | `ActiveIsNewest` | `[]OnlyNewestActive` |
| | `NobodyApprovesAlone` | `[]TwoPersons` |
| | `RecordIsKept` | no step rewrites a request, reopens a decided one, or takes a version back |
| `UploadQueue_proof` | `QueueInvariant`, `QueueTypes` | `[]QueueInv`, `[]TypeOK` |
| | `FilesStartWithinBudget` | `[]StartsWithinBudget` |
| | `UploadsAreKept` | `[]AcceptedUploadKept` |
| | `ProcessingIsTrue` | `[]ProcessingIsRunning` |
| | `QueueNeverStalls` | between events, a queued upload whose files the disk keeps waits in the list, and only while every slot has a run at work |
| `DurableJobs_proof` | `JobTypes` | `[]TypeOK` |
| | `NoRowIsRunTwice` | `[]NoDuplicateExecution` |
| | `BudgetIsKept` | `[]AttemptsWithinBudget` |
| | `OutcomeStays` | `OutcomeIsFinal` |
| | `OutcomesEarned` | of every row, claims that outlived their lease or not: dead only after `MaxAttempts` claims, completed only by a claim and with the result of a revision the invoice has had |
| `Approval_proof` | `ApprovalTypes` | `[]TypeOK` |
| | `SignedInOrder` | `[]InOrder`, if no patch writes PENDING_ACCOUNTING |
| | `ApprovedIsSigned` | `[]ChainComplete`, if no patch writes PENDING_ACCOUNTING or APPROVED |
| | `ChainHasASigner` | `[]StageCanMove`, if no patch writes PENDING_ACCOUNTING or a status of the chain, and every role the chain may ask for has a user |
| `NextGen_proof` | `ClientInvariant`, `ClientTypes` | `[]ClientInv`, `[]TypeOK` |
| | `SlotsAreNeverLost` | `[]NoSlotIsLost` |
| | `LoginsExclude` | the flag of the test-server login is set exactly while one caller logs in |
| | `CacheInvariant`, `CacheTypes` | `[]CacheInv`, `[]CacheTypeOK` |
| | `ListsHaveNoHoles` | `[]CacheIsWhole` |
| | `POsAreDated` | `[]PODataAge` |
| | `ScansAreShared` | at most one scan runs, and `flight` is that scan |
| `FileWatcher_proof` | `WatcherInvariant`, `WatcherTypes` | `[]WatcherInv`, `[]TypeOK` |
| | `ExtractionIsBounded` | `[]RunsBounded` |
| | `NoDocumentOverwritten` | `DocumentsKept` |
| | `FoldersHoldNamesOnce` | a folder never holds two files of one name |
| | `LossesNeedFaults` | documents overwritten, or left where a namesake would overwrite them, are never more than the faults |
| `Intake_proof` | `IntakeInvariant`, `IntakeTypes` | `[]IntakeInv`, `[]TypeOK` |
| | `FirstCopy` | `[]FirstCopyIsAlone` |
| | `SupersededIsFollowed` | `[]SuccessorStands` |

Each proof has one inductive invariant (TLC checked it before it was proved), one
lemma for each action or small group of actions, and at the end the temporal
steps. What the invariants add to the properties is why the code is right:

*Payments.* `StateOK` is inductive as it stands. `EndorsedOnlyInReleasedBatch` is
inductive relative to it: only `EndorseBillStub` and `MatchPaymentConfirmation`
make such payments, in released batches, and no return, cancellation or void
reaches a released batch. `PaidPaymentStopsInvoice` needs that handlers which
make a payment PAID close its invoice and that a final status stays, which
is also `TerminalInvoiceFrozen`. A step that is no confirmation leaves the payments
paid in part as they are (`PartialBefore`); the resets clear the status with the
amount, and `PartialPaymentsAreDue` follows.

*Batch totals.* The sums the handlers store are folds, and the module first proves
what a fold is worth: a sum over a finite set is a natural number, grows with the
set and depends only on the values of its members. These are facts by induction on
the set; each is proved by a smallest set that would break it, which exists because
the strict subsets of a finite set are well-founded. `TotalInv` then says that a total covers the
`Counted` payments of its batch (`TotalsCover`) and that rows not yet made are in no
batch (`UnmadeUnbatched`). Five handlers write totals in different ways, some with the
charges and some without, and others take payments out, void them or bring them
back without writing it. For each, either the total stands and nothing joins
what is counted, or it is taken again from payments that include those
counted afterwards (`TotalTaken`). Payments with a below-threshold deadline are not counted: for
them it is false (section 3).

*The refinement.* `BatchInv` is `StateOK` with `EndorsedOnlyInReleasedBatch` and
`HoldsOnlyOpened` (payments point only into batches that exist and are not
cancelled): the first is why a confirmation never touches a batch that is not
released, the second why a new batch starts with the payments it is created for and
no others. Each action is then shown to be one named step of `BatchControl` or a
stutter: `CreatePaymentBatch` is `Create`; adding and removing a charge `Charge`;
`EndorseBillStub` `File`; submission, review and the CFO's approval `Submit`, `Review`
and `Approve`; a return or the CFO's rejection `Return`; `CancelPaymentBatch` `Cancel`;
`ReturnInvoicesFromBatch`, interrupted or not, and `CancelInvoice` `Withdraw`; everything
else (posting, scheduling, selection, holds, setup, export, payment, confirmation)
stutters. The proof found an error of the abstract
specification that the instances of TLC are too small to show: `Withdraw` assessed
only the batches it took payments from, while cancelling an invoice also
recalculates other open batches (section 2). What `BatchControl` promises (`Promise`,
`ReleasedForGood`, `HoldingsShrink`, stated in that module) is proved of its steps
under the same mapping, that is of `Control`, and `ReleasedBatchesStay`,
`EvidenceForReviewedBatches` and `CancelledBatchesHoldNothing` follow by the
refinement, not by a second look at the handlers. `CfoGateHolds` needs besides that `total` is not written after
review (`TotalsBeforeRelease`), that the CFO's approval is recorded before the
status and never withdrawn (`CfoOnRecord`), and that the code's test of the stored
total finds every batch whose payments reach the threshold (`ReviewTestIsEnough`),
which is what covering totals are for.

*Vendor bank details.* `BankInv` says what a handler carries between its
statements: the request it is about to decide was filed by somebody else, and so
were all those it approves along with it (`Carries`); a row's requester never
changes, so what was checked stays true however late it is used. `VersionInv` says that the number a
handler has read never exceeds the newest, and that a handler about to create the
next version has superseded every existing one, unless somebody created one in
between; then the unique number refuses it (`ReadyToCreate`). `RecordStands` is
an action property of the same invariant: filing takes a row nobody has filed,
deciding takes a pending one, and neither writes another row.

*Approval.* `ApprovalInv` says that rows are created in the order of revisions
(`RowsOrdered`) and, of an `Ordinary` invoice, what its rows of this revision look
like (`ChainOK`): none, or one for each role the amount asked for when approval was
last requested (`Asked`: a new reading may change the amount, but not the rows) and
at most an accounting reviewer's besides (`Staffed`); signed ones before unsigned ones; a
signature in force is valid, so a rejection goes back to the row just before
(`SignedInForce`); the reviewer's row is the last word (`ReviewerIsLast`); a row
names a person of its role or nobody, so whoever is asked again can sign
(`NamesFit`); and `StatusFits`: PENDING_ACCOUNTING and APPROVED are statuses of
chains signed in full, those of the chain of chains that are not. `Ordinary`
invoices come only from such, or from deleted rows: an unsigned row of an earlier
revision is never superseded, so it stays odd (`OddStaysOdd`). `Ordinary`
cannot be left out of the induction, because a rejection looks at rows of all
revisions, superseded ones among them. Which step keeps the chain in order is seldom the one that looks
dangerous: `approveInvoice` checks the earlier signatures itself, but that it
never signs a chain of its own making (`WithAutoChain`) needs `StatusFits`, and that
`rejectInvoice` leaves no signature above the row it asks again needs that the
caller's row is unsigned and everything after it is too.
`PATCH /:id/status` writes any status but CANCELLED and looks at no row. Put into
PENDING_ACCOUNTING, an invoice without rows has two signatures made up for it;
`InOrder` fails then, as TLC shows with that status among the `PatchedStatuses`. Of the
other statuses a patch can only make false what is said about that very status,
and so each theorem names the patches it excludes and no more.

*Upload queue.* `QueueInv` says what is left of each of the stretches of code, and
what is true at each point of it. A job is in one place: among the files the start
has still to go through, waiting in `pending`, being processed, or the subject of
the turn (`PlaceOK`); a run has its slot from the turn in which it starts to the one
in which it ends (`SlotsOK`). What waits has an attempt left, and a run counts its
attempt on disk before it starts, so a crash can cost an attempt but never give one
back (`BudgetOK`). A file goes only after an outcome is recorded or before the upload
was answered (`Removable`), at each of the points between which the process may
die; files of a job that is reported as under way are therefore never stale when
the next start looks at them (`KeptOK`). Only a run that starts or ends leaves a job
`processing` while nothing is awaited for it (`ReportOK`). And whatever is queued waits in
`pending`, or the start will find it, or the turn under way is about to report it
otherwise (`LineOK`); since a turn ends only when `drain` has nothing to start,
`QueueNeverStalls` follows, the part of `QueuedIsTakenUp` that is not about time.

*Durable jobs.* `JobInv`: while the claim on a row has not outlived its lease, one
worker at most holds it, the row is PROCESSING and carries the attempts that worker
counted, so an outcome write hits only the worker's own claim. `CopyInv` is what
remains true once leases lapse: a worker's copies of attempts and revision are never
ahead of the row's, so a late outcome may be stale but is never invented. `Budget`
counts, without looking at leases, the claims that can still come without another
reset: one if the row waits to be claimed, and one for each worker that holds a copy
with attempts left and may send the row back. Only a claim raises `attempts`, and it
uses up one of these; only a reset adds one.

*NextGen client.* `ClientInv`: `activeRequests` is the number of requests out,
the queue holds exactly the callers that wait, each once, and beside a non-empty
queue the slots in use and those granted to waiters are at least
`MaxConcurrent`. A release changes two callers at once (the one
that got its reply and the first waiter), so the lemmas are about an arbitrary
assignment of states and take the changes one after the other; those about the
login of the test server (`Exclusive`) are of the same kind.

*Caches.* `CacheInv`: what a scan has collected is an initial segment of the
list, because pages are taken in order and a lost one ends it; exactly the scan
registered as `flight` runs; an entry is stamped when its lines are read and keeps
that stamp on disk, which is why a reload after a restart does not make the lines
young; a header in hand was chosen out of a list that counted as fresh, so its age is
below a TTL unless that list came from disk (`Young`).

*Folder watcher.* `WatcherInv`: a folder holds one file of a name; the run in hand
has taken its file out of incoming/; and an account of extractions: those done,
with the one still due, never exceed the arrival, the retries of either name of
the document, and the faults (`BudgetOK`). It is the `Due` that makes it
inductive: a document is due one more run exactly while it waits or lies
forgotten in processing/, so each event that puts it back must have been paid for.
`LossesPaid` keeps a similar account of documents that are overwritten or lie where the next
namesake would overwrite them: a fault adds one at most, an overwriting adds
none, because the document it loses was counted when it was left behind.

*Intake.* `IntakeInv`: two workers in the transaction are never at the same file;
a worker about to create a first row sees no locked row of that file, and none can
appear before it is done (`LockOK`); a parent chosen under the lock is a copy of the
file; downloads that overlapping recovery runs have started count towards the retry
limit. `SuccessorInv` says that the parent a controller has chosen is a copy of
its file or a row of its mail, and has a newer successor once it is about to be
superseded. The successor is one of the file or of the mail: that it need not be of
the file is the run `split_mail` (section 3), not a weakness of the proof.

The assumptions are about constants only: parameters are numbers of the expected
range, "none" values differ from real ones, workers of different channels are
different (`Intake`, `MPOCache`), callers and recovery runs, which are counted,
are finitely many (`NextGenClient`, `Intake`), and users have roles and patches
write statuses that exist (`Approval`). Payment rows are finitely many and amounts
and charges are numbers; the totals, and so the CFO gate, rest on that.

Checked by TLC only: the liveness properties, which with ENABLED are beyond the
prover (`QueuedIsTakenUp`, `WaitingIsClaimed`, `UploadedIsSettled`,
`EveryCallReturns`, `FlightEnds`, `UploadAnswered`, `StalePathHealed`). Of some the
safety they rest on is proved: `QueueNeverStalls`, `SlotsAreNeverLost`, `LoginsExclude`, `ScansAreShared`.

## 5. Plan, and what is not modelled

Every invariant and action property that a passing run checks is stated by a
theorem, and so is the refinement. Next, `PaymentRaces`: the handlers of posting, batching, review, cancellation and
confirmation, and the workflow guard, split at their reads and writes, to find
which properties survive two concurrent requests; the bank match and the
reassessment of invoices between `VendorBank` and `PaymentPipeline`; and
`Approval` in place of `IN_APPROVAL`.

Not modelled:
- *Extraction and OCR* (`madisonInvoiceExtractor`, `ocrService`,
  `consensusExtractor`, `fieldDecisionEngine`): regular expressions, scores and
  model calls over text. They keep no state, and what they should return is
  defined by documents, not by rules. The same holds of the comparison of
  invoice lines with NextGen in `validationService` and `multiMpoControlService`.
- *Exports, remittance, reconciliation, reports, analytics, finance controls*:
  layouts and queries over the database; the one state change, EXPORTED_TO_BANK,
  is in `PaymentPipeline`.
- *Notifications, SLA reminders*: no effect on the workflow.
- *Authentication and roles*: middleware per route; in the models anybody a route
  permits may act.
- *SharePoint*: the watcher hands files to the locked path that `Intake` models.
- *The web client*, about half of the code: forms and tables over the API.

These parts make up most of the lines of the repository, so the modules map a
small share of them.

## 6. Running

    tlc -config batches.cfg MCPaymentPipeline
    tlc -config corrections.cfg MCPaymentPipeline
    tlc -config approval.cfg MCApproval
    tlc -config vendor_bank.cfg MCVendorBank
    tlc -config intake.cfg MCIntake
    tlc -config file_watcher.cfg MCFileWatcher
    tlc -config nextgen.cfg MCNextGen
    tlc -config job_queues.cfg MCJobQueues
    tlc -config one_active_payment.cfg MCPaymentPipeline
    tlc -config split_mail.cfg MCIntake
    tlc -config starved_upload.cfg MCIntake
    tlc -config revalidation.cfg MCDurableJobs
    tlapm PaymentPipeline_proof.tla
    tlapm Approval_proof.tla
    tlapm VendorBank_proof.tla
    tlapm Intake_proof.tla
    tlapm FileWatcher_proof.tla
    tlapm NextGen_proof.tla
    tlapm UploadQueue_proof.tla
    tlapm DurableJobs_proof.tla

The last four runs of TLC end in a violation. The longest take three to four
minutes with two workers; the proofs of `Intake`, `PaymentPipeline` and `Approval` take some
minutes each, the others less. `PROJECT.json` lists the runs, for each property a
faulty variant of the code (`Faulty variant` in the modules) that the run
catches, the lines each definition models, the disagreements and the hazards.
