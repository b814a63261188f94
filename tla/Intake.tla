------------------------------- MODULE Intake -------------------------------
(***************************************************************************)
(* How one PDF becomes invoice rows.  Three channels carry the same mail:  *)
(* the Power Automate webhook, the Microsoft Graph mailbox poll (its       *)
(* fallback), and the older /api/email/invoice controller.  The first two  *)
(* create rows in one transaction under an advisory lock on the file's     *)
(* hash (emailIntakeService.ts); the controller checks, creates and        *)
(* supersedes in separate statements (emailInvoice.ts).  A periodic        *)
(* recovery re-runs Power Automate uploads that reached no terminal event. *)
(*                                                                         *)
(* A file stands for its hash.  A row is live, protected (approved, paid,  *)
(* scheduled, on hold: getDuplicateReplacementDecision) or superseded.     *)
(* Queries without ORDER BY return any match.  Rows kept for manual review *)
(* carry no hash and take no part.                                         *)
(***************************************************************************)
EXTENDS Naturals, Sequences, FiniteSets

CONSTANTS
  Intakes,        \* Power Automate attachments, by intake_id
  Inbox,          \* messages the Graph poll finds
  Mails,          \* mails posted to /api/email/invoice
  Files,          \* file hashes
  FileOf,         \* the file of an intake
  Parts,          \* the attachments of a message, or the parts a mail's PDF splits into
  Requests,       \* concurrent webhook requests
  Controllers,    \* concurrent /api/email/invoice requests
  Recoveries,     \* recovery runs that may overlap
  Poller,         \* the mailbox poll (emailPollInProgress admits one)
  None,
  RecoveryLimit,  \* limit of recoverOrphanedEmailIntakes (100)
  MaxRetries,     \* RETRY_QUEUED events after which recovery gives up
  MaxDeliveries,  \* bound: webhook posts, polled messages and controller posts
  MaxFaults       \* bound: process restarts and lost RETRY_QUEUED events

ASSUME IntakeAssumption ==
  /\ FileOf \in [Intakes -> Files]
  /\ Parts \in [Inbox \cup Mails -> Seq(Files)]
  /\ \A m \in Inbox \cup Mails : Parts[m] # <<>>
  /\ Intakes \cap (Inbox \cup Mails) = {} /\ None \notin Intakes \cup Inbox \cup Mails
  /\ Controllers \cap (Requests \cup Recoveries) = {} /\ IsFiniteSet(Recoveries)
  /\ Poller \notin Requests \cup Controllers \cup Recoveries
  /\ {RecoveryLimit, MaxRetries, MaxDeliveries, MaxFaults} \subseteq Nat

VARIABLES
  rows,      \* invoice rows in creation order
  task,      \* what each worker is doing
  uploads,   \* UPLOADED events of Power Automate, in creation order
  aged,      \* how many of them are older than the two-minute cutoff
  terminal,  \* intakes with a terminal event under their own intake_id
  retries,   \* RETRY_QUEUED events of an intake
  marked,    \* messages with an EMAIL_INTAKE audit record
  seen,      \* processedMessageIds (lost on restart)
  todo,      \* the candidates a recovery run has still to visit
  deliveries, faults

vars == <<rows, task, uploads, aged, terminal, retries, marked, seen, todo,
          deliveries, faults>>

Workers == Requests \cup Controllers \cup Recoveries \cup {Poller}
Keys == Intakes \cup Inbox \cup Mails

Idle == [at |-> "idle", key |-> None, part |-> 0, parent |-> 0]
Row(f, m, locked) == [file |-> f, mail |-> m, state |-> "live", locked |-> locked]

\* The file a task handles.
FileFor(t) == IF t.key \in Intakes THEN FileOf[t.key] ELSE Parts[t.key][t.part]

TypeOK ==
  /\ rows \in Seq([file : Files, mail : Keys, locked : BOOLEAN,
                   state : {"live", "protected", "superseded"}])
  /\ task \in [Workers -> [at : {"idle", "storing", "extracting",
                                 "locking", "replacing", "committing",
                                 "finishing", "remembering", "downloading",
                                 "received", "reading", "saving",
                                 "superseding"},
                           key : Keys \cup {None}, part : Nat, parent : 0..Len(rows)]]
  /\ \A w \in Workers : task[w].at = "committing" =>
       task[w].parent = 0 \/ rows[task[w].parent].file = FileFor(task[w])
  /\ uploads \in Seq(Intakes) /\ aged \in 0..Len(uploads)
  /\ terminal \subseteq Intakes
  /\ retries \in [Intakes -> Nat]
  /\ \A i \in Intakes : retries[i] < MaxRetries + Cardinality(Recoveries) \/ retries[i] = 0
  /\ marked \subseteq Inbox /\ seen \subseteq marked
  /\ todo \in [Recoveries -> Seq(Intakes)]
  /\ deliveries \in 0..MaxDeliveries /\ faults \in 0..MaxFaults

Init ==
  /\ rows = <<>> /\ task = [w \in Workers |-> Idle]
  /\ uploads = <<>> /\ aged = 0 /\ terminal = {}
  /\ retries = [i \in Intakes |-> 0]
  /\ marked = {} /\ seen = {} /\ todo = [r \in Recoveries |-> <<>>]
  /\ deliveries = 0 /\ faults = 0

-----------------------------------------------------------------------------
(* A worker's task *)

Begin(at, key) == [at |-> at, key |-> key, part |-> 1, parent |-> 0]
Goto(w, at) == task' = [task EXCEPT ![w].at = at]

\* The worker is done with this attachment: the poll and the controller go on
\* with the message's next one.
PartDone(w) ==
  LET t == task[w]
      more == w \in Controllers \cup {Poller} /\ t.part < Len(Parts[t.key])
      first == IF w = Poller THEN "storing" ELSE "received"
  IN  task' = [task EXCEPT ![w] =
        IF more THEN [Begin(first, t.key) EXCEPT !.part = t.part + 1]
        ELSE IF w = Poller THEN [t EXCEPT !.at = "remembering", !.parent = 0]
        ELSE Idle]

Copies(f) == {n \in DOMAIN rows : rows[n].file = f}
CanReplace(n) == rows[n].state # "protected"

\* checkEmailDuplicate: any row of the same message, else any row of the same
\* file; a failing query counts as no match.  0 is no hard duplicate.
HardDuplicates(mail, f) ==
  LET sameMail == {n \in DOMAIN rows : rows[n].mail = mail}
  IN  {0} \cup (IF sameMail # {} THEN sameMail ELSE Copies(f))

BoundsUnchanged == UNCHANGED <<deliveries, faults>>
Delivered == deliveries < MaxDeliveries /\ deliveries' = deliveries + 1
MailUnchanged == UNCHANGED <<marked, seen>>
RecoveryUnchanged == UNCHANGED <<aged, retries, todo>>
-----------------------------------------------------------------------------
(* The channels with a lock: Power Automate, Graph and recovery *)

\* The webhook answers 202 and processes the attachment afterwards.
PowerAutomatePost(q, i) ==
  /\ task[q] = Idle /\ Delivered
  /\ task' = [task EXCEPT ![q] = Begin("storing", i)]
  /\ UNCHANGED <<rows, uploads, terminal, faults>>
  /\ RecoveryUnchanged /\ MailUnchanged

\* The poll skips messages it remembers or whose audit record exists.
PollMessage(m) ==
  /\ task[Poller] = Idle /\ m \notin seen
  /\ \/ /\ m \in marked
        /\ seen' = seen \cup {m}
        /\ UNCHANGED <<task, deliveries>>
     \/ /\ m \notin marked /\ Delivered
        /\ task' = [task EXCEPT ![Poller] = Begin("storing", m)]
        /\ UNCHANGED seen
  /\ UNCHANGED <<rows, uploads, terminal, marked, faults>>
  /\ RecoveryUnchanged

\* Only messages with an audit record are remembered.
RememberMessage ==
  /\ task[Poller].at = "remembering"
  /\ seen' = seen \cup ({task[Poller].key} \cap marked)
  /\ task' = [task EXCEPT ![Poller] = Idle]
  /\ UNCHANGED <<rows, uploads, terminal, marked>>
  /\ RecoveryUnchanged /\ BoundsUnchanged

\* The PDF is stored and, for Power Automate, an UPLOADED event recorded, which
\* may be lost; a recovery run reuses the stored PDF.  Failing to store ends the
\* attempt.
Store(w) ==
  /\ task[w].at = "storing"
  /\ \/ /\ Goto(w, "extracting")
        /\ \/ task[w].key \in Intakes /\ uploads' = Append(uploads, task[w].key)
           \/ UNCHANGED uploads
     \/ /\ w \notin Recoveries
        /\ PartDone(w) /\ UNCHANGED uploads
  /\ UNCHANGED <<rows, terminal>>
  /\ RecoveryUnchanged /\ MailUnchanged /\ BoundsUnchanged

\* OCR and the intake controls give an error (FAILED, not terminal), a document
\* for manual review (terminal), or an invoice; then the duplicate check before
\* the transaction.  Only Graph passes a message id.  The DUPLICATE event of
\* Power Automate is filed under a hash of the intake_id: not terminal for it.
ExtractAndCheck(w) ==
  /\ task[w].at = "extracting"
  /\ \/ PartDone(w) /\ UNCHANGED terminal
     \/ PartDone(w) /\ terminal' = terminal \cup ({task[w].key} \cap Intakes)
     \/ /\ \E n \in HardDuplicates(IF w = Poller THEN task[w].key ELSE None,
                                    FileFor(task[w])) :
             IF n # 0 /\ ~CanReplace(n) THEN PartDone(w) ELSE Goto(w, "locking")
        /\ UNCHANGED terminal
  /\ UNCHANGED <<rows, uploads>>
  /\ RecoveryUnchanged /\ MailUnchanged /\ BoundsUnchanged

\* Faulty variant: two transactions of one file run side by side.
LockIgnored(f) == f \in Files
\* pg_advisory_xact_lock(hashtext(invoice_hash)), held until the transaction ends.
LockFree(f) ==
  \A v \in Workers : task[v].at \in {"replacing", "committing"} => FileFor(task[v]) # f

\* The transaction repeats the check under the lock: a protected copy blocks
\* (DUPLICATE under the intake_id, unless the event is lost), any other copy
\* becomes the parent.
LockFile(w) ==
  LET f == FileFor(task[w]) IN
  /\ task[w].at = "locking" /\ LockFree(f)
  /\ \/ /\ Copies(f) = {} /\ Goto(w, "committing") /\ UNCHANGED terminal
     \/ \E n \in Copies(f) :
          IF CanReplace(n)
          THEN task' = [task EXCEPT ![w].at = "replacing", ![w].parent = n]
               /\ UNCHANGED terminal
          ELSE PartDone(w) /\ terminal' \in {terminal, terminal \cup ({task[w].key} \cap Intakes)}
  /\ UNCHANGED <<rows, uploads>>
  /\ RecoveryUnchanged /\ MailUnchanged /\ BoundsUnchanged

\* supersedeInvoiceForReplacement decides again before its update; a parent
\* protected meanwhile rolls the transaction back (FAILED).
ReplaceParent(w) ==
  /\ task[w].at = "replacing"
  /\ IF CanReplace(task[w].parent) THEN Goto(w, "committing") ELSE PartDone(w)
  /\ UNCHANGED <<rows, uploads, terminal>>
  /\ RecoveryUnchanged /\ MailUnchanged /\ BoundsUnchanged

Superseded(rs, n) ==
  IF n = 0 THEN rs ELSE [rs EXCEPT ![n].state = "superseded"]

\* Faulty variant: without a transaction the supersession survives an error.
CommitCreationPiecemeal(w) ==
  /\ task[w].at = "committing"
  /\ \/ /\ rows' = Append(Superseded(rows, task[w].parent),
                          Row(FileFor(task[w]), task[w].key, TRUE))
        /\ terminal' = terminal \cup ({task[w].key} \cap Intakes)
        /\ task' = [task EXCEPT ![w].at = "finishing", ![w].parent = 0]
     \/ /\ rows' = Superseded(rows, task[w].parent)
        /\ PartDone(w) /\ UNCHANGED terminal
  /\ UNCHANGED uploads
  /\ RecoveryUnchanged /\ MailUnchanged /\ BoundsUnchanged
\* The row, its parent's supersession and the CREATED event commit together;
\* a database error rolls all of them back.
CommitCreation(w) ==
  /\ task[w].at = "committing"
  /\ \/ /\ rows' = Append(Superseded(rows, task[w].parent),
                          Row(FileFor(task[w]), task[w].key, TRUE))
        /\ terminal' = terminal \cup ({task[w].key} \cap Intakes)
        /\ task' = [task EXCEPT ![w].at = "finishing", ![w].parent = 0]
     \/ PartDone(w) /\ UNCHANGED <<rows, terminal>>
  /\ UNCHANGED uploads
  /\ RecoveryUnchanged /\ MailUnchanged /\ BoundsUnchanged

\* Duplicate review, signatures and the audit record, which Graph looks for;
\* an error before the audit record leaves the row without it.
FinishIntake(w) ==
  /\ task[w].at = "finishing"
  /\ \/ marked' = marked \cup ({task[w].key} \cap Inbox)
     \/ UNCHANGED marked
  /\ PartDone(w)
  /\ UNCHANGED <<rows, uploads, terminal, seen>>
  /\ RecoveryUnchanged /\ BoundsUnchanged
-----------------------------------------------------------------------------
(* /api/email/invoice: no transaction and no lock *)

ControllerPost(c, m) ==
  /\ task[c] = Idle /\ Delivered
  /\ task' = [task EXCEPT ![c] = Begin("received", m)]
  /\ UNCHANGED <<rows, uploads, terminal, faults>>
  /\ RecoveryUnchanged /\ MailUnchanged

\* The check by message id and file before OCR: a match that can be replaced
\* becomes the parent.
ControllerCheck(c) ==
  /\ task[c].at = "received"
  /\ \E n \in HardDuplicates(task[c].key, FileFor(task[c])) :
       IF n # 0 /\ ~CanReplace(n) THEN PartDone(c)
       ELSE task' = [task EXCEPT ![c].at = "reading", ![c].parent = n]
  /\ UNCHANGED <<rows, uploads, terminal>>
  /\ RecoveryUnchanged /\ MailUnchanged /\ BoundsUnchanged

\* OCR, which may fail or find no payable invoice, then the check by file
\* alone; without a match the parent of the first check stays.
ControllerRead(c) ==
  /\ task[c].at = "reading"
  /\ \/ PartDone(c)
     \/ \E n \in HardDuplicates(None, FileFor(task[c])) :
          IF n # 0 /\ ~CanReplace(n) THEN PartDone(c)
          ELSE task' = [task EXCEPT ![c].at = "saving",
                                    ![c].parent = IF n # 0 THEN n ELSE @]
  /\ UNCHANGED <<rows, uploads, terminal>>
  /\ RecoveryUnchanged /\ MailUnchanged /\ BoundsUnchanged

ControllerCreate(c) ==
  /\ task[c].at = "saving"
  /\ \/ /\ rows' = Append(rows, Row(FileFor(task[c]), task[c].key, FALSE))
        /\ IF task[c].parent # 0 THEN Goto(c, "superseding") ELSE PartDone(c)
     \/ PartDone(c) /\ UNCHANGED rows
  /\ UNCHANGED <<uploads, terminal>>
  /\ RecoveryUnchanged /\ MailUnchanged /\ BoundsUnchanged

ControllerSupersede(c) ==
  /\ task[c].at = "superseding"
  /\ rows' = IF CanReplace(task[c].parent) THEN Superseded(rows, task[c].parent) ELSE rows
  /\ PartDone(c)
  /\ UNCHANGED <<uploads, terminal>>
  /\ RecoveryUnchanged /\ MailUnchanged /\ BoundsUnchanged
-----------------------------------------------------------------------------
(* Recovery of Power Automate uploads, every five minutes *)

\* The oldest uploads past the cutoff, whether or not they completed.
Candidates ==
  SubSeq(uploads, 1, IF aged < RecoveryLimit THEN aged ELSE RecoveryLimit)

RecoverStart(r) ==
  /\ task[r] = Idle /\ todo[r] = <<>> /\ aged > 0
  /\ todo' = [todo EXCEPT ![r] = Candidates]
  /\ UNCHANGED <<rows, task, uploads, aged, terminal, retries>>
  /\ MailUnchanged /\ BoundsUnchanged

\* Faulty variant: the number of earlier attempts is not looked at.
RecoverNextUncapped(r) ==
  /\ task[r] = Idle /\ todo[r] # <<>>
  /\ task' = IF Head(todo[r]) \in terminal THEN task
             ELSE [task EXCEPT ![r] = Begin("downloading", Head(todo[r]))]
  /\ todo' = [todo EXCEPT ![r] = Tail(@)]
  /\ UNCHANGED <<rows, uploads, aged, terminal, retries>>
  /\ MailUnchanged /\ BoundsUnchanged
\* A candidate with a terminal event or enough retries is passed over.
RecoverNext(r) ==
  /\ task[r] = Idle /\ todo[r] # <<>>
  /\ LET i == Head(todo[r]) IN
       IF i \in terminal \/ retries[i] >= MaxRetries
       THEN UNCHANGED task
       ELSE task' = [task EXCEPT ![r] = Begin("downloading", i)]
  /\ todo' = [todo EXCEPT ![r] = Tail(@)]
  /\ UNCHANGED <<rows, uploads, aged, terminal, retries>>
  /\ MailUnchanged /\ BoundsUnchanged

\* Faulty variant: a failed download leaves no RETRY_QUEUED event.
RecoverDownloadUncounted(r) ==
  /\ task[r].at = "downloading"
  /\ \/ /\ Goto(r, "storing")
        /\ retries' = [retries EXCEPT ![task[r].key] = @ + 1]
     \/ PartDone(r) /\ UNCHANGED retries
  /\ UNCHANGED <<rows, uploads, aged, terminal, todo>>
  /\ MailUnchanged /\ BoundsUnchanged
\* The attempt counts whether or not the stored PDF can be downloaded, unless
\* writing its event fails, which is only logged.  Store records no upload without
\* its storage path: events of old that lack it (RECOVERY_REQUIRED) are left out.
RecoverDownload(r) ==
  /\ task[r].at = "downloading"
  /\ Goto(r, "storing") \/ PartDone(r)
  /\ \/ /\ retries' = [retries EXCEPT ![task[r].key] = @ + 1]
        /\ UNCHANGED faults
     \/ /\ faults < MaxFaults /\ faults' = faults + 1
        /\ UNCHANGED retries
  /\ UNCHANGED <<rows, uploads, aged, terminal, todo, deliveries>>
  /\ MailUnchanged
-----------------------------------------------------------------------------
(* The environment *)

\* Two minutes pass since an upload.
Age ==
  /\ aged < Len(uploads)
  /\ aged' = aged + 1
  /\ UNCHANGED <<rows, task, uploads, terminal, retries, todo>>
  /\ MailUnchanged /\ BoundsUnchanged

\* The invoice is approved, scheduled or put on hold.
Protect(n) ==
  /\ rows[n].state = "live"
  /\ rows' = [rows EXCEPT ![n].state = "protected"]
  /\ UNCHANGED <<task, uploads, terminal>>
  /\ RecoveryUnchanged /\ MailUnchanged /\ BoundsUnchanged

\* The API process restarts: everything in flight is lost.
Crash ==
  /\ faults < MaxFaults
  /\ faults' = faults + 1
  /\ task' = [w \in Workers |-> Idle]
  /\ todo' = [r \in Recoveries |-> <<>>]
  /\ seen' = {}
  /\ UNCHANGED <<rows, uploads, aged, terminal, retries, marked, deliveries>>

Attempt(w) ==
  \/ Store(w) \/ ExtractAndCheck(w) \/ LockFile(w)
  \/ ReplaceParent(w) \/ CommitCreation(w) \/ FinishIntake(w)

Control(c) ==
  ControllerCheck(c) \/ ControllerRead(c) \/ ControllerCreate(c) \/ ControllerSupersede(c)

Recover(r) == RecoverStart(r) \/ RecoverNext(r) \/ RecoverDownload(r)

Next ==
  \/ \E q \in Requests, i \in Intakes : PowerAutomatePost(q, i)
  \/ \E m \in Inbox : PollMessage(m)
  \/ RememberMessage
  \/ \E w \in Workers \ Controllers : Attempt(w)
  \/ \E c \in Controllers, m \in Mails : ControllerPost(c, m)
  \/ \E c \in Controllers : Control(c)
  \/ \E r \in Recoveries : Recover(r)
  \/ Age
  \/ \E n \in DOMAIN rows : Protect(n)
  \/ Crash

\* Time passes, the recovery timer fires, and a started attempt runs on: the
\* event loop and the database's queue for the lock serve every waiter.
Fairness ==
  /\ WF_vars(Age)
  /\ \A r \in Recoveries : WF_vars(Recover(r))
  /\ \A w \in Workers \ Controllers : SF_vars(Attempt(w))

Spec == Init /\ [][Next]_vars /\ Fairness
-----------------------------------------------------------------------------
(* Properties *)

\* While no copy of a file has been superseded, the locked channels have
\* created at most one row for it: the check repeated under the advisory lock
\* makes every later copy replace, or be blocked by, one that exists.
FirstCopyIsAlone ==
  \A f \in Files :
    (\A n \in Copies(f) : rows[n].state # "superseded")
      => Cardinality({n \in Copies(f) : rows[n].locked}) <= 1

\* Row k takes the place of row n: a copy of its file, or another row of its
\* mail, by whose id the controller looks for duplicates.
Follows(rs, k, n) ==
  rs[k].file = rs[n].file \/ (rs[n].mail \in Mails /\ rs[k].mail = rs[n].mail)

\* A superseded row has a successor among the newer rows, of its file or of its
\* mail: whatever deliveries overlap, fail or are cut by a restart, what takes
\* the place of a row has been created (supersedeInvoiceForReplacement).
SuccessorStands ==
  \A n \in DOMAIN rows :
    rows[n].state = "superseded" => \E k \in DOMAIN rows : k > n /\ Follows(rows, k, n)

Settled(i) == i \in terminal \/ retries[i] >= MaxRetries
Uploaded(i, limit) == \E n \in 1..limit : n <= Len(uploads) /\ uploads[n] = i

\* An uploaded Power Automate attachment, one of whose events is among the
\* oldest that a recovery run reads, reaches a terminal event or uses up its
\* retries: recovery finds what an error or a restart left.
UploadedIsSettled == \A i \in Intakes : Uploaded(i, RecoveryLimit) ~> Settled(i)

-----------------------------------------------------------------------------
(* What the documents and comments say, and the code does not keep. *)

\* Every upload without a terminal event is recovered.  The runs read the oldest
\* events, completed ones included, so that newer ones are never reached.
EveryUploadIsSettled == \A i \in Intakes : Uploaded(i, Len(uploads)) ~> Settled(i)

\* Each part of a split PDF becomes an invoice of its own: the newest row of a
\* file is never superseded.  The controller takes the row of the first part for
\* a duplicate of the second, whose message id it has, and supersedes it.
NewestCopyStands ==
  \A n \in DOMAIN rows :
    rows[n].state = "superseded" => \E k \in Copies(rows[n].file) : k > n
=============================================================================
