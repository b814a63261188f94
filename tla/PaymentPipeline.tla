-------------------------- MODULE PaymentPipeline --------------------------
(***************************************************************************)
(* The payment half of the accounts-payable workflow: from an approved     *)
(* invoice, through posting and payment scheduling, to the payment batch   *)
(* that is reviewed, released to the bank and confirmed paid.              *)
(*                                                                         *)
(* One action per service function of postingService, paymentBatchService, *)
(* reprocessService, and the invoice operations that reach into payments.  *)
(* A handler is one step, including the writes it has already made when it *)
(* throws half way.  The approval chain is folded into one invoice status, *)
(* IN_APPROVAL, and a bank account is the account its vendor has.          *)
(***************************************************************************)
EXTENDS Integers, FiniteSets, Functions

CONSTANTS
  Invoices,       \* invoice rows
  Payments,       \* payment rows that may be created
  Batches,        \* payment batch rows that may be created
  Users,          \* Accounting Associates
  Refs,           \* bank confirmation references
  Owner,          \* Payment.invoice_id, fixed when the row is created
  Vendor,         \* Invoice.vendor_id
  Amount,         \* Amount[i][r]: total_amount of invoice i at revision r
  MaxRevision,    \* bound on material edits of an invoice
  MaxPaid,        \* bound on the amount confirmed for one payment
  Charges,        \* bank charges an Associate may type
  Confirmations,  \* amounts a bank confirmation may carry
  LowThreshold,   \* 100 in the code
  CfoThreshold,   \* 100000 in the code
  FlaggedInvoices,\* invoices whose bank match says requires_cfo_approval
  PatchedStatuses,\* statuses a coordinator sets by hand
  Decisions,      \* answers Purchasing gives on a held payment
  NoBatch, NoUser, NoRef

Revisions == 0..MaxRevision

ASSUME OwnerAssumption == Owner \in [Payments -> Invoices]
ASSUME AmountAssumption == Amount \in [Invoices -> [Revisions -> Nat \ {0}]]
ASSUME PaymentsAssumption == IsFiniteSet(Payments)
ASSUME RevisionAssumption == MaxRevision \in Nat
ASSUME MoneyAssumption == /\ Charges \subseteq Nat \ {0}
                          /\ Confirmations \subseteq Nat
                          /\ MaxPaid \in Nat
                          /\ LowThreshold \in Nat
                          /\ CfoThreshold \in Nat
ASSUME NullAssumption == /\ NoBatch \notin Batches
                         /\ NoUser \notin Users
                         /\ NoRef \notin Refs

VARIABLES
  istatus,      \* Invoice.status
  revision,     \* Invoice.revision
  pstatus,      \* Payment.status, or NONE while the row does not exist
  snapshot,     \* Payment.invoice_revision_snapshot
  inBatch,      \* Payment.batch_id
  selectedBy,   \* Payment.selected_for_batch and selected_by
  paid,         \* Payment.paid_amount
  lastRef,      \* Payment.reference of the last bank confirmation
  charge,       \* Payment.bank_charge_amount, 0 for none
  stubs,        \* payments whose bill stub has an uploaded file
  decision,     \* Payment.below_threshold_decision
  deadlines,    \* payments with a below_threshold_deadline
  bstatus,      \* PaymentBatch.status, or NONE while the row does not exist
  setups,       \* batches with payment_method and payment_date set
  cfoApproved,  \* batches with cfo_approved_by set
  total         \* PaymentBatch.total_amount

payVars == <<pstatus, snapshot, inBatch, selectedBy, paid, lastRef, charge,
             stubs, decision, deadlines>>
batchVars == <<bstatus, setups, cfoApproved, total>>
vars == <<istatus, revision, pstatus, snapshot, inBatch, selectedBy, paid,
          lastRef, charge, stubs, decision, deadlines, bstatus, setups,
          cfoApproved, total>>

-----------------------------------------------------------------------------
InvoiceStatus == {"IN_APPROVAL", "PENDING_ACCOUNTING", "ON_HOLD",
                  "POSTED_TO_QB", "PAYMENT_SCHEDULED", "PAID", "CANCELLED"}

\* The statuses validateWorkflowTransition lets nothing leave.
TerminalStatus == {"PAID", "CANCELLED"}

PaymentStatus == {"NONE", "SCHEDULED", "HELD_BELOW_100", "ENDORSED",
                  "PARTIALLY_PAID", "PAID", "CANCELLED"}

\* SCHEDULED, HELD_BELOW_100 ... : a payment schedulePayment must not repeat.
ActiveStatus == PaymentStatus \ {"NONE", "CANCELLED"}

\* KEEP stands for HOLD and NO_RESPONSE, which both preserve the hold.
Decision == {"NONE", "PROCEED", "KEEP"}

OpenBatch == {"DRAFT", "RETURNED_FOR_CORRECTION"}
ReleasedBatch == {"REVIEWED", "EXPORTED_TO_BANK", "PROCESSING", "PROCESSED"}
BatchStatus == OpenBatch \cup ReleasedBatch \cup
               {"NONE", "PENDING_SUPERVISOR_REVIEW", "PENDING_CFO", "CANCELLED"}

ASSUME InputAssumption == /\ PatchedStatuses \subseteq InvoiceStatus
                          /\ Decisions \subseteq Decision

\* Faulty variant: the exported batches are forgotten.
ActiveBatchButExported ==
  {"REVIEWED", "PROCESSING", "PROCESSED", "PENDING_SUPERVISOR_REVIEW"}

\* ACTIVE_BATCH_STATUSES of cancelInvoice, as the source lists them.
ActiveBatch == ReleasedBatch \cup {"PENDING_SUPERVISOR_REVIEW"}

-----------------------------------------------------------------------------
(* Derived data. *)

PaymentsOf(i) == {p \in Payments : Owner[p] = i}

\* The rows a query with include: { payments: true } reads for batch b.
Members(b) == {p \in Payments : inBatch[p] = b}

\* Payment.amount: the invoice's total_amount when the payment was scheduled.
PaymentAmount(p) == Amount[Owner[p]][snapshot[p]]

Subtotal(S) == SumFunctionOnSet([p \in Payments |-> PaymentAmount(p)], S)
ChargeTotal(S) == SumFunctionOnSet(charge, S)

\* bank_snapshot_hash: a digest of the vendor, its bank details and the
\* invoice revision the payment was scheduled at.
BankSnapshotHash(p) == <<Vendor[Owner[p]], snapshot[p]>>

HasActivePayment(i) == \E p \in PaymentsOf(i) : pstatus[p] \in ActiveStatus

\* Faulty variant: one uploaded file is taken for all.
SomeBillStubUploaded(S) == S \cap stubs # {}

\* requireBillStubFiles: every payment carries an uploaded bill stub.
BillStubsUploaded(S) == S \subseteq stubs

\* Faulty variant: only an invoice still PAYMENT_SCHEDULED is closed.
InvoicesPaidIfScheduled(S) ==
  [i \in Invoices |->
     IF istatus[i] = "PAYMENT_SCHEDULED" /\ \E p \in S : Owner[p] = i
     THEN "PAID" ELSE istatus[i]]

\* Faulty variant: the supplier notice is written as a status of its own.
InvoicesPaidAndNotified(S) ==
  [i \in Invoices |->
     IF istatus[i] # "CANCELLED" /\ \E p \in S : Owner[p] = i
     THEN "PAYMENT_CONFIRMATION_SENT" ELSE istatus[i]]

\* Invoice.status = PAID written for the invoices of S; the workflow
\* middleware lets the write through unless the invoice is cancelled.
InvoicesPaid(S) ==
  [i \in Invoices |->
     IF istatus[i] # "CANCELLED" /\ \E p \in S : Owner[p] = i
     THEN "PAID" ELSE istatus[i]]

\* Members of S whose invoice rejects the PAID write.
Unpayable(S) == {p \in S : istatus[Owner[p]] = "CANCELLED"}


\* batch_id of the payments of R set to null.
Unlink(R) == [p \in Payments |-> IF p \in R THEN NoBatch ELSE inBatch[p]]


\* A row that paymentBatch.create can make.
NewBatch(b) == bstatus[b] = "NONE"

-----------------------------------------------------------------------------
Init ==
  /\ istatus = [i \in Invoices |-> "IN_APPROVAL"]
  /\ revision = [i \in Invoices |-> 0]
  /\ pstatus = [p \in Payments |-> "NONE"]
  /\ snapshot = [p \in Payments |-> 0]
  /\ inBatch = [p \in Payments |-> NoBatch]
  /\ selectedBy = [p \in Payments |-> NoUser]
  /\ paid = [p \in Payments |-> 0]
  /\ lastRef = [p \in Payments |-> NoRef]
  /\ charge = [p \in Payments |-> 0]
  /\ stubs = {}
  /\ decision = [p \in Payments |-> "NONE"]
  /\ deadlines = {}
  /\ bstatus = [b \in Batches |-> "NONE"]
  /\ setups = {}
  /\ cfoApproved = {}
  /\ total = [b \in Batches |-> 0]

-----------------------------------------------------------------------------
(* Invoice operations: approval, posting, holding, editing, cancelling. *)

\* The last signature of the approval chain.
ApproveLast(i) ==
  /\ istatus[i] = "IN_APPROVAL"
  /\ istatus' = [istatus EXCEPT ![i] = "PENDING_ACCOUNTING"]
  /\ UNCHANGED <<revision, payVars, batchVars>>

RejectFromAccounting(i) ==
  /\ istatus[i] = "PENDING_ACCOUNTING"
  /\ istatus' = [istatus EXCEPT ![i] = "IN_APPROVAL"]
  /\ UNCHANGED <<revision, payVars, batchVars>>

\* The payment row schedulePayment creates for invoice i.
NewPayment(i, p) ==
  /\ p \in PaymentsOf(i) /\ pstatus[p] = "NONE"
  /\ ~HasActivePayment(i)
  /\ pstatus' = [pstatus EXCEPT ![p] = "SCHEDULED"]
  /\ snapshot' = [snapshot EXCEPT ![p] = revision[i]]
  /\ istatus' = [istatus EXCEPT ![i] = "PAYMENT_SCHEDULED"]
  /\ UNCHANGED <<revision, inBatch, selectedBy, paid, lastRef, charge, stubs,
                 decision, deadlines, batchVars>>

\* schedulePayment from its own route, for an invoice left POSTED_TO_QB.
SchedulePayment(i, p) ==
  /\ istatus[i] = "POSTED_TO_QB"
  /\ NewPayment(i, p)

\* postInvoice: ON_HOLD is released on the way when only advisory exceptions
\* are pending; posting schedules the payment at once.
PostInvoice(i, p) ==
  /\ istatus[i] \in {"PENDING_ACCOUNTING", "ON_HOLD"}
  /\ NewPayment(i, p)

\* postInvoice whose scheduling fails (a payment is already active, or bank
\* details are missing): the error is swallowed and the invoice stays posted.
PostInvoiceUnscheduled(i) ==
  /\ istatus[i] \in {"PENDING_ACCOUNTING", "ON_HOLD"}
  /\ istatus' = [istatus EXCEPT ![i] = "POSTED_TO_QB"]
  /\ UNCHANGED <<revision, payVars, batchVars>>

\* postInvoice stopped by a blocking pre-post flag.
PostInvoiceBlocked(i) ==
  /\ istatus[i] = "PENDING_ACCOUNTING"
  /\ istatus' = [istatus EXCEPT ![i] = "ON_HOLD"]
  /\ UNCHANGED <<revision, payVars, batchVars>>

\* releaseFromHold, and postInvoice that fails after its advisory release.
ReleaseFromHold(i) ==
  /\ istatus[i] = "ON_HOLD"
  /\ istatus' = [istatus EXCEPT ![i] = "PENDING_ACCOUNTING"]
  /\ UNCHANGED <<revision, payVars, batchVars>>

InvoiceAmount(i) == Amount[i][revision[i]]
OpenForVendor(v) == {i \in Invoices : /\ Vendor[i] = v
                                      /\ istatus[i] \in {"PENDING_ACCOUNTING", "ON_HOLD"}}

OpenTotal(v) == SumFunctionOnSet([i \in Invoices |-> InvoiceAmount(i)], OpenForVendor(v))

HoldInvoiceForBatchThreshold(i) ==
  /\ istatus[i] = "PENDING_ACCOUNTING"
  /\ OpenTotal(Vendor[i]) < LowThreshold
  /\ istatus' = [istatus EXCEPT ![i] = "ON_HOLD"]
  /\ UNCHANGED <<revision, payVars, batchVars>>

\* updateInvoice with a material change: a new revision that has to be
\* approved again.  At PENDING_ACCOUNTING only bank and vendor fields change.
UpdateInvoice(i) ==
  /\ istatus[i] \in {"IN_APPROVAL", "PENDING_ACCOUNTING", "ON_HOLD"}
  /\ revision[i] < MaxRevision
  /\ istatus[i] = "PENDING_ACCOUNTING" =>
       Amount[i][revision[i] + 1] = Amount[i][revision[i]]
  /\ revision' = [revision EXCEPT ![i] = @ + 1]
  /\ istatus' = [istatus EXCEPT ![i] = "IN_APPROVAL"]
  /\ UNCHANGED <<payVars, batchVars>>

\* PATCH /invoices/:id/status: any status but CANCELLED, subject only to the
\* workflow middleware.
UpdateInvoiceStatus(i, s) ==
  /\ istatus[i] \notin TerminalStatus
  /\ s \in PatchedStatuses \ {"CANCELLED", istatus[i]}
  /\ istatus' = [istatus EXCEPT ![i] = s]
  /\ UNCHANGED <<revision, payVars, batchVars>>

\* reprocessInvoice: payments are voided first, then the status is reset; the
\* middleware refuses that reset for a PAID invoice, after the payments are gone.
ReprocessInvoice(i) ==
  /\ istatus[i] \in InvoiceStatus \ {"IN_APPROVAL", "CANCELLED"}
  /\ pstatus' = [p \in Payments |->
                   IF Owner[p] = i /\ pstatus[p] \in {"SCHEDULED", "PAID"}
                   THEN "CANCELLED" ELSE pstatus[p]]
  /\ istatus' = [istatus EXCEPT ![i] = IF @ = "PAID" THEN "PAID" ELSE "IN_APPROVAL"]
  /\ UNCHANGED <<revision, snapshot, inBatch, selectedBy, paid, lastRef, charge,
                 stubs, decision, deadlines, batchVars>>

\* cancelInvoice, once its request is approved: one transaction.
CancelInvoice(i) ==
  LET live(p) == Owner[p] = i /\ pstatus[p] \in ActiveStatus
      touched == {b \in Batches : /\ bstatus[b] \in OpenBatch
                                  /\ \E p \in PaymentsOf(i) : inBatch[p] = b}
      kept(b) == {p \in Members(b) : ~live(p) /\ pstatus[p] # "CANCELLED"}
  IN  /\ istatus[i] \notin TerminalStatus
      /\ \A p \in PaymentsOf(i) :
            inBatch[p] # NoBatch => bstatus[inBatch[p]] \notin ActiveBatch
      /\ istatus' = [istatus EXCEPT ![i] = "CANCELLED"]
      /\ pstatus' = [p \in Payments |-> IF live(p) THEN "CANCELLED" ELSE pstatus[p]]
      /\ inBatch' = Unlink({p \in Payments : live(p)})
      /\ selectedBy' = [p \in Payments |-> IF live(p) THEN NoUser ELSE selectedBy[p]]
      /\ total' = [b \in Batches |-> IF b \in touched THEN Subtotal(kept(b)) ELSE total[b]]
      /\ UNCHANGED <<revision, snapshot, paid, lastRef, charge, stubs, decision,
                     deadlines, bstatus, setups, cfoApproved>>

-----------------------------------------------------------------------------
(* The payment queue: selecting, holding, deciding. *)

SelectPaymentForBatch(u, p) ==
  /\ pstatus[p] = "SCHEDULED" /\ inBatch[p] = NoBatch
  /\ selectedBy[p] \in {NoUser, u}
  /\ selectedBy' = [selectedBy EXCEPT ![p] = u]
  /\ UNCHANGED <<istatus, revision, pstatus, snapshot, inBatch, paid, lastRef,
                 charge, stubs, decision, deadlines, batchVars>>

DeselectPaymentForBatch(u, p) ==
  /\ selectedBy[p] = u /\ inBatch[p] = NoBatch
  /\ selectedBy' = [selectedBy EXCEPT ![p] = NoUser]
  /\ UNCHANGED <<istatus, revision, pstatus, snapshot, inBatch, paid, lastRef,
                 charge, stubs, decision, deadlines, batchVars>>

\* markPaymentForPayment: a legacy endpoint that only clears the selection.
MarkPaymentForPayment(p) ==
  /\ pstatus[p] = "SCHEDULED" /\ inBatch[p] = NoBatch
  /\ selectedBy' = [selectedBy EXCEPT ![p] = NoUser]
  /\ UNCHANGED <<istatus, revision, pstatus, snapshot, inBatch, paid, lastRef,
                 charge, stubs, decision, deadlines, batchVars>>

HoldScheduledPayment(p) ==
  /\ pstatus[p] = "SCHEDULED" /\ inBatch[p] = NoBatch
  /\ pstatus' = [pstatus EXCEPT ![p] = "HELD_BELOW_100"]
  /\ selectedBy' = [selectedBy EXCEPT ![p] = NoUser]
  /\ UNCHANGED <<istatus, revision, snapshot, inBatch, paid, lastRef, charge,
                 stubs, decision, deadlines, batchVars>>

\* approveHeldPayment asks only for the status, which manual and threshold
\* holds share.
ApproveHeldPayment(p) ==
  /\ pstatus[p] = "HELD_BELOW_100"
  /\ pstatus' = [pstatus EXCEPT ![p] = "SCHEDULED"]
  /\ UNCHANGED <<istatus, revision, snapshot, inBatch, selectedBy, paid, lastRef,
                 charge, stubs, decision, deadlines, batchVars>>

SetBelowThresholdDecision(p, d) ==
  /\ pstatus[p] = "HELD_BELOW_100"
  /\ d \in Decisions \ {"NONE"}
  /\ decision' = [decision EXCEPT ![p] = d]
  /\ pstatus' = [pstatus EXCEPT ![p] = IF d = "PROCEED" THEN "SCHEDULED" ELSE @]
  /\ UNCHANGED <<istatus, revision, snapshot, inBatch, selectedBy, paid, lastRef,
                 charge, stubs, deadlines, batchVars>>

\* getScheduledPaymentsForBatch records that the purchasing deadline of a held
\* payment has passed; rows whose deadlines pass together expire one by one.
ExpireBelowThresholdHold(p) ==
  /\ p \in deadlines
  /\ pstatus[p] = "HELD_BELOW_100" /\ decision[p] = "NONE"
  /\ decision' = [decision EXCEPT ![p] = "KEEP"]
  /\ UNCHANGED <<istatus, revision, pstatus, snapshot, inBatch, selectedBy, paid,
                 lastRef, charge, stubs, deadlines, batchVars>>

-----------------------------------------------------------------------------
(* Payment batches: creation and preparation.  createGroupedPaymentBatches
   handles the groups of one request one after the other, each group with its
   own reads and writes; a request is a series of the two steps below. *)

\* A group of one vendor, currency and bank snapshot, as the request names it:
\* the payments are looked up by id, whatever their status.
IsGroup(G) ==
  /\ G # {}
  /\ \A p, q \in G : BankSnapshotHash(p) = BankSnapshotHash(q)
  /\ \A p \in G : pstatus[p] # "NONE"

BelowThreshold(G) ==
  /\ Subtotal(G) < LowThreshold
  /\ \E p \in G : decision[p] # "PROCEED"

HoldGroupBelowThreshold(G) ==
  /\ IsGroup(G) /\ BelowThreshold(G)
  /\ pstatus' = [p \in Payments |-> IF p \in G THEN "HELD_BELOW_100" ELSE pstatus[p]]
  /\ selectedBy' = [p \in Payments |-> IF p \in G THEN NoUser ELSE selectedBy[p]]
  /\ decision' = [p \in Payments |-> IF p \in G THEN "NONE" ELSE decision[p]]
  /\ deadlines' = deadlines \cup G
  /\ UNCHANGED <<istatus, revision, snapshot, inBatch, paid, lastRef, charge,
                 stubs, batchVars>>

CreatePaymentBatch(u, G, b) ==
  /\ IsGroup(G) /\ ~BelowThreshold(G)
  /\ \A p \in G : /\ pstatus[p] = "SCHEDULED"
                  /\ inBatch[p] = NoBatch
                  /\ selectedBy[p] = u
  /\ NewBatch(b)
  /\ bstatus' = [bstatus EXCEPT ![b] = "DRAFT"]
  /\ total' = [total EXCEPT ![b] = Subtotal(G)]
  /\ setups' = setups \cup {b}
  /\ inBatch' = [p \in Payments |-> IF p \in G THEN b ELSE inBatch[p]]
  /\ selectedBy' = [p \in Payments |-> IF p \in G THEN NoUser ELSE selectedBy[p]]
  /\ UNCHANGED <<istatus, revision, pstatus, snapshot, paid, lastRef, charge,
                 stubs, decision, deadlines, cfoApproved>>

\* One charge per vendor in a batch; the batch total is recomputed.
ApplyBankCharge(b, p, c) ==
  /\ bstatus[b] \in OpenBatch /\ inBatch[p] = b
  /\ \A q \in Members(b) : Vendor[Owner[q]] = Vendor[Owner[p]] => charge[q] = 0
  /\ charge' = [charge EXCEPT ![p] = c]
  /\ total' = [total EXCEPT ![b] = Subtotal(Members(b)) + ChargeTotal(Members(b)) + c]
  /\ UNCHANGED <<istatus, revision, pstatus, snapshot, inBatch, selectedBy, paid,
                 lastRef, stubs, decision, deadlines, bstatus, setups, cfoApproved>>

\* Faulty variant: the charge removed is taken off the total of a charge that
\* is no longer counted.
RemoveBankChargeTwice(b, p) ==
  /\ bstatus[b] \in OpenBatch /\ inBatch[p] = b
  /\ charge[p] # 0
  /\ charge' = [charge EXCEPT ![p] = 0]
  /\ total' = [total EXCEPT ![b] = Subtotal(Members(b)) - charge[p]]
  /\ UNCHANGED <<istatus, revision, pstatus, snapshot, inBatch, selectedBy, paid,
                 lastRef, stubs, decision, deadlines, bstatus, setups, cfoApproved>>

RemoveBankCharge(b, p) ==
  /\ bstatus[b] \in OpenBatch /\ inBatch[p] = b
  /\ charge[p] # 0
  /\ charge' = [charge EXCEPT ![p] = 0]
  /\ total' = [total EXCEPT ![b] = Subtotal(Members(b)) + ChargeTotal(Members(b)) - charge[p]]
  /\ UNCHANGED <<istatus, revision, pstatus, snapshot, inBatch, selectedBy, paid,
                 lastRef, stubs, decision, deadlines, bstatus, setups, cfoApproved>>

\* Faulty variant: uploading the evidence endorses the payment at once.
EndorseBillStubAtOnce(b, p) ==
  /\ bstatus[b] \in OpenBatch \cup {"REVIEWED", "EXPORTED_TO_BANK"}
  /\ inBatch[p] = b /\ pstatus[p] = "SCHEDULED"
  /\ stubs' = stubs \cup {p}
  /\ pstatus' = [pstatus EXCEPT ![p] = "ENDORSED"]
  /\ UNCHANGED <<istatus, revision, snapshot, inBatch, selectedBy, paid, lastRef,
                 charge, decision, deadlines, batchVars>>

\* endorseBillStub: evidence only while the batch is prepared, ENDORSED once
\* it is reviewed.
EndorseBillStub(b, p) ==
  /\ bstatus[b] \in OpenBatch \cup {"REVIEWED", "EXPORTED_TO_BANK"}
  /\ inBatch[p] = b /\ pstatus[p] = "SCHEDULED"
  /\ stubs' = stubs \cup {p}
  /\ pstatus' = [pstatus EXCEPT ![p] = IF bstatus[b] \in OpenBatch THEN @ ELSE "ENDORSED"]
  /\ UNCHANGED <<istatus, revision, snapshot, inBatch, selectedBy, paid, lastRef,
                 charge, decision, deadlines, batchVars>>

\* updatePaymentBillsSetup with or without both fields filled in.
UpdatePaymentBillsSetup(b) ==
  /\ bstatus[b] \in OpenBatch
  /\ setups' \in {setups \cup {b}, setups \ {b}}
  /\ UNCHANGED <<istatus, revision, payVars, bstatus, cfoApproved, total>>

-----------------------------------------------------------------------------
(* Payment batches: review, release, return and cancellation. *)

SubmitPaymentBatchForReview(b) ==
  /\ bstatus[b] \in OpenBatch
  /\ Members(b) # {}
  /\ b \in setups
  /\ BillStubsUploaded(Members(b))
  /\ bstatus' = [bstatus EXCEPT ![b] = "PENDING_SUPERVISOR_REVIEW"]
  /\ UNCHANGED <<istatus, revision, payVars, setups, cfoApproved, total>>

RequiresCfo(b) ==
  \/ total[b] >= CfoThreshold
  \/ \E p \in Members(b) : Owner[p] \in FlaggedInvoices

ReviewPaymentBatch(b) ==
  /\ bstatus[b] = "PENDING_SUPERVISOR_REVIEW"
  /\ bstatus' = [bstatus EXCEPT ![b] = IF RequiresCfo(b) THEN "PENDING_CFO" ELSE "REVIEWED"]
  /\ UNCHANGED <<istatus, revision, payVars, setups, cfoApproved, total>>

ReturnPaymentBatch(b) ==
  /\ bstatus[b] = "PENDING_SUPERVISOR_REVIEW"
  /\ bstatus' = [bstatus EXCEPT ![b] = "RETURNED_FOR_CORRECTION"]
  /\ UNCHANGED <<istatus, revision, payVars, setups, cfoApproved, total>>

ApproveCfoPaymentBatch(b) ==
  /\ bstatus[b] = "PENDING_CFO"
  /\ bstatus' = [bstatus EXCEPT ![b] = "REVIEWED"]
  /\ cfoApproved' = cfoApproved \cup {b}
  /\ UNCHANGED <<istatus, revision, payVars, setups, total>>

RejectCfoPaymentBatch(b) ==
  /\ bstatus[b] = "PENDING_CFO"
  /\ bstatus' = [bstatus EXCEPT ![b] = "RETURNED_FOR_CORRECTION"]
  /\ UNCHANGED <<istatus, revision, payVars, setups, cfoApproved, total>>

MarkPaymentBatchExported(b) ==
  /\ bstatus[b] = "REVIEWED"
  /\ BillStubsUploaded(Members(b))
  /\ bstatus' = [bstatus EXCEPT ![b] = "EXPORTED_TO_BANK"]
  /\ UNCHANGED <<istatus, revision, payVars, setups, cfoApproved, total>>

CancelPaymentBatch(b) ==
  /\ bstatus[b] \in OpenBatch \cup {"PENDING_SUPERVISOR_REVIEW"}
  /\ bstatus' = [bstatus EXCEPT ![b] = "CANCELLED"]
  /\ inBatch' = Unlink(Members(b))
  /\ UNCHANGED <<istatus, revision, pstatus, snapshot, selectedBy, paid, lastRef,
                 charge, stubs, decision, deadlines, setups, cfoApproved, total>>

\* The payments of R leave batch b and are SCHEDULED again, whatever they were.
Unlinked(b, R) ==
  /\ bstatus[b] \in OpenBatch \cup {"PENDING_SUPERVISOR_REVIEW"}
  /\ R # {} /\ R \subseteq Members(b)
  /\ pstatus' = [p \in Payments |-> IF p \in R THEN "SCHEDULED" ELSE pstatus[p]]
  /\ inBatch' = Unlink(R)
  /\ selectedBy' = [p \in Payments |-> IF p \in R THEN NoUser ELSE selectedBy[p]]

\* The invoices of D go back to accounting review.
SentBack(D) ==
  istatus' = [i \in Invoices |->
                IF \E p \in D : Owner[p] = i THEN "PENDING_ACCOUNTING" ELSE istatus[i]]

\* Faulty variant: only cancelled invoices are taken for final.
FinalCancelled(R) == {p \in R : istatus[Owner[p]] = "CANCELLED"}

\* Payments of R whose invoice is final, so that its reset is refused.
Final(R) == {p \in R : istatus[Owner[p]] \in TerminalStatus}

ReturnInvoicesFromBatch(b, R) ==
  /\ Unlinked(b, R)
  /\ Final(R) = {}
  /\ SentBack(R)
  /\ LET rest == Members(b) \ R
     IN  /\ bstatus' = [bstatus EXCEPT ![b] = IF rest = {} THEN "CANCELLED" ELSE @]
         /\ total' = [total EXCEPT ![b] = Subtotal(rest)]
  /\ UNCHANGED <<revision, snapshot, paid, lastRef, charge, stubs, decision,
                 deadlines, setups, cfoApproved>>

\* The same request stopped at an invoice that cannot be reset: the payments
\* are already unlinked, D's invoices already reset, the batch not yet updated.
ReturnInvoicesInterrupted(b, R, D) ==
  /\ Unlinked(b, R)
  /\ Final(R) # {} /\ D \subseteq R \ Final(R)
  /\ SentBack(D)
  /\ UNCHANGED <<revision, snapshot, paid, lastRef, charge, stubs, decision,
                 deadlines, batchVars>>

-----------------------------------------------------------------------------
(* Execution: paying and confirming. *)

\* processPayment from its own route, whatever batch the payment is in.
ProcessPayment(p) ==
  /\ pstatus[p] = "SCHEDULED"
  /\ pstatus' = [pstatus EXCEPT ![p] = "PAID"]
  /\ istatus' = InvoicesPaid({p})
  /\ UNCHANGED <<revision, snapshot, inBatch, selectedBy, paid, lastRef, charge,
                 stubs, decision, deadlines, batchVars>>

\* processPaymentBatch pays the SCHEDULED members and skips the others.  It
\* stops at the first payment whose invoice refuses PAID, which leaves the
\* batch PROCESSING with D, that payment included, already PAID.
ProcessPaymentBatch(b, D) ==
  LET due == {p \in Members(b) : pstatus[p] = "SCHEDULED"}
  IN  /\ bstatus[b] \in {"REVIEWED", "EXPORTED_TO_BANK"}
      /\ BillStubsUploaded(Members(b))
      /\ D \subseteq due
      /\ IF Unpayable(due) = {} THEN D = due ELSE Cardinality(Unpayable(D)) = 1
      /\ pstatus' = [p \in Payments |-> IF p \in D THEN "PAID" ELSE pstatus[p]]
      /\ istatus' = InvoicesPaid(D)
      /\ bstatus' = [bstatus EXCEPT ![b] =
                       IF Unpayable(due) = {} THEN "PROCESSED" ELSE "PROCESSING"]
      /\ UNCHANGED <<revision, snapshot, inBatch, selectedBy, paid, lastRef,
                     charge, stubs, decision, deadlines, setups, cfoApproved, total>>

Least(x, y) == IF x < y THEN x ELSE y

\* paid_amount of p after a confirmation of the matched set S: the amount on
\* the confirmation counts only when it matches a single payment.
PaidAfter(p, S, c) ==
  paid[p] + (IF S = {p} THEN Least(PaymentAmount(p), c) ELSE PaymentAmount(p))

\* matchPaymentConfirmation for the matched payments S.  D are the payments it
\* updates: all of S, or those before the first one it throws at - a repeated
\* reference (not updated) or a refused invoice (updated, D includes it).
MatchPaymentConfirmation(b, S, D, c, r) ==
  LET repeated == {p \in S : pstatus[p] = "PARTIALLY_PAID" /\ lastRef[p] = r}
      full == {p \in D : PaidAfter(p, S, c) >= PaymentAmount(p)}
      refused == Unpayable({p \in S : PaidAfter(p, S, c) >= PaymentAmount(p)})
      complete == repeated = {} /\ refused = {}
  IN  /\ bstatus[b] # "NONE"
      /\ D # {} /\ D \subseteq S \ repeated
      /\ \A p \in D : PaidAfter(p, S, c) <= MaxPaid
      /\ S \subseteq {p \in Members(b) : pstatus[p] \in {"ENDORSED", "PARTIALLY_PAID"}}
      /\ IF complete THEN D = S ELSE \/ Cardinality(D \cap refused) = 1
                                     \/ D \cap refused = {} /\ repeated # {}
      /\ pstatus' = [p \in Payments |->
                       IF p \in full THEN "PAID"
                       ELSE IF p \in D THEN "PARTIALLY_PAID" ELSE pstatus[p]]
      /\ paid' = [p \in Payments |-> IF p \in D THEN PaidAfter(p, S, c) ELSE paid[p]]
      /\ lastRef' = [p \in Payments |-> IF p \in D THEN r ELSE lastRef[p]]
      /\ istatus' = InvoicesPaid(full)
      /\ bstatus' = [bstatus EXCEPT ![b] =
                       IF complete /\ \A p \in Members(b) : p \in full \/ pstatus[p] = "PAID"
                       THEN "PROCESSED" ELSE @]
      /\ UNCHANGED <<revision, snapshot, inBatch, selectedBy, charge, stubs,
                     decision, deadlines, setups, cfoApproved, total>>

-----------------------------------------------------------------------------
InvoiceStep ==
  \E i \in Invoices :
    \/ ApproveLast(i)
    \/ RejectFromAccounting(i)
    \/ \E p \in Payments : SchedulePayment(i, p)
    \/ \E p \in Payments : PostInvoice(i, p)
    \/ PostInvoiceUnscheduled(i)
    \/ PostInvoiceBlocked(i)
    \/ ReleaseFromHold(i)
    \/ HoldInvoiceForBatchThreshold(i)
    \/ UpdateInvoice(i)
    \/ \E s \in PatchedStatuses : UpdateInvoiceStatus(i, s)
    \/ ReprocessInvoice(i)
    \/ CancelInvoice(i)

QueueStep ==
  \/ \E u \in Users, p \in Payments : SelectPaymentForBatch(u, p)
  \/ \E u \in Users, p \in Payments : DeselectPaymentForBatch(u, p)
  \/ \E p \in Payments : MarkPaymentForPayment(p)
  \/ \E p \in Payments : HoldScheduledPayment(p)
  \/ \E p \in Payments : ApproveHeldPayment(p)
  \/ \E p \in Payments, d \in Decisions : SetBelowThresholdDecision(p, d)
  \/ \E p \in Payments : ExpireBelowThresholdHold(p)
  \/ \E G \in SUBSET Payments : HoldGroupBelowThreshold(G)
  \/ \E u \in Users, G \in SUBSET Payments, b \in Batches : CreatePaymentBatch(u, G, b)

BatchStep ==
  \E b \in Batches :
    \/ \E p \in Payments, c \in Charges : ApplyBankCharge(b, p, c)
    \/ \E p \in Payments : RemoveBankCharge(b, p)
    \/ \E p \in Payments : EndorseBillStub(b, p)
    \/ UpdatePaymentBillsSetup(b)
    \/ SubmitPaymentBatchForReview(b)
    \/ ReviewPaymentBatch(b)
    \/ ReturnPaymentBatch(b)
    \/ ApproveCfoPaymentBatch(b)
    \/ RejectCfoPaymentBatch(b)
    \/ MarkPaymentBatchExported(b)
    \/ CancelPaymentBatch(b)
    \/ \E R \in SUBSET Payments : ReturnInvoicesFromBatch(b, R)
    \/ \E R, D \in SUBSET Payments : ReturnInvoicesInterrupted(b, R, D)

ExecutionStep ==
  \/ \E p \in Payments : ProcessPayment(p)
  \/ \E b \in Batches, D \in SUBSET Payments : ProcessPaymentBatch(b, D)
  \/ \E b \in Batches, S, D \in SUBSET Payments, c \in Confirmations, r \in Refs :
       MatchPaymentConfirmation(b, S, D, c, r)

Next == InvoiceStep \/ QueueStep \/ BatchStep \/ ExecutionStep

Spec == Init /\ [][Next]_vars

-----------------------------------------------------------------------------
(* Properties. *)

\* The types of every column but the batch total.
StateOK ==
  /\ istatus \in [Invoices -> InvoiceStatus]
  /\ revision \in [Invoices -> Revisions]
  /\ pstatus \in [Payments -> PaymentStatus]
  /\ snapshot \in [Payments -> Revisions]
  /\ inBatch \in [Payments -> Batches \cup {NoBatch}]
  /\ selectedBy \in [Payments -> Users \cup {NoUser}]
  /\ paid \in [Payments -> Nat]
  /\ lastRef \in [Payments -> Refs \cup {NoRef}]
  /\ charge \in [Payments -> Charges \cup {0}]
  /\ stubs \subseteq Payments
  /\ decision \in [Payments -> Decision]
  /\ deadlines \subseteq Payments
  /\ bstatus \in [Batches -> BatchStatus]
  /\ setups \subseteq Batches
  /\ cfoApproved \subseteq Batches

\* Every column holds a value of its type.
TypeOK == StateOK /\ total \in [Batches -> Nat]

\* A payment the bank is asked to pay, or has paid in part, is in a batch that
\* a Supervisor has reviewed: no return, cancellation or void takes it out.
EndorsedOnlyInReleasedBatch ==
  \A p \in Payments : pstatus[p] \in {"ENDORSED", "PARTIALLY_PAID"} =>
    inBatch[p] # NoBatch /\ bstatus[inBatch[p]] \in ReleasedBatch

\* The payments of a batch that its total has to cover: not a voided row, and
\* not one that a group request has put on hold below the threshold, which may
\* bring a voided row of the batch back.
Counted(b) == {p \in Members(b) : pstatus[p] # "CANCELLED" /\ p \notin deadlines}

\* A batch needs the CFO if it pays out the threshold or more, by the total on
\* record or by the payments it holds, or if it holds a flagged invoice.
NeedsCfo(b) ==
  \/ total[b] >= CfoThreshold
  \/ Subtotal(Counted(b)) >= CfoThreshold
  \/ \E p \in Members(b) : Owner[p] \in FlaggedInvoices

\* No batch that needs the CFO gets past review without the CFO's approval,
\* along any charge, return, cancellation and resubmission: the total that the
\* review reads never falls short of the payments the batch will pay.
CfoGate ==
  \A b \in Batches : bstatus[b] \in ReleasedBatch /\ NeedsCfo(b) => b \in cfoApproved

\* Once a payment is PAID its invoice is closed: it cannot be edited, posted
\* or scheduled again, even when the invoice's own PAID write was refused.
PaidPaymentStopsInvoice ==
  \A p \in Payments : pstatus[p] = "PAID" => istatus[Owner[p]] \in TerminalStatus

\* A PAID or CANCELLED invoice never changes status again, whichever handler
\* writes it (validateWorkflowTransition: terminal records are immutable).
TerminalInvoiceFrozen ==
  [][\A i \in Invoices : istatus[i] \in TerminalStatus => istatus'[i] = istatus[i]]_vars

\* The phase BatchControl has for a batch of each status.
PhaseAt(s) ==
  CASE s = "NONE" -> "none"
    [] s \in OpenBatch -> "open"
    [] s = "PENDING_SUPERVISOR_REVIEW" -> "review"
    [] s = "PENDING_CFO" -> "cfo"
    [] s = "CANCELLED" -> "cancelled"
    [] OTHER -> "released"

PhaseOf == [b \in Batches |-> PhaseAt(bstatus[b])]

Control == INSTANCE BatchControl WITH
  phase <- PhaseOf,
  holds <- [b \in Batches |-> Members(b)],
  evidence <- stubs,
  large <- {b \in Batches : RequiresCfo(b)}

\* Through charges, returns, cancelled invoices, refused writes and partial
\* confirmations, the handlers together keep the promises of BatchControl: so
\* what the bank file of a released batch lists is what is confirmed later,
\* nothing joins a batch that its reviews have not covered, and a cancelled
\* batch has freed every payment.
BatchControlled == Control!Spec

-----------------------------------------------------------------------------
(* What the repository's documents say, and the code does not keep. *)

\* Active-payment uniqueness: an invoice has at most one payment that is not
\* cancelled (docs/FINANCE_RISK_REGISTER.md; the check of schedulePayment).
OneActivePayment ==
  \A p, q \in Payments : /\ Owner[p] = Owner[q]
                         /\ pstatus[p] \in ActiveStatus /\ pstatus[q] \in ActiveStatus
                         => p = q
=============================================================================
