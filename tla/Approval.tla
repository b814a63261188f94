------------------------------ MODULE Approval ------------------------------
(* The life of one invoice from its creation to its posting: validation and  *)
(* its exceptions, the chain of approval signatures, edits that open a new   *)
(* revision, rejection and return, cancellation, deletion and reprocessing   *)
(* (apps/api/src/services: approvalService, validationService,               *)
(* exceptionService, invoiceService, reprocessService).                      *)
(*                                                                           *)
(* A validation is two steps, because its rules wait for an external system  *)
(* (NextGen) between the check of the status and the write of the outcome;   *)
(* every other handler is one step.                                          *)
EXTENDS Integers, Sequences, FiniteSets, Functions

CONSTANTS
    Users,          \* the people who act on the invoice
    RoleOf,         \* the signatory role of each of them (a president's second
                    \* one, as accounting reviewer, is left out)
    Requesters,     \* those of them who may ask for a cancellation
    Finalizers,     \* system administrators, who may finalize any cancellation
    Tiers,          \* approval tiers the amount can have: 1, 2 or 3
    Sources,        \* "UPLOAD", "PREAPPROVED": how the invoice may be created
    Reasons,        \* reasons of exceptions
    Unavailable,    \* those which say that a check could not run
    PatchedStatuses,\* statuses that PATCH /:id/status is used to write
    MaxRevision,    \* bound: material edits
    MaxSignatures,  \* bound: signature rows
    MaxReadings,    \* bound: new readings of the document
    NoOne           \* no user, no role, no validation

ASSUME TiersAssumption == /\ Tiers \subseteq 1..3
                          /\ MaxRevision \in Nat \ {0} /\ MaxSignatures \in Nat
                          /\ MaxReadings \in Nat
ASSUME UsersAssumption == /\ \A u \in Users \cup {NoOne} : u # "AUTO-APPROVED"
                          /\ NoOne \notin Users

VARIABLES
    status,         \* Invoice.status
    revision,       \* Invoice.revision
    tier,           \* the tier of Invoice.total_amount
    routed,         \* history: the tier createApprovalRequest last laid rows out for
    ready,          \* the fields an approval requires are filled in
    approver,       \* Invoice.current_approver_role
    sigs,           \* Signature rows in order of creation
    pending,        \* reasons of the exceptions in status PENDING
    handled,        \* reasons of those RESOLVED or WAIVED
    requester,      \* Invoice.cancellation_requested_by
    readings,       \* history: how often the document was read again
    check,          \* the validation that runs: the handled reasons it read
    source          \* how the invoice was created

vars == <<status, revision, tier, routed, ready, approver, sigs, pending,
          handled, requester, readings, check, source>>
history == <<routed, readings>>
content == <<revision, tier, ready, source>>

-----------------------------------------------------------------------------
Chain == <<"COORDINATOR", "PURCHASING_MANAGER", "SR_MANAGER", "PRESIDENT">>
Reviewer == "ACCOUNTING_REVIEWER"
Roles == Range(Chain) \cup {Reviewer}
AutoApproved == "AUTO-APPROVED"

\* determineApprovalRoute: who signs, in order.
RouteOf(t) == SubSeq(Chain, 1, t + 1)
Route == RouteOf(tier)

\* mapSignatoryRoleToPendingStatus.
StageOf == [r \in Roles |->
    CASE r = "COORDINATOR" -> "PENDING_COORDINATOR"
      [] r = "PURCHASING_MANAGER" -> "PENDING_MANAGER"
      [] r = "SR_MANAGER" -> "PENDING_SR_MANAGER"
      [] r = "PRESIDENT" -> "PENDING_PRESIDENT"
      [] OTHER -> "PENDING_ACCOUNTING"]

ChainStatus == {StageOf[r] : r \in Range(Chain)}
Approved == {"PENDING_ACCOUNTING", "APPROVED"}
Intake == {"RECEIVED", "VALIDATION_PENDING", "EXCEPTION_FLAGGED"}

ASSUME RolesAssumption == /\ \A u \in Users : RoleOf[u] \in Roles
                          /\ NoOne \notin Roles

\* IN_PAYMENT stands for POSTED_TO_QB and PAYMENT_SCHEDULED; what follows is
\* in PaymentPipeline.
Gone == {"CANCELLED", "DELETED"}
Status == Intake \cup ChainStatus \cup Approved \cup Gone \cup {"ON_HOLD", "IN_PAYMENT"}

ASSUME PatchesAssumption == PatchedStatuses \subseteq Status \ Gone

\* The statuses validateInvoice refuses; PENDING_PRESIDENT, ON_HOLD and
\* CANCELLED are not on its list.
Locked == ((ChainStatus \cup Approved) \ {"PENDING_PRESIDENT"}) \cup {"IN_PAYMENT", "DELETED"}

\* Faulty variant: an edit in Accounting leaves the approval as it is.
ApprovalUnfinished == ChainStatus \cup {"ON_HOLD"}
\* The statuses in which an edit opens the approval again.
ApprovalStarted == ChainStatus \cup Approved \cup {"ON_HOLD"}

Signature == [role : Roles, rev : 1..MaxRevision, signed : BOOLEAN, invalid : BOOLEAN,
              state : {"PENDING", "APPROVED", "RECONFIRMATION_REQUIRED", "SUPERSEDED"},
              by : Users \cup {NoOne, AutoApproved}]

NewSignature(role, who) ==
    [role |-> role, rev |-> revision, signed |-> FALSE, invalid |-> FALSE,
     state |-> "PENDING", by |-> who]
Signed(sig, who) ==
    [sig EXCEPT !.signed = TRUE, !.invalid = FALSE, !.state = "APPROVED", !.by = who]

\* Faulty variant: a row asked again keeps its old signature.
ReopenedStillSigned(sig) ==
    [sig EXCEPT !.invalid = TRUE, !.state = "RECONFIRMATION_REQUIRED"]

\* A return clears the signature and keeps the name.
Reopened(sig) ==
    [sig EXCEPT !.signed = FALSE, !.invalid = TRUE, !.state = "RECONFIRMATION_REQUIRED"]
Superseded(sig) == [sig EXCEPT !.state = "SUPERSEDED", !.invalid = TRUE]

\* The rows S of sigs changed by a step.
Changed(S, Change(_)) == [i \in DOMAIN sigs |-> IF i \in S THEN Change(sigs[i]) ELSE sigs[i]]

\* Rows of all revisions that count, and those of the current revision.
Live(rows) == {i \in DOMAIN rows : rows[i].state # "SUPERSEDED"}
Workflow(rows) == {i \in Live(rows) : rows[i].rev = revision}
OfRole(rows, role) == {i \in DOMAIN rows : rows[i].role = role}
Unsigned(rows) == {i \in DOMAIN rows : ~ rows[i].signed}
Earliest(S) == CHOOSE i \in S : \A j \in S : i <= j
Latest(S) == CHOOSE i \in S : \A j \in S : i >= j
From(S, i) == {j \in S : j >= i}

\* Every write of the status passes the workflow guard: CANCELLED is final.
MoveTo(stage, role) ==
    IF status = "CANCELLED" THEN UNCHANGED <<status, approver>>
    ELSE status' = stage /\ approver' = role
MoveToRole(role) == MoveTo(StageOf[role], role)

Init ==
    /\ source \in Sources
    /\ status = IF source = "PREAPPROVED" THEN "PENDING_ACCOUNTING" ELSE "RECEIVED"
    /\ revision = 1 /\ tier \in Tiers /\ routed = tier /\ ready \in BOOLEAN
    /\ approver = NoOne /\ requester = NoOne /\ check = NoOne /\ readings = 0
    /\ sigs = <<>> /\ pending = {} /\ handled = {}

-----------------------------------------------------------------------------
(* createApprovalRequest on an invoice in VALIDATION_PENDING: rows of roles  *)
(* that left the route are superseded, missing ones are created.             *)

\* Nothing was missing: the stage is that of any unsigned row, for the query
\* has no order, and nothing happens when all are signed.
ResumeChain(kept) ==
    \/ \E i \in kept \cap Unsigned(sigs) : MoveToRole(sigs[i].role)
    \/ kept \cap Unsigned(sigs) = {} /\ MoveTo("VALIDATION_PENDING", approver)

\* The first role on the route whose row is not signed.
EnterChain(rows) ==
    LET of(k) == OfRole(rows, Route[k]) \cap Workflow(rows)
    IN \E k \in 1..Len(Route) :
          /\ of(k) \cap Unsigned(rows) # {}
          /\ \A j \in 1..(k - 1) : of(j) \ Unsigned(rows) # {}
          /\ MoveToRole(Route[k])

StartChain ==
    LET route == Range(Route)
        stale == {i \in Workflow(sigs) : sigs[i].role \notin route}
        kept == Workflow(sigs) \ stale
        covered == {sigs[i].role : i \in kept}
        missing == {k \in DOMAIN Route : Route[k] \notin covered}
    IN \E order \in [1..Cardinality(missing) -> missing] :
          /\ Range(order) = missing
          /\ \A a, b \in DOMAIN order : a < b => order[a] < order[b]
          /\ Len(sigs) + Len(order) <= MaxSignatures
          /\ sigs' = Changed(stale, Superseded) \o
                     [a \in DOMAIN order |-> NewSignature(Route[order[a]], NoOne)]
          /\ routed' = tier
          /\ IF missing = {} THEN ResumeChain(kept) ELSE EnterChain(sigs')

\* The coordinator asks for approval; EXCEPTION_FLAGGED without a pending
\* exception is recovered first.
RequestApproval ==
    /\ ready
    /\ status = "VALIDATION_PENDING" \/ (status = "EXCEPTION_FLAGGED" /\ pending = {})
    /\ StartChain
    /\ UNCHANGED <<content, readings, pending, handled, requester, check>>

(* approveInvoice. It does not look at the status, except that an invoice    *)
(* without signatures in PENDING_ACCOUNTING gets its chain signed for it.    *)
WithAutoChain ==
    IF Workflow(sigs) = {} /\ status = "PENDING_ACCOUNTING"
    THEN sigs \o <<Signed(NewSignature("COORDINATOR", AutoApproved), AutoApproved),
                   Signed(NewSignature("PURCHASING_MANAGER", AutoApproved), AutoApproved),
                   NewSignature(Reviewer, NoOne)>>
    ELSE sigs

\* The rows this user could sign.
ForUser(rows, u) == Workflow(rows) \cap Unsigned(rows) \cap OfRole(rows, RoleOf[u])
InTurn(rows, i) == \A j \in Workflow(rows) : j < i => rows[j].signed

\* Faulty variant: without the check of the earlier signatures.
MaySignOutOfTurn(rows, i, u) ==
    rows[i].state = "RECONFIRMATION_REQUIRED" => rows[i].by \in {u, NoOne}

\* A returned row waits for the person who had signed it.
MaySign(rows, i, u) ==
    /\ InTurn(rows, i)
    /\ rows[i].state = "RECONFIRMATION_REQUIRED" => rows[i].by \in {u, NoOne}

\* The remaining row that comes first on the route.
NextRole(rest, rows) ==
    LET left == {rows[i].role : i \in rest}
        onRoute == {k \in 1..Len(Route) : Route[k] \in left}
    IN IF onRoute = {} THEN CHOOSE r \in left : TRUE ELSE Route[Earliest(onRoute)]

Sign(u) ==
    \E i \in ForUser(WithAutoChain, u) :
        LET rows == WithAutoChain
            rest == (Workflow(rows) \cap Unsigned(rows)) \ {i}
        IN /\ MaySign(rows, i, u)
           /\ sigs' = [rows EXCEPT ![i] = Signed(@, u)]
           /\ IF rest = {} THEN MoveTo("PENDING_ACCOUNTING", NoOne)
              ELSE MoveToRole(NextRole(rest, rows))

\* All have signed: whoever approves next becomes the accounting reviewer.
Complete(u) ==
    /\ status = "PENDING_ACCOUNTING" /\ Workflow(sigs) # {}
    /\ \A i \in Workflow(sigs) :
          sigs[i].signed /\ sigs[i].state = "APPROVED" /\ sigs[i].role # Reviewer
    /\ Len(sigs) < MaxSignatures
    /\ sigs' = Append(sigs, Signed(NewSignature(Reviewer, u), u))
    /\ MoveTo("APPROVED", NoOne)

\* The chain was created, and this user has nothing to sign in it.
OnlyCreateChain(u) ==
    /\ WithAutoChain # sigs /\ ForUser(WithAutoChain, u) = {}
    /\ sigs' = WithAutoChain
    /\ UNCHANGED <<status, approver>>

ApproveInvoice(u) ==
    /\ status # "DELETED" /\ ready
    /\ Len(WithAutoChain) <= MaxSignatures
    /\ Sign(u) \/ Complete(u) \/ OnlyCreateChain(u)
    /\ UNCHANGED <<content, history, pending, handled, requester, check>>

-----------------------------------------------------------------------------
(* rejectInvoice. It looks at the rows of every revision, superseded ones    *)
(* too, for the caller's unsigned row and for unsigned rows before it.       *)
Rejectable(u) ==
    {i \in Unsigned(sigs) \cap OfRole(sigs, RoleOf[u]) :
        \A j \in DOMAIN sigs : j < i => sigs[j].signed}

\* Signed rows from the rejecting one on are marked invalid, and the last
\* valid approver before it, or else the coordinator, is asked again. Without
\* a coordinator's row one is created, for a coordinator found by name. If the
\* rejecting row is superseded, the last that counts is taken in its place.
RejectSigned(i) ==
    LET cut == IF i \in Live(sigs) \/ Live(sigs) = {} THEN i ELSE Latest(Live(sigs))
        later == From(Live(sigs), cut) \ Unsigned(sigs)
        rows == [j \in DOMAIN sigs |->
                    IF j \in later THEN [sigs[j] EXCEPT !.invalid = TRUE] ELSE sigs[j]]
        before == {j \in Live(sigs) : j < cut /\ sigs[j].signed /\ ~ sigs[j].invalid}
        coordinator == Live(sigs) \cap OfRole(sigs, "COORDINATOR")
        Reopen(j) == /\ sigs' = [rows EXCEPT ![j] = Reopened(@)]
                     /\ MoveToRole(IF before = {} THEN "COORDINATOR" ELSE sigs[j].role)
    IN IF before # {} THEN Reopen(Latest(before))
       ELSE IF coordinator # {} THEN Reopen(Earliest(coordinator))
       ELSE /\ Len(sigs) < MaxSignatures
            /\ \E u \in Users :
                  /\ RoleOf[u] = "COORDINATOR"
                  /\ sigs' = Append(rows, NewSignature("COORDINATOR", u))
            /\ MoveToRole("COORDINATOR")

\* Accounting has no row of its own: the coordinator's row and all after it are
\* asked again, or a coordinator's row is created.
RejectFromAccounting(u) ==
    /\ RoleOf[u] = Reviewer /\ status = "PENDING_ACCOUNTING"
    /\ Unsigned(sigs) \cap OfRole(sigs, Reviewer) = {}
    /\ LET coordinator == Live(sigs) \cap OfRole(sigs, "COORDINATOR")
       IN IF coordinator # {}
          THEN sigs' = Changed(From(Live(sigs), Earliest(coordinator)), Reopened)
          ELSE /\ Len(sigs) < MaxSignatures
               /\ \E c \in Users : /\ RoleOf[c] = "COORDINATOR"
                                   /\ sigs' = Append(sigs, NewSignature("COORDINATOR", c))
    /\ MoveToRole("COORDINATOR")

RejectInvoice(u) ==
    /\ \/ \E i \in Rejectable(u) : RejectSigned(i)
       \/ RejectFromAccounting(u)
    /\ UNCHANGED <<content, history, pending, handled, requester, check>>

\* returnInvoice: to the signer the caller names, or to the last one before
\* the caller, or to the coordinator; that row and all after it are asked again.
ReturnInvoice(u) ==
    /\ ForUser(sigs, u) # {}
    /\ LET rows == Workflow(sigs)
           signed == rows \ Unsigned(sigs)
           before == {i \in signed : i < Earliest(ForUser(sigs, u))}
           coordinator == IF RoleOf[u] = "COORDINATOR" THEN {}
                          ELSE signed \cap OfRole(sigs, "COORDINATOR")
           named(r) == signed \cap OfRole(sigs, r)
           Return(i) == /\ sigs' = Changed(From(rows, i), Reopened)
                        /\ MoveToRole(sigs[i].role)
       IN \/ before # {} /\ Return(Latest(before))
          \/ before = {} /\ coordinator # {} /\ Return(Earliest(coordinator))
          \/ \E r \in Roles : named(r) # {} /\ Return(Earliest(named(r)))
    /\ UNCHANGED <<content, history, pending, handled, requester, check>>

-----------------------------------------------------------------------------
(* validateInvoice: the status is checked and the pending exceptions are     *)
(* deleted; the rules run; the outcome is written whatever the status is by  *)
(* then. Creation, edits, automatic resolution, reprocessing and users all   *)
(* start it, and it may start whenever the status allows.                    *)
BeginValidation ==
    /\ check = NoOne
    /\ status \notin Locked
    /\ pending' = {}
    /\ check' = [handled |-> handled]
    /\ UNCHANGED <<content, history, status, approver, sigs, handled, requester>>

\* Reasons raised again: not those accepted before, unless the check could
\* not run. Only what failed, not a mere advisory, blocks.
Raised(found) == {r \in found : r \in Unavailable \/ r \notin check.handled}
Blocks(found, failed) == Raised(found) \cap (Unavailable \cup failed) # {}

\* Approval is asked for at once, unless the caller holds the invoice for the
\* coordinator (skipAutoAdvance) or the request fails.
FinishValidation ==
    /\ check # NoOne
    /\ check' = NoOne
    /\ \E found \in SUBSET Reasons : \E failed \in SUBSET found :
          /\ pending' = pending \cup Raised(found)
          /\ IF Blocks(found, failed)
                THEN MoveTo("EXCEPTION_FLAGGED", approver) /\ UNCHANGED <<sigs, routed>>
             ELSE \/ MoveTo("VALIDATION_PENDING", approver) /\ UNCHANGED <<sigs, routed>>
                  \/ ready /\ status # "CANCELLED" /\ StartChain
    /\ UNCHANGED <<content, readings, handled, requester>>

\* The document turns out not to be payable: it is cancelled before the
\* outcome, whose own status write is then refused.
FinishNonPayable ==
    /\ check # NoOne
    /\ check' = NoOne
    /\ MoveTo("CANCELLED", approver)
    /\ \E found \in SUBSET Reasons : pending' = pending \cup Raised(found)
    /\ UNCHANGED <<content, history, sigs, handled, requester>>

\* resolveException and waiveException: after the last one the coordinator may
\* ask for approval.
HandleException ==
    \E r \in pending :
        /\ pending' = pending \ {r}
        /\ handled' = handled \cup {r}
        /\ IF pending = {r} /\ status = "EXCEPTION_FLAGGED"
              THEN MoveTo("VALIDATION_PENDING", approver)
           ELSE UNCHANGED <<status, approver>>
        /\ UNCHANGED <<content, history, sigs, requester, check>>

\* autoResolveLowRiskExceptions: whichever are low in risk, and after the last
\* one a new validation.
AutoResolve ==
    \E S \in SUBSET (pending \ Unavailable) :
        /\ S # {}
        /\ pending' = pending \ S
        /\ handled' = handled \cup S
        /\ UNCHANGED <<content, history, status, approver, sigs, requester, check>>

-----------------------------------------------------------------------------
(* updateInvoice. A material change is a new revision; once approval has     *)
(* started it supersedes the signed rows, and validation starts again. In    *)
(* Accounting only bank details and the vendor can still change.             *)

\* Faulty variant: one edit counts two revisions.
NextRevisionTwice == revision + 2

NextRevision == revision + 1
UpdateInvoice ==
    /\ status \notin {"IN_PAYMENT", "CANCELLED", "DELETED"}
    /\ revision < MaxRevision
    /\ revision' = NextRevision
    /\ ready' \in IF status \in Approved THEN {ready} ELSE BOOLEAN
    /\ tier' \in IF status \in Approved THEN {tier} ELSE Tiers
    /\ IF status \in ApprovalStarted
          THEN /\ sigs' = Changed(DOMAIN sigs \ Unsigned(sigs), Superseded)
               /\ MoveTo("VALIDATION_PENDING", NoOne)
       ELSE UNCHANGED <<sigs, status, approver>>
    /\ UNCHANGED <<source, history, pending, handled, requester, check>>

\* updateInvoiceStatus: any status but CANCELLED, from any status but CANCELLED.
UpdateInvoiceStatus ==
    /\ status \notin Gone
    /\ \E s \in PatchedStatuses : MoveTo(s, approver)
    /\ UNCHANGED <<content, history, sigs, pending, handled, requester, check>>

RequestCancellation(u) ==
    /\ u \in Requesters
    /\ status \notin Gone
    /\ requester' = u
    /\ UNCHANGED <<content, history, status, approver, sigs, pending, handled, check>>

\* currentInvoiceApproverSignatory: the stored role before that of the status.
CurrentApprover ==
    IF approver # NoOne THEN approver
    ELSE IF status = "APPROVED" THEN NoOne
    ELSE LET of == {r \in Roles : StageOf[r] = status}
         IN IF of = {} THEN NoOne ELSE CHOOSE r \in of : TRUE

CoordinatorOwned(s) == s \in Intake \cup {"PENDING_COORDINATOR"}

\* A coordinator alone while the invoice is the coordinators'; afterwards a
\* request, and a second person who is its approver.
MayCancel(u) ==
    \/ RoleOf[u] = "COORDINATOR" /\ CoordinatorOwned(status)
    \/ /\ requester # NoOne
       /\ requester # u \/ u \in Finalizers
       /\ \/ u \in Finalizers
          \/ RoleOf[u] = Reviewer /\ status \in {"APPROVED", "IN_PAYMENT", "ON_HOLD"}
          \/ RoleOf[u] = CurrentApprover

CancelInvoice(u) ==
    /\ status \notin Gone
    /\ MayCancel(u)
    /\ MoveTo("CANCELLED", approver)
    /\ UNCHANGED <<content, history, sigs, pending, handled, requester, check>>

\* deleteInvoice: only what never entered the workflow.
DeleteInvoice ==
    /\ status \in Intake
    /\ status' = "DELETED" /\ sigs' = <<>> /\ pending' = {} /\ handled' = {}
    /\ approver' = NoOne /\ requester' = NoOne /\ check' = NoOne
    /\ UNCHANGED <<content, history>>

\* postInvoice, and whatever payment does later (PaymentPipeline).
PostInvoice ==
    /\ status \in Approved
    /\ MoveTo("IN_PAYMENT", approver)
    /\ UNCHANGED <<content, history, sigs, pending, handled, requester, check>>

\* reprocessInvoice: all signatures go, and validation starts again.
ReprocessInvoice ==
    /\ status \in {"IN_PAYMENT", "ON_HOLD", "PENDING_ACCOUNTING"}
    /\ sigs' = <<>> /\ pending' = {}
    /\ MoveTo("VALIDATION_PENDING", approver)
    /\ UNCHANGED <<content, history, handled, requester, check>>

\* reExtractInvoice reads the document again and writes what it finds, the
\* amount too, in the same revision. The status it looked at is the one before
\* the reading, so that it may be any by now: if it was one of intake, the
\* invoice is validated again, wherever it has come since.
ReExtractInvoice ==
    /\ status # "DELETED" /\ readings < MaxReadings
    /\ readings' = readings + 1
    /\ tier' \in Tiers /\ ready' \in BOOLEAN
    /\ \/ pending' = {} /\ MoveTo("VALIDATION_PENDING", approver)
       \/ UNCHANGED <<pending, status, approver>>
    /\ UNCHANGED <<source, revision, routed, sigs, handled, requester, check>>

Next ==
    \/ RequestApproval
    \/ \E u \in Users : ApproveInvoice(u) \/ RejectInvoice(u) \/ ReturnInvoice(u)
    \/ BeginValidation \/ FinishValidation \/ FinishNonPayable
    \/ HandleException \/ AutoResolve
    \/ UpdateInvoice \/ UpdateInvoiceStatus
    \/ \E u \in Users : RequestCancellation(u) \/ CancelInvoice(u)
    \/ DeleteInvoice \/ PostInvoice \/ ReprocessInvoice \/ ReExtractInvoice

Spec == Init /\ [][Next]_vars

-----------------------------------------------------------------------------
\* Types of all columns, and the bounds of the instance.
TypeOK ==
    /\ status \in Status /\ revision \in 1..MaxRevision
    /\ tier \in Tiers /\ routed \in Tiers /\ readings \in 0..MaxReadings
    /\ ready \in BOOLEAN /\ source \in Sources
    /\ approver \in Roles \cup {NoOne} /\ requester \in Users \cup {NoOne}
    /\ sigs \in Seq(Signature) /\ Len(sigs) <= MaxSignatures
    /\ pending \subseteq Reasons /\ handled \subseteq Reasons
    /\ check = NoOne \/ check \in [handled : SUBSET Reasons]

SignedRoles == {sigs[i].role : i \in Workflow(sigs) \ Unsigned(sigs)}

\* The chain was not skipped at creation, and every row without a signature
\* counts: rejectInvoice takes the unsigned rows of earlier revisions, which no
\* edit supersedes, and superseded ones for rows of this chain.
Ordinary ==
    /\ source = "UPLOAD"
    /\ Unsigned(sigs) \subseteq Workflow(sigs)

\* What waits for Accounting, or has passed it, is signed in its present
\* revision by every role its amount asked for when approval was last requested,
\* through whatever edits, returns, rejections, late validations, reprocessing
\* and new readings of the document it came there. It is not the present amount:
\* a reading that raises it later adds no row, and nobody else is asked.
ChainComplete ==
    status \in Approved /\ Ordinary => Range(RouteOf(routed)) \subseteq SignedRoles

\* Nobody's signature stands above the missing one of an earlier role, not
\* even after parts of the chain were asked again.
InOrder ==
    Ordinary =>
        \A i, j \in Workflow(sigs) : i < j /\ sigs[j].signed => sigs[i].signed

\* In the statuses of the chain there is always somebody who can sign: no
\* return or rejection leaves a chain that is signed in full, or a row that
\* waits for a person who is not asked.
StageCanMove ==
    status \in ChainStatus /\ Ordinary =>
        \E u \in Users : \E i \in ForUser(sigs, u) : MaySign(sigs, i, u)
=============================================================================
