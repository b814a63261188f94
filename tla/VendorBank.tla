----------------------------- MODULE VendorBank -----------------------------
(***************************************************************************)
(* How the bank details of one vendor change (vendorControlService.ts,     *)
(* routes/vendors.ts, invoiceService.ts).  People file change requests of  *)
(* three kinds, others review them, and Supervisors may also write the     *)
(* details themselves.  Most writes are recorded as a new version, the     *)
(* only one that should be ACTIVE and which invoice snapshots refer to.    *)
(*                                                                         *)
(* Handlers check and then write in separate statements, so each database  *)
(* call or transaction is a step, and several handlers run at a time.  A   *)
(* step may fail, which ends the handler with what it has written so far.  *)
(* The bank fields are one value, and of a version, which is a copy of     *)
(* them, only the status is kept.  What a change means to invoices (the    *)
(* reassessment after an approval, the matching, the snapshots) is left    *)
(* out, as are notifications, evidence files and new vendors.              *)
(***************************************************************************)
EXTENDS Naturals, Sequences, FiniteSets

CONSTANTS
  Supervisors, Associates, Coordinators,  \* people, by role; an administrator
                \* who updates details counts as a Supervisor
  Requests,     \* request rows that may be created
  MaxRequests,  \* bound: how many of them are
  KindOf,       \* "vendor" (VendorBankChangeRequest), "master", "invoice"
  Values,       \* bank details
  Handlers,     \* handlers that may run at a time
  MaxVersions,  \* bound: VendorBankVersion rows
  None

Users == Supervisors \cup Associates \cup Coordinators
Kinds == {"vendor", "master", "invoice"}

ASSUME BankAssumption ==
  /\ KindOf \in [Requests -> Kinds]
  /\ MaxVersions \in Nat /\ MaxRequests \in Nat
  /\ None \notin Users \cup Values

VARIABLES
  details,   \* the vendor's bank fields
  versions,  \* VendorBankVersion rows, by version number
  request,   \* the request rows
  handler    \* what each handler is doing

vars == <<details, versions, request, handler>>

Status == {"none", "PENDING", "APPROVED", "REJECTED"}
NoRequest == [status |-> "none", value |-> None, by |-> None, reviewer |-> None]
Idle == [at |-> "idle", user |-> None, subject |-> None, value |-> None, latest |-> 0,
         matching |-> {}]

TypeOK ==
  /\ details \in Values
  /\ versions \in Seq({"ACTIVE", "SUPERSEDED"}) /\ Len(versions) <= MaxVersions
  /\ request \in [Requests -> [status : Status, value : Values \cup {None},
                               by : Users \cup {None}, reviewer : Users \cup {None}]]
  /\ \A r \in Requests :
       /\ request[r].status = "none" <=> request[r].by = None
       /\ request[r].status \in {"APPROVED", "REJECTED"} <=> request[r].reviewer # None
  /\ \A h \in Handlers :
       /\ handler[h].at \in {"idle", "approve", "reject", "ownRequests", "update", "latest",
                             "supersede", "create", "pending", "match"}
       /\ handler[h].user \in Users \cup {None}
       /\ handler[h].subject \in Requests \cup {None}
       /\ handler[h].value \in Values \cup {None}
       /\ handler[h].latest \in 0..Len(versions)
       /\ handler[h].matching \subseteq Requests

Init ==
  /\ details \in Values
  /\ versions = <<>>
  /\ request = [r \in Requests |-> NoRequest]
  /\ handler = [h \in Handlers |-> Idle]

\* Faulty variant: the old version is superseded before the number is read.
SupersedeFirst ==
  [written |-> "supersede", supersede |-> "latest", latest |-> "create"]
\* recordVendorBankVersion, once the details are written: what follows what.
NextStatement ==
  [written |-> "latest", latest |-> "supersede", supersede |-> "create"]

-----------------------------------------------------------------------------
(* Requests and their review *)

MayRequest(kind) == IF kind = "master" THEN Coordinators ELSE Users
MayReview(kind) == IF kind = "master" THEN Associates ELSE Supervisors

\* requestVendorBankUpdate refuses what changes nothing; the request of an
\* Associate who uses the update route ends here too.
RequestChange(u, r, v) ==
  /\ request[r].status = "none" /\ u \in MayRequest(KindOf[r])
  /\ Cardinality({q \in Requests : request[q].status # "none"}) < MaxRequests
  /\ KindOf[r] = "vendor" => v # details
  /\ request' = [request EXCEPT ![r] =
                   [status |-> "PENDING", value |-> v, by |-> u, reviewer |-> None]]
  /\ UNCHANGED <<details, versions, handler>>

\* The request is read: it must be pending and somebody else's.
BeginReview(h, u, r) ==
  /\ handler[h] = Idle /\ u \in MayReview(KindOf[r])
  /\ request[r].status = "PENDING" /\ request[r].by # u
  /\ \E at \in {"approve", "reject"} :
       handler' = [handler EXCEPT ![h] = [Idle EXCEPT !.at = at, !.user = u, !.subject = r]]
  /\ UNCHANGED <<details, versions, request>>

\* Faulty variant: the reviewer is not written down.
UnsignedReview(r, s, u) == [request EXCEPT ![r].status = s]
Reviewed(r, s, u) == [request EXCEPT ![r].status = s, ![r].reviewer = u]

\* The transaction writes the details and the decision, whatever the status
\* is by now.  The invoice route records no version.
Approve(h) ==
  /\ handler[h].at = "approve"
  /\ LET r == handler[h].subject
     IN  /\ details' = request[r].value
         /\ request' = Reviewed(r, "APPROVED", handler[h].user)
         /\ handler' = [handler EXCEPT ![h] =
              IF KindOf[r] = "invoice" THEN Idle ELSE [Idle EXCEPT !.at = NextStatement.written]]
  /\ UNCHANGED versions

Reject(h) ==
  /\ handler[h].at = "reject"
  /\ request' = Reviewed(handler[h].subject, "REJECTED", handler[h].user)
  /\ handler' = [handler EXCEPT ![h] = Idle]
  /\ UNCHANGED <<details, versions>>

-----------------------------------------------------------------------------
(* Direct updates by a Supervisor *)

\* PATCH /vendors/:id writes bank fields and records nothing.
PatchVendor(v) ==
  /\ Supervisors # {} /\ details' = v
  /\ UNCHANGED <<versions, request, handler>>

\* PATCH /vendors/:id/bank-details, unless an invoice is under way.
BeginUpdate(h, u, v) ==
  /\ handler[h] = Idle /\ u \in Supervisors
  /\ handler' = [handler EXCEPT ![h] =
                   [Idle EXCEPT !.at = "ownRequests", !.user = u, !.value = v]]
  /\ UNCHANGED <<details, versions, request>>

Pending == {r \in Requests : KindOf[r] = "vendor" /\ request[r].status = "PENDING"}

\* Nobody updates while a request of their own is open.
CheckOwnRequests(h) ==
  /\ handler[h].at = "ownRequests"
  /\ handler' = [handler EXCEPT ![h] =
       IF \E r \in Pending : request[r].by = handler[h].user THEN Idle
       ELSE [@ EXCEPT !.at = "update"]]
  /\ UNCHANGED <<details, versions, request>>

UpdateDetails(h) ==
  /\ handler[h].at = "update"
  /\ details' = handler[h].value
  /\ handler' = [handler EXCEPT ![h].at = NextStatement.written]
  /\ UNCHANGED <<versions, request>>

\* Faulty variant: every request for the new value counts as approved.
Requested(u, v) == {r \in Pending : request[r].value = v}
\* Open requests of others for the value that is now in force.
RequestedByOthers(u, v) == {r \in Pending : request[r].value = v /\ request[r].by # u}

ReadPending(h) ==
  /\ handler[h].at = "pending"
  /\ LET found == RequestedByOthers(handler[h].user, handler[h].value)
     IN  handler' = [handler EXCEPT ![h] =
           IF found = {} THEN Idle ELSE [@ EXCEPT !.at = "match", !.matching = found]]
  /\ UNCHANGED <<details, versions, request>>

ApproveMatching(h) ==
  /\ handler[h].at = "match"
  /\ \E r \in handler[h].matching :
       /\ request' = Reviewed(r, "APPROVED", handler[h].user)
       /\ handler' = [handler EXCEPT ![h] =
            IF @.matching = {r} THEN Idle
            ELSE [@ EXCEPT !.matching = handler[h].matching \ {r}]]
  /\ UNCHANGED <<details, versions>>

-----------------------------------------------------------------------------
(* recordVendorBankVersion: statements without a transaction *)

ReadLatest(h) ==
  /\ handler[h].at = "latest"
  /\ handler' = [handler EXCEPT ![h].latest = Len(versions), ![h].at = NextStatement.latest]
  /\ UNCHANGED <<details, versions, request>>

SupersedeActive(h) ==
  /\ handler[h].at = "supersede"
  /\ versions' = [n \in DOMAIN versions |-> "SUPERSEDED"]
  /\ handler' = [handler EXCEPT ![h].at = NextStatement.supersede]
  /\ UNCHANGED <<details, request>>

\* A version number is unique: creating it a second time is an error.  After
\* an approval the handler is done, an update looks for requests it answers.
CreateVersion(h) ==
  /\ handler[h].at = "create"
  /\ IF handler[h].latest < Len(versions)
     THEN /\ handler' = [handler EXCEPT ![h] = Idle]
          /\ UNCHANGED versions
     ELSE /\ Len(versions) < MaxVersions
          /\ versions' = Append(versions, "ACTIVE")
          /\ handler' = [handler EXCEPT ![h] =
               IF @.user = None THEN Idle
               ELSE [@ EXCEPT !.at = "pending", !.latest = 0]]
  /\ UNCHANGED <<details, request>>

\* A refusal (the account belongs to another vendor, the invoice has a
\* payment), a database error, or the end of the process.
Fail(h) ==
  /\ handler[h] # Idle
  /\ handler' = [handler EXCEPT ![h] = Idle]
  /\ UNCHANGED <<details, versions, request>>

Review == \E h \in Handlers :
  \/ \E u \in Users, r \in Requests : BeginReview(h, u, r)
  \/ Approve(h) \/ Reject(h)

Update == \E h \in Handlers :
  \/ \E u \in Users, v \in Values : BeginUpdate(h, u, v)
  \/ CheckOwnRequests(h) \/ UpdateDetails(h) \/ ReadPending(h) \/ ApproveMatching(h)

RecordVersion == \E h \in Handlers :
  ReadLatest(h) \/ SupersedeActive(h) \/ CreateVersion(h)

Next ==
  \/ \E u \in Users, r \in Requests, v \in Values : RequestChange(u, r, v)
  \/ \E v \in Values : PatchVendor(v)
  \/ Review \/ Update \/ RecordVersion
  \/ \E h \in Handlers : Fail(h)

Spec == Init /\ [][Next]_vars

-----------------------------------------------------------------------------
(* Properties *)

\* However the recordings of several changes interleave or break off, only the
\* newest version can be ACTIVE, so a snapshot taken of "the" active version
\* (loadInvoiceBankValues) refers to one that nothing has replaced.
OnlyNewestActive ==
  \A n \in DOMAIN versions : versions[n] = "ACTIVE" => n = Len(versions)

\* No approved request was approved by its requester, also when it is filed
\* while its requester's own update is on its way past the check for it.
TwoPersons ==
  \A r \in Requests : request[r].status = "APPROVED" => request[r].reviewer # request[r].by
=============================================================================
