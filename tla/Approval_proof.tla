--------------------------- MODULE Approval_proof ---------------------------
(* Theorems about Approval, for any people and roles, any tiers, edits and    *)
(* exceptions.  Those about the chain of signatures say under which condition *)
(* on PATCH /:id/status they hold.                                            *)
EXTENDS Approval, WellFoundedInduction, SequenceTheorems, FiniteSetTheorems, TLAPS

\* Rows are created in the order of revisions.
RowsOrdered ==
    /\ \A i \in DOMAIN sigs : sigs[i].rev <= revision
    /\ \A i, j \in DOMAIN sigs : i < j => sigs[i].rev <= sigs[j].rev

\* The roles the amount asked for when approval was last requested.
Asked == Range(RouteOf(routed))

\* What counts for this revision has a row for each of them, and besides at most
\* an accounting reviewer's.
Staffed ==
    /\ \A i \in Workflow(sigs) : sigs[i].role \in Asked \cup {Reviewer}
    /\ Workflow(sigs) # {} =>
         \A r \in Asked : \E i \in Workflow(sigs) : sigs[i].role = r

\* A signature in force is valid.
SignedInForce == \A i \in Live(sigs) : sigs[i].signed => ~sigs[i].invalid

\* The reviewer's row is the last word: all have signed, and the invoice has
\* left PENDING_ACCOUNTING.
ReviewerIsLast ==
    \A i \in Workflow(sigs) : sigs[i].role = Reviewer =>
        /\ \A j \in Workflow(sigs) : sigs[j].signed
        /\ status # "PENDING_ACCOUNTING"

\* A row of the chain names a person of its role, or nobody.
NamesFit ==
    \A i \in Workflow(sigs) : sigs[i].role # Reviewer =>
        \/ sigs[i].by = NoOne
        \/ sigs[i].by \in Users /\ RoleOf[sigs[i].by] = sigs[i].role

\* The status says whether somebody still has to sign, unless it can be patched.
StatusFits ==
    /\ status \in Approved \ PatchedStatuses =>
          Workflow(sigs) # {} /\ \A i \in Workflow(sigs) : sigs[i].signed
    /\ status \in ChainStatus \ PatchedStatuses => \E i \in Workflow(sigs) : ~sigs[i].signed

ChainOK == /\ Staffed /\ SignedInForce /\ ReviewerIsLast /\ NamesFit /\ StatusFits
           /\ \A i, j \in Workflow(sigs) : i < j /\ sigs[j].signed => sigs[i].signed

ApprovalInv == TypeOK /\ RowsOrdered /\ (Ordinary => ChainOK)

-----------------------------------------------------------------------------
(* Rows. *)

\* A set of rows that is not empty has a first one ...
LEMMA FirstExists ==
    ASSUME NEW S, S \subseteq Nat, S # {}
    PROVE  Earliest(S) \in S /\ \A j \in S : Earliest(S) <= j
<1> DEFINE R == {ss \in Nat \X Nat : ss[1] < ss[2]}
<1>1. R = OpToRel(<, Nat)
    BY Zenon DEF OpToRel
<1>2. IsWellFoundedOn(R, Nat)
    BY <1>1, NatLessThanWellFounded, Zenon
<1> HIDE DEF R
<1>3. PICK i \in S : \A j \in S : ~(<<j, i>> \in R)
    BY <1>2, WFMin, Zenon
<1>4. \A j \in S : i <= j
    <2> TAKE j \in S
    <2>1. <<j, i>> \in Nat \X Nat /\ ~(<<j, i>> \in R)
        BY <1>3
    <2> QED
        BY <2>1 DEF R
<1> QED
    BY <1>3, <1>4 DEF Earliest

\* ... and a last one, when it is bounded.
LEMMA LastExists ==
    ASSUME NEW n \in Nat, NEW S, S \subseteq 1..n, S # {}
    PROVE  Latest(S) \in S /\ \A j \in S : Latest(S) >= j
<1> DEFINE T == {n - j : j \in S}
<1>1. \A k \in T : k \in Nat
    OBVIOUS
<1>2. T # {}
    OBVIOUS
<1>3. Earliest(T) \in T /\ \A k \in T : Earliest(T) <= k
    <2> HIDE DEF T
    <2> QED
        BY <1>1, <1>2, FirstExists
<1>4. PICK i \in S : Earliest(T) = n - i
    BY <1>3
<1>5. ASSUME NEW j \in S PROVE i >= j
    <2>1. n - j \in T
        OBVIOUS
    <2> HIDE DEF T
    <2>2. n - i <= n - j
        BY <2>1, <1>3, <1>4
    <2> QED
        BY <2>2
<1> QED
    BY <1>5 DEF Latest

\* The chain, and the route as its beginning.
LEMMA ChainRoles ==
    /\ Range(Chain) = {"COORDINATOR", "PURCHASING_MANAGER", "SR_MANAGER", "PRESIDENT"}
    /\ Chain \in Seq(Range(Chain)) /\ Len(Chain) = 4
<1>1. DOMAIN Chain = 1..4
    BY DEF Chain
<1> QED
    BY <1>1 DEF Chain, Range

\* A route has one role more than the tier.
LEMMA RouteBegins ==
    ASSUME NEW t \in Tiers
    PROVE  /\ t \in 1..3 /\ RouteOf(t) \in Seq(Range(Chain)) /\ Len(RouteOf(t)) = t + 1
           /\ \A k \in 1..(t + 1) : RouteOf(t)[k] = Chain[k]
<1> DEFINE n == t + 1
<1>1. t \in 1..3
    BY TiersAssumption
<1>2. /\ n \in Int /\ 1 \in Int /\ 1 <= n /\ n - 1 + 1 = n
      /\ \A k \in 1..n : 1 + k - 1 = k
    BY <1>1
<1>3. \A k \in 1..n : Chain[k] \in Range(Chain)
    <2>1. DOMAIN Chain = 1..4 /\ \A k \in 1..n : k \in 1..4
        BY <1>1 DEF Chain
    <2> QED
        BY <2>1 DEF Range
<1> HIDE DEF n
<1>4. /\ SubSeq(Chain, 1, n) \in Seq(Range(Chain))
      /\ Len(SubSeq(Chain, 1, n)) = IF 1 <= n THEN n - 1 + 1 ELSE 0
      /\ \A k \in 1..(n - 1 + 1) : SubSeq(Chain, 1, n)[k] = Chain[1 + k - 1]
    BY <1>2, <1>3, SubSeqProperties
<1>5. RouteOf(t) = SubSeq(Chain, 1, n)
    BY DEF RouteOf, n
<1>6. RouteOf(t) \in Seq(Range(Chain)) /\ Len(RouteOf(t)) = n
      /\ \A k \in 1..n : RouteOf(t)[k] = Chain[k]
    BY <1>2, <1>4, <1>5
<1> QED
    BY <1>1, <1>6 DEF n

\* It starts with the coordinator, and the reviewer is never on it.
LEMMA RouteOfFacts ==
    ASSUME NEW t \in Tiers
    PROVE  /\ RouteOf(t) \in Seq(Range(Chain)) /\ Len(RouteOf(t)) = t + 1
           /\ DOMAIN RouteOf(t) = 1..(t + 1) /\ t \in 1..3
           /\ Range(RouteOf(t)) = {RouteOf(t)[k] : k \in 1..(t + 1)}
           /\ Range(RouteOf(t)) \subseteq Range(Chain) /\ RouteOf(t)[1] = "COORDINATOR"
           /\ Range(Chain) \subseteq Roles /\ Reviewer \notin Range(Chain)
<1>1. DOMAIN RouteOf(t) = 1..(t + 1) /\ RouteOf(t)[1] = "COORDINATOR"
    BY RouteBegins DEF Chain
<1>2. Range(RouteOf(t)) = {RouteOf(t)[k] : k \in 1..(t + 1)}
    BY <1>1 DEF Range
<1>3. \A k \in 1..(t + 1) : RouteOf(t)[k] \in Range(Chain)
    BY <1>1, RouteBegins
<1> QED
    BY <1>1, <1>2, <1>3, RouteBegins, ChainRoles DEF Roles, Reviewer

\* The route of the present amount.
LEMMA RouteFacts ==
    ASSUME TypeOK
    PROVE  /\ Route \in Seq(Range(Chain)) /\ Len(Route) = tier + 1
           /\ DOMAIN Route = 1..(tier + 1) /\ tier \in 1..3
           /\ Range(Route) = {Route[k] : k \in 1..(tier + 1)}
           /\ Range(Route) \subseteq Range(Chain) /\ Route[1] = "COORDINATOR"
           /\ Range(Chain) \subseteq Roles /\ Reviewer \notin Range(Chain)
    BY RouteOfFacts DEF Route, TypeOK

\* The coordinator is always asked.
LEMMA AskedFacts ==
    ASSUME TypeOK
    PROVE  Asked \subseteq Range(Chain) /\ "COORDINATOR" \in Asked
    BY RouteOfFacts DEF Asked, TypeOK

\* Each status a row leads to is a status of the workflow.
LEMMA StageTypes ==
    /\ \A r \in Roles : StageOf[r] \in Status
    /\ \A r \in Range(Chain) : StageOf[r] \in ChainStatus
    /\ ChainStatus \cap Approved = {} /\ ChainStatus \subseteq Status
    /\ \A s \in Intake \cup Gone \cup {"ON_HOLD", "IN_PAYMENT"} :
          s \notin Approved \cup ChainStatus
<1>1. Range(Chain) = {"COORDINATOR", "PURCHASING_MANAGER", "SR_MANAGER", "PRESIDENT"}
    BY ChainRoles
<1>2. ChainStatus = {"PENDING_COORDINATOR", "PENDING_MANAGER", "PENDING_SR_MANAGER",
                     "PENDING_PRESIDENT"}
    BY <1>1 DEF ChainStatus, StageOf, Roles
<1>3. \A r \in Range(Chain) : StageOf[r] \in ChainStatus
    BY DEF ChainStatus
<1>4. StageOf[Reviewer] = "PENDING_ACCOUNTING"
    BY <1>1 DEF StageOf, Roles, Reviewer
<1> QED
    BY <1>2, <1>3, <1>4 DEF Roles, Status, Approved, Intake, Gone

\* What the writes of one row give.
LEMMA RowTypes ==
    ASSUME TypeOK
    PROVE  /\ \A role \in Roles, who \in Users \cup {NoOne, AutoApproved} :
                 NewSignature(role, who) \in Signature
           /\ \A sig \in Signature, who \in Users \cup {NoOne, AutoApproved} :
                 Signed(sig, who) \in Signature
           /\ \A sig \in Signature : /\ Reopened(sig) \in Signature
                                     /\ Superseded(sig) \in Signature
                                     /\ [sig EXCEPT !.invalid = TRUE] \in Signature
    BY DEF TypeOK, Signature, NewSignature, Signed, Reopened, Superseded

\* What each write leaves of a row.
LEMMA RowFields ==
    ASSUME NEW sig \in Signature
    PROVE  LET marked == [sig EXCEPT !.invalid = TRUE]
               again == Reopened(sig)
               gone == Superseded(sig)
           IN /\ marked.rev = sig.rev /\ marked.role = sig.role /\ marked.by = sig.by
              /\ marked.signed = sig.signed /\ marked.state = sig.state
              /\ again.rev = sig.rev /\ again.role = sig.role /\ again.by = sig.by
              /\ ~again.signed /\ again.state = "RECONFIRMATION_REQUIRED"
              /\ gone.rev = sig.rev /\ gone.role = sig.role /\ gone.by = sig.by
              /\ gone.signed = sig.signed /\ gone.state = "SUPERSEDED"
    BY DEF Signature, Reopened, Superseded

\* The rows of an invoice, by number.
LEMMA RowsAreRows ==
    ASSUME TypeOK
    PROVE  /\ Len(sigs) \in Nat /\ DOMAIN sigs = 1..Len(sigs)
           /\ \A i \in 1..Len(sigs) : sigs[i] \in Signature
           /\ Live(sigs) \subseteq 1..Len(sigs) /\ Workflow(sigs) \subseteq Live(sigs)
           /\ Unsigned(sigs) \subseteq 1..Len(sigs)
           /\ \A r : OfRole(sigs, r) \subseteq 1..Len(sigs)
    BY DEF TypeOK, Live, Workflow, Unsigned, OfRole

\* A write of the status.
LEMMA StatusWritten ==
    ASSUME TypeOK, NEW stage \in Status, NEW role \in Roles \cup {NoOne}, MoveTo(stage, role)
    PROVE  /\ status' \in Status /\ approver' \in Roles \cup {NoOne}
           /\ status' \in {stage, "CANCELLED"}
    BY DEF TypeOK, MoveTo

\* A write of the stage of a role.
LEMMA StageWritten ==
    ASSUME TypeOK, NEW role \in Roles, MoveToRole(role)
    PROVE  /\ status' \in Status /\ approver' \in Roles \cup {NoOne}
           /\ status' \in {StageOf[role], "CANCELLED"}
    BY StageTypes, StatusWritten DEF MoveToRole

-----------------------------------------------------------------------------
(* What each handler does to the rows. *)

StaleRows == {i \in Workflow(sigs) : sigs[i].role \notin Range(Route)}
Kept == Workflow(sigs) \ StaleRows
Missing == {k \in DOMAIN Route : Route[k] \notin {sigs[i].role : i \in Kept}}

\* createApprovalRequest: rows off the route are superseded, and new rows follow,
\* one for each missing role.
LEMMA ChainRows ==
    ASSUME TypeOK, StartChain
    PROVE  /\ sigs' \in Seq(Signature) /\ Len(sigs') <= MaxSignatures
           /\ Len(sigs') >= Len(sigs)
           /\ \A i \in 1..Len(sigs) :
                 sigs'[i] = IF i \in StaleRows THEN Superseded(sigs[i]) ELSE sigs[i]
           /\ \A i \in (Len(sigs) + 1)..Len(sigs') :
                 \E k \in Missing : sigs'[i] = NewSignature(Route[k], NoOne)
           /\ \A k \in Missing : \E i \in (Len(sigs) + 1)..Len(sigs') :
                 sigs'[i] = NewSignature(Route[k], NoOne)
           /\ IF Missing = {} THEN ResumeChain(Kept) ELSE EnterChain(sigs')
<1> USE RowsAreRows
<1>1. PICK order \in [1..Cardinality(Missing) -> Missing] :
         /\ Range(order) = Missing
         /\ Len(sigs) + Len(order) <= MaxSignatures
         /\ sigs' = Changed(StaleRows, Superseded) \o
                    [a \in DOMAIN order |-> NewSignature(Route[order[a]], NoOne)]
         /\ IF Missing = {} THEN ResumeChain(Kept) ELSE EnterChain(sigs')
    BY DEF StartChain, StaleRows, Kept, Missing
<1> DEFINE n == Cardinality(Missing)
           old == Changed(StaleRows, Superseded)
           new == [a \in 1..n |-> NewSignature(Route[order[a]], NoOne)]
<1>2. n \in Nat
    <2>1. Missing \subseteq 1..(tier + 1) /\ tier + 1 \in Int
        BY RouteFacts DEF Missing
    <2>2. IsFiniteSet(1..(tier + 1))
        BY <2>1, FS_Interval
    <2> QED
        BY <2>1, <2>2, FS_Subset, FS_CardinalityType
<1>3. DOMAIN order = 1..n /\ Len(order) = n /\ \A a \in 1..n : order[a] \in Missing
    BY <1>2
<1>4. old \in Seq(Signature) /\ Len(old) = Len(sigs)
      /\ \A i \in 1..Len(sigs) : old[i] = IF i \in StaleRows THEN Superseded(sigs[i]) ELSE sigs[i]
    <2>1. old = [i \in 1..Len(sigs) |-> IF i \in StaleRows THEN Superseded(sigs[i]) ELSE sigs[i]]
        BY DEF Changed
    <2>2. \A i \in 1..Len(sigs) : Superseded(sigs[i]) \in Signature
        BY RowTypes
    <2> QED
        BY <2>1, <2>2
<1>5. new \in Seq(Signature) /\ Len(new) = n
    <2>1. \A k \in Missing : Route[k] \in Roles
        BY RouteFacts DEF Missing
    <2>2. \A a \in 1..n : NewSignature(Route[order[a]], NoOne) \in Signature
        BY <1>3, <2>1, RowTypes
    <2> HIDE DEF n
    <2> QED
        BY <1>2, <2>2
<1>6. sigs' = old \o new
    BY <1>1, <1>3
<1>7. \A a \in 1..n : new[a] = NewSignature(Route[order[a]], NoOne)
    OBVIOUS
<1> HIDE DEF old, new, n
<1>8. /\ sigs' \in Seq(Signature) /\ Len(sigs') = Len(sigs) + n
      /\ \A i \in 1..Len(sigs) : sigs'[i] = old[i]
      /\ \A i \in (Len(sigs) + 1)..Len(sigs') : sigs'[i] = new[i - Len(sigs)]
    <2>1. sigs' \in Seq(Signature) /\ Len(sigs') = Len(old) + Len(new)
        BY <1>4, <1>5, <1>6, ConcatProperties
    <2>2. \A i \in 1..(Len(old) + Len(new)) :
             sigs'[i] = IF i <= Len(old) THEN old[i] ELSE new[i - Len(old)]
        BY <1>4, <1>5, <1>6, ConcatProperties
    <2> QED
        BY <2>1, <2>2, <1>2, <1>4, <1>5
<1>9. ASSUME NEW i \in (Len(sigs) + 1)..Len(sigs')
      PROVE  \E k \in Missing : sigs'[i] = NewSignature(Route[k], NoOne)
    <2>1. i - Len(sigs) \in 1..n /\ sigs'[i] = new[i - Len(sigs)]
        BY <1>2, <1>8, RowsAreRows
    <2>2. order[i - Len(sigs)] \in Missing
        BY <1>3, <2>1
    <2> QED
        BY <1>7, <2>1, <2>2
<1>10. ASSUME NEW k \in Missing
       PROVE  \E i \in (Len(sigs) + 1)..Len(sigs') : sigs'[i] = NewSignature(Route[k], NoOne)
    <2>1. PICK a \in 1..n : order[a] = k
        BY <1>1, <1>3 DEF Range
    <2> QED
        <3>1. /\ Len(sigs) + a \in (Len(sigs) + 1)..Len(sigs')
              /\ Len(sigs) + a - Len(sigs) = a
            BY <1>2, <1>8
        <3>2. sigs'[Len(sigs) + a] = new[a]
            BY <1>8, <3>1
        <3> QED
            BY <1>7, <2>1, <3>1, <3>2
<1>11. Len(sigs') <= MaxSignatures /\ Len(sigs') >= Len(sigs)
    BY <1>1, <1>2, <1>3, <1>8
<1>12. IF Missing = {} THEN ResumeChain(Kept) ELSE EnterChain(sigs')
    BY <1>1
<1>13. \A i \in 1..Len(sigs) : sigs'[i] = IF i \in StaleRows THEN Superseded(sigs[i]) ELSE sigs[i]
    BY <1>4, <1>8
<1> QED
    BY <1>8, <1>9, <1>10, <1>11, <1>12, <1>13

\* What every handler that does not clear the rows leaves as it is: the rows keep
\* their revision, the unsigned ones that do not count stay so, and a new row is
\* one of this revision.
RowsKept ==
    /\ sigs' \in Seq(Signature) /\ Len(sigs') <= MaxSignatures /\ Len(sigs') >= Len(sigs)
    /\ \A i \in 1..Len(sigs) : sigs'[i].rev = sigs[i].rev
    /\ \A i \in 1..Len(sigs) :
          ~sigs[i].signed /\ (sigs[i].state = "SUPERSEDED" \/ sigs[i].rev # revision) =>
             ~sigs'[i].signed /\ (sigs[i].state = "SUPERSEDED" => sigs'[i].state = "SUPERSEDED")
    /\ \A i \in (Len(sigs) + 1)..Len(sigs') : sigs'[i].rev = revision

StatusTyped == status' \in Status /\ approver' \in Roles \cup {NoOne}

\* Rows that nothing touches.
LEMMA SameRows ==
    ASSUME TypeOK, sigs' = sigs
    PROVE  RowsKept
    BY DEF TypeOK, RowsKept, Signature

\* Rows that are left alone, marked or asked again.
LEMMA AskedAgain ==
    ASSUME TypeOK, NEW f, sigs' = [i \in 1..Len(sigs) |-> f[i]],
           \A i \in 1..Len(sigs) :
               \/ f[i] \in {sigs[i], [sigs[i] EXCEPT !.invalid = TRUE]}
               \/ f[i] = Reopened(sigs[i]) /\ i \in Live(sigs)
    PROVE  RowsKept
<1>1. \A i \in 1..Len(sigs) : f[i] \in Signature
    BY RowTypes, RowsAreRows
<1>2. sigs' \in Seq(Signature) /\ Len(sigs') = Len(sigs)
    BY <1>1, RowsAreRows
<1>3. \A i \in 1..Len(sigs) : sigs'[i] = f[i]
    OBVIOUS
<1>4. \A i \in 1..Len(sigs) :
         /\ f[i].rev = sigs[i].rev
         /\ f[i].signed => sigs[i].signed
         /\ sigs[i].state = "SUPERSEDED" => f[i].state = "SUPERSEDED"
    <2> TAKE i \in 1..Len(sigs)
    <2>1. sigs[i] \in Signature
        BY RowsAreRows
    <2>2. CASE f[i] = sigs[i]
        BY <2>2
    <2>3. CASE f[i] = [sigs[i] EXCEPT !.invalid = TRUE]
        BY <2>1, <2>3, RowFields
    <2>4. CASE f[i] = Reopened(sigs[i]) /\ i \in Live(sigs)
        BY <2>1, <2>4, RowFields DEF Live
    <2> QED
        BY <2>2, <2>3, <2>4
<1> QED
    BY <1>2, <1>3, <1>4, RowsAreRows DEF RowsKept, TypeOK

\* A row is added.
LEMMA RowAdded ==
    ASSUME TypeOK, Len(sigs) < MaxSignatures, NEW row \in Signature, row.rev = revision,
           NEW rows \in Seq(Signature), Len(rows) = Len(sigs), sigs' = Append(rows, row),
           \A i \in 1..Len(sigs) : rows[i] \in {sigs[i], [sigs[i] EXCEPT !.invalid = TRUE]}
    PROVE  RowsKept
<1>1. /\ sigs' \in Seq(Signature) /\ Len(sigs') = Len(sigs) + 1
      /\ \A i \in 1..Len(sigs) : sigs'[i] = rows[i]
      /\ sigs'[Len(sigs) + 1] = row
    BY RowsAreRows
<1>2. \A i \in 1..Len(sigs) :
         /\ rows[i].rev = sigs[i].rev
         /\ rows[i].signed = sigs[i].signed /\ rows[i].state = sigs[i].state
    BY RowsAreRows DEF Signature
<1>3. Len(sigs') <= MaxSignatures
    BY <1>1, RowsAreRows, TiersAssumption
<1> QED
    BY <1>1, <1>2, <1>3, RowsAreRows DEF RowsKept

\* createApprovalRequest.
LEMMA ChainKeeps ==
    ASSUME TypeOK, StartChain
    PROVE  RowsKept /\ StatusTyped
<1>1. RowsKept
    <2>1. \A i \in 1..Len(sigs) : Superseded(sigs[i]).rev = sigs[i].rev
        BY RowsAreRows DEF Superseded, Signature
    <2>2. \A i \in StaleRows : sigs[i].rev = revision /\ sigs[i].state # "SUPERSEDED"
        BY DEF StaleRows, Workflow, Live
    <2>3. \A k \in Missing : NewSignature(Route[k], NoOne).rev = revision
        BY DEF NewSignature
    <2> QED
        BY ChainRows, <2>1, <2>2, <2>3 DEF RowsKept
<1>2. StatusTyped
    <2>1. CASE Missing = {}
        <3>1. ResumeChain(Kept)
            BY ChainRows, <2>1
        <3>2. ASSUME NEW i \in Kept \cap Unsigned(sigs), MoveToRole(sigs[i].role)
              PROVE  StatusTyped
            <4>1. sigs[i].role \in Roles
                BY RowsAreRows DEF Signature
            <4> QED
                BY <3>2, <4>1, StageWritten DEF StatusTyped
        <3>3. ASSUME MoveTo("VALIDATION_PENDING", approver)
              PROVE  StatusTyped
            BY <3>3, StatusWritten DEF StatusTyped, TypeOK, Status, Intake
        <3> QED
            BY <3>1, <3>2, <3>3 DEF ResumeChain
    <2>2. CASE Missing # {}
        <3>1. PICK k \in 1..Len(Route) : MoveToRole(Route[k])
            BY ChainRows, <2>2 DEF EnterChain
        <3>2. Route[k] \in Roles
            BY RouteFacts
        <3> QED
            BY <3>1, <3>2, StageWritten DEF StatusTyped
    <2> QED
        BY <2>1, <2>2
<1> QED
    BY <1>1, <1>2

\* The chain signed for an invoice is appended.
LEMMA AutoChainRows ==
    ASSUME TypeOK
    PROVE  /\ WithAutoChain \in Seq(Signature) /\ Len(WithAutoChain) >= Len(sigs)
           /\ \A i \in 1..Len(sigs) : WithAutoChain[i] = sigs[i]
           /\ \A i \in (Len(sigs) + 1)..Len(WithAutoChain) : WithAutoChain[i].rev = revision
<1> DEFINE new == <<Signed(NewSignature("COORDINATOR", AutoApproved), AutoApproved),
                    Signed(NewSignature("PURCHASING_MANAGER", AutoApproved), AutoApproved),
                    NewSignature(Reviewer, NoOne)>>
<1>1. {"COORDINATOR", "PURCHASING_MANAGER", Reviewer} \subseteq Roles
    <2>1. DOMAIN Chain = 1..4
        BY DEF Chain
    <2> QED
        BY <2>1 DEF Roles, Chain, Range
<1>2. /\ new[1] \in Signature /\ new[2] \in Signature /\ new[3] \in Signature
    BY <1>1, RowTypes
<1>3. new[1].rev = revision /\ new[2].rev = revision /\ new[3].rev = revision
    BY <1>1, RowTypes DEF NewSignature, Signed, Signature
<1>4. new \in Seq(Signature) /\ Len(new) = 3
    BY <1>2
<1> HIDE DEF new
<1>5. WithAutoChain = sigs \/ WithAutoChain = sigs \o new
    BY DEF WithAutoChain, new
<1>6. CASE WithAutoChain = sigs
    BY <1>6, RowsAreRows DEF TypeOK
<1>7. CASE WithAutoChain = sigs \o new
    <2>1. sigs \in Seq(Signature)
        BY DEF TypeOK
    <2>2. /\ WithAutoChain \in Seq(Signature) /\ Len(WithAutoChain) = Len(sigs) + 3
          /\ \A i \in 1..(Len(sigs) + 3) :
                WithAutoChain[i] = IF i <= Len(sigs) THEN sigs[i] ELSE new[i - Len(sigs)]
        <3>1. /\ sigs \o new \in Seq(Signature)
              /\ Len(sigs \o new) = Len(sigs) + Len(new)
              /\ \A i \in 1..(Len(sigs) + Len(new)) : (sigs \o new)[i] =
                    IF i <= Len(sigs) THEN sigs[i] ELSE new[i - Len(sigs)]
            BY <1>4, <2>1, ConcatProperties, Zenon
        <3> QED
            BY <1>4, <1>7, <3>1
    <2>3. ASSUME NEW i \in (Len(sigs) + 1)..(Len(sigs) + 3)
          PROVE  WithAutoChain[i].rev = revision
        <3>1. i - Len(sigs) \in {1, 2, 3} /\ WithAutoChain[i] = new[i - Len(sigs)]
            BY <2>2, RowsAreRows
        <3> QED
            BY <1>3, <3>1
    <2> QED
        BY <2>2, <2>3, RowsAreRows
<1> QED
    BY <1>5, <1>6, <1>7

\* The next stage is that of a row which is left.
LEMMA NextRoleLeft ==
    ASSUME TypeOK, NEW rows, NEW rest, rest # {}
    PROVE  NextRole(rest, rows) \in {rows[i].role : i \in rest}
<1> DEFINE left == {rows[i].role : i \in rest}
           onRoute == {k \in 1..Len(Route) : Route[k] \in left}
<1>1. left # {}
    OBVIOUS
<1> HIDE DEF left
<1>2. CASE onRoute = {}
    <2>1. NextRole(rest, rows) = CHOOSE r \in left : TRUE
        BY <1>2 DEF NextRole, left
    <2> QED
        BY <1>1, <2>1 DEF left
<1>3. CASE onRoute # {}
    <2>1. NextRole(rest, rows) = Route[Earliest(onRoute)]
        BY <1>3 DEF NextRole, left
    <2>2. onRoute \subseteq Nat
        BY RouteFacts
    <2>3. Earliest(onRoute) \in onRoute
        BY <1>3, <2>2, FirstExists
    <2> QED
        BY <2>1, <2>3 DEF left
<1> QED
    BY <1>2, <1>3

\* approveInvoice.
LEMMA ApproveKeeps ==
    ASSUME TypeOK, NEW u \in Users, ApproveInvoice(u)
    PROVE  RowsKept /\ StatusTyped
<1> DEFINE rows == WithAutoChain
<1>1. Sign(u) \/ Complete(u) \/ OnlyCreateChain(u)
    BY DEF ApproveInvoice
<1>2. /\ rows \in Seq(Signature) /\ Len(rows) >= Len(sigs) /\ Len(rows) <= MaxSignatures
      /\ \A i \in 1..Len(sigs) : rows[i] = sigs[i]
      /\ \A i \in (Len(sigs) + 1)..Len(rows) : rows[i].rev = revision
    BY AutoChainRows DEF ApproveInvoice
<1>3. CASE Sign(u)
    <2>1. PICK i \in ForUser(rows, u) :
             LET rest == (Workflow(rows) \cap Unsigned(rows)) \ {i}
             IN /\ sigs' = [rows EXCEPT ![i] = Signed(@, u)]
                /\ IF rest = {} THEN MoveTo("PENDING_ACCOUNTING", NoOne)
                   ELSE MoveToRole(NextRole(rest, rows))
        BY <1>3 DEF Sign
    <2> HIDE DEF rows
    <2>2. /\ i \in 1..Len(rows) /\ rows[i].rev = revision /\ rows[i] \in Signature
          /\ rows[i].state # "SUPERSEDED"
        BY <1>2, <2>1 DEF ForUser, Workflow, Live
    <2>3. Signed(rows[i], u) \in Signature /\ Signed(rows[i], u).rev = revision
        BY <2>2, RowTypes DEF Signed, Signature
    <2>4. /\ sigs' \in Seq(Signature) /\ Len(sigs') = Len(rows)
          /\ sigs'[i].rev = revision
          /\ \A j \in 1..Len(rows) : j # i => sigs'[j] = rows[j]
        BY <1>2, <2>1, <2>2, <2>3
    <2>5. RowsKept
        <3>1. \A j \in 1..Len(sigs) : sigs'[j].rev = sigs[j].rev
            BY <1>2, <2>2, <2>4, RowsAreRows
        <3>2. \A j \in 1..Len(sigs) :
                 sigs[j].state = "SUPERSEDED" \/ sigs[j].rev # revision => sigs'[j] = sigs[j]
            BY <1>2, <2>2, <2>4, RowsAreRows
        <3>3. \A j \in (Len(sigs) + 1)..Len(sigs') : sigs'[j].rev = revision
            BY <1>2, <2>2, <2>4, RowsAreRows
        <3> QED
            BY <1>2, <2>4, <3>1, <3>2, <3>3 DEF RowsKept
    <2>6. StatusTyped
        <3> DEFINE rest == (Workflow(rows) \cap Unsigned(rows)) \ {i}
        <3>1. CASE rest = {}
            BY <2>1, <3>1, StatusWritten DEF StatusTyped, Status, Approved
        <3>2. CASE rest # {}
            <4>1. \A j \in rest : rows[j].role \in Roles
                <5> TAKE j \in rest
                <5>1. j \in 1..Len(rows)
                    BY <1>2 DEF Unsigned
                <5>2. rows[j] \in Signature
                    BY <1>2, <5>1
                <5> QED
                    BY <5>2 DEF Signature
            <4>2. NextRole(rest, rows) \in Roles
                BY <3>2, <4>1, NextRoleLeft
            <4> QED
                BY <2>1, <3>2, <4>2, StageWritten DEF StatusTyped
        <3> QED
            BY <3>1, <3>2
    <2> QED
        BY <2>5, <2>6
<1>4. CASE Complete(u)
    <2> DEFINE row == Signed(NewSignature(Reviewer, u), u)
    <2>1. Len(sigs) < MaxSignatures /\ sigs' = Append(sigs, row) /\ MoveTo("APPROVED", NoOne)
        BY <1>4 DEF Complete
    <2>2. row \in Signature /\ row.rev = revision
        <3>1. NewSignature(Reviewer, u) \in Signature /\ NewSignature(Reviewer, u).rev = revision
            BY RowTypes DEF Roles, NewSignature
        <3> QED
            BY <3>1, RowTypes DEF Signed, Signature
    <2> HIDE DEF row
    <2>3. RowsKept
        BY <2>1, <2>2, RowAdded DEF TypeOK
    <2> QED
        BY <2>1, <2>3, StatusWritten DEF StatusTyped, Status, Approved
<1>5. CASE OnlyCreateChain(u)
    <2>1. sigs' = rows /\ UNCHANGED <<status, approver>>
        BY <1>5 DEF OnlyCreateChain
    <2> HIDE DEF rows
    <2>2. RowsKept
        BY <1>2, <2>1, RowsAreRows DEF RowsKept
    <2> QED
        BY <2>1, <2>2 DEF StatusTyped, TypeOK
<1> QED
    BY <1>1, <1>3, <1>4, <1>5

\* rejectInvoice.
LEMMA RejectKeeps ==
    ASSUME TypeOK, NEW u \in Users, RejectInvoice(u)
    PROVE  RowsKept /\ StatusTyped
<1> USE RowsAreRows
<1> DEFINE coordinator == Live(sigs) \cap OfRole(sigs, "COORDINATOR")
<1>1. "COORDINATOR" \in Roles /\ StageOf["COORDINATOR"] \in Status
    BY RouteFacts, StageTypes DEF Range, Chain
<1>2. \A c \in Users : /\ NewSignature("COORDINATOR", c) \in Signature
                       /\ NewSignature("COORDINATOR", c).rev = revision
    BY <1>1, RowTypes DEF NewSignature
<1>3. ASSUME NEW i \in Rejectable(u), RejectSigned(i)
      PROVE  RowsKept /\ StatusTyped
    <2> DEFINE cut == IF i \in Live(sigs) \/ Live(sigs) = {} THEN i ELSE Latest(Live(sigs))
               later == From(Live(sigs), cut) \ Unsigned(sigs)
               rows == [j \in DOMAIN sigs |->
                           IF j \in later THEN [sigs[j] EXCEPT !.invalid = TRUE] ELSE sigs[j]]
               before == {j \in Live(sigs) : j < cut /\ sigs[j].signed /\ ~ sigs[j].invalid}
    <2>1. rows \in Seq(Signature) /\ Len(rows) = Len(sigs)
          /\ \A j \in 1..Len(sigs) : rows[j] \in {sigs[j], [sigs[j] EXCEPT !.invalid = TRUE]}
        <3>1. \A j \in 1..Len(sigs) : rows[j] \in Signature
            BY RowTypes
        <3> QED
            BY <3>1
    <2>2. \/ \E j \in Live(sigs), r \in Roles :
                sigs' = [rows EXCEPT ![j] = Reopened(@)] /\ MoveToRole(r)
          \/ /\ Len(sigs) < MaxSignatures
             /\ \E c \in Users : sigs' = Append(rows, NewSignature("COORDINATOR", c))
             /\ MoveToRole("COORDINATOR")
        <3>1. CASE before # {}
            <4>1. Latest(before) \in before
                BY <3>1, LastExists
            <4>2. /\ sigs' = [rows EXCEPT ![Latest(before)] = Reopened(@)]
                  /\ MoveToRole(sigs[Latest(before)].role)
                BY <1>3, <3>1 DEF RejectSigned
            <4>3. Latest(before) \in Live(sigs) /\ sigs[Latest(before)].role \in Roles
                BY <4>1 DEF Signature
            <4> QED
                BY <4>2, <4>3
        <3>2. CASE before = {} /\ coordinator # {}
            <4>1. coordinator \subseteq Nat /\ coordinator \subseteq Live(sigs)
                OBVIOUS
            <4> HIDE DEF coordinator
            <4>2. Earliest(coordinator) \in Live(sigs)
                BY <3>2, <4>1, FirstExists
            <4> USE DEF coordinator
            <4>3. /\ sigs' = [rows EXCEPT ![Earliest(coordinator)] = Reopened(@)]
                  /\ MoveToRole("COORDINATOR")
                BY <1>3, <3>2 DEF RejectSigned
            <4> QED
                BY <1>1, <4>2, <4>3
        <3>3. CASE before = {} /\ coordinator = {}
            BY <1>3, <3>3 DEF RejectSigned
        <3> QED
            BY <3>1, <3>2, <3>3
    <2> HIDE DEF rows
    <2>3. ASSUME NEW j \in Live(sigs), NEW r \in Roles,
                 sigs' = [rows EXCEPT ![j] = Reopened(@)], MoveToRole(r)
          PROVE  RowsKept /\ StatusTyped
        <3> DEFINE f == [k \in 1..Len(sigs) |-> IF k = j THEN Reopened(rows[j]) ELSE rows[k]]
        <3>1. sigs' = [k \in 1..Len(sigs) |-> f[k]]
            <4>1. rows = [k \in 1..Len(sigs) |-> rows[k]]
                BY <2>1
            <4>2. [rows EXCEPT ![j] = Reopened(@)]
                     = [k \in 1..Len(sigs) |-> IF k = j THEN Reopened(rows[j]) ELSE rows[k]]
                BY <4>1
            <4> QED
                BY <2>3, <4>2
        <3>2. Reopened(rows[j]) = Reopened(sigs[j])
            <4>1. j \in 1..Len(sigs) /\ sigs[j] \in Signature
                OBVIOUS
            <4>2. rows[j] \in {sigs[j], [sigs[j] EXCEPT !.invalid = TRUE]}
                BY <2>1, <4>1
            <4> QED
                BY <4>1, <4>2 DEF Reopened, Signature
        <3>3. \A k \in 1..Len(sigs) :
                 \/ f[k] \in {sigs[k], [sigs[k] EXCEPT !.invalid = TRUE]}
                 \/ f[k] = Reopened(sigs[k]) /\ k \in Live(sigs)
            BY <2>1, <3>2
        <3> HIDE DEF f
        <3>4. RowsKept
            BY <3>1, <3>3, AskedAgain
        <3> QED
            BY <2>3, <3>4, StageWritten DEF StatusTyped
    <2>4. ASSUME Len(sigs) < MaxSignatures, NEW c \in Users,
                 sigs' = Append(rows, NewSignature("COORDINATOR", c)), MoveToRole("COORDINATOR")
          PROVE  RowsKept /\ StatusTyped
        BY <1>1, <1>2, <2>1, <2>4, RowAdded, StageWritten DEF StatusTyped
    <2> QED
        BY <2>2, <2>3, <2>4
<1>4. ASSUME RejectFromAccounting(u)
      PROVE  RowsKept /\ StatusTyped
    <2>1. StatusTyped
        BY <1>1, <1>4, StageWritten DEF RejectFromAccounting, StatusTyped
    <2>2. CASE coordinator # {}
        <3> DEFINE S == From(Live(sigs), Earliest(coordinator))
                   f == [i \in 1..Len(sigs) |-> IF i \in S THEN Reopened(sigs[i]) ELSE sigs[i]]
        <3>1. sigs' = Changed(S, Reopened)
            BY <1>4, <2>2 DEF RejectFromAccounting
        <3>2. sigs' = [i \in 1..Len(sigs) |-> f[i]]
            BY <3>1 DEF Changed
        <3>3. \A k \in 1..Len(sigs) :
                 f[k] = sigs[k] \/ (f[k] = Reopened(sigs[k]) /\ k \in Live(sigs))
            BY DEF From
        <3> HIDE DEF f
        <3> QED
            BY <2>1, <3>2, <3>3, AskedAgain
    <2>3. CASE coordinator = {}
        <3>1. PICK c \in Users : /\ Len(sigs) < MaxSignatures
                                 /\ sigs' = Append(sigs, NewSignature("COORDINATOR", c))
            BY <1>4, <2>3 DEF RejectFromAccounting
        <3> QED
            BY <1>2, <2>1, <3>1, RowAdded DEF TypeOK
    <2> QED
        BY <2>2, <2>3
<1> QED
    BY <1>3, <1>4 DEF RejectInvoice

\* returnInvoice goes back to a signed row of this revision.
LEMMA ReturnRows ==
    ASSUME TypeOK, NEW u \in Users, ReturnInvoice(u)
    PROVE  \E i \in Workflow(sigs) \ Unsigned(sigs) :
              /\ sigs' = Changed(From(Workflow(sigs), i), Reopened)
              /\ MoveToRole(sigs[i].role)
<1> USE RowsAreRows
<1> DEFINE signed == Workflow(sigs) \ Unsigned(sigs)
           before == {i \in signed : i < Earliest(ForUser(sigs, u))}
           coordinator == IF RoleOf[u] = "COORDINATOR" THEN {}
                          ELSE signed \cap OfRole(sigs, "COORDINATOR")
           named(r) == signed \cap OfRole(sigs, r)
           Back(i) == /\ sigs' = Changed(From(Workflow(sigs), i), Reopened)
                      /\ MoveToRole(sigs[i].role)
<1>1. \/ before # {} /\ Back(Latest(before))
      \/ coordinator # {} /\ Back(Earliest(coordinator))
      \/ \E r \in Roles : named(r) # {} /\ Back(Earliest(named(r)))
    BY DEF ReturnInvoice
<1>2. signed \subseteq 1..Len(sigs) /\ signed \subseteq Nat
    OBVIOUS
<1> HIDE DEF Back
<1>3. ASSUME before # {}
      PROVE  Latest(before) \in signed
    <2>1. before \subseteq 1..Len(sigs)
        BY <1>2
    <2> QED
        BY <1>3, <2>1, LastExists
<1>4. ASSUME coordinator # {}
      PROVE  Earliest(coordinator) \in signed
    <2>1. coordinator \subseteq Nat /\ coordinator \subseteq signed
        BY <1>2
    <2> QED
        BY <1>4, <2>1, FirstExists
<1>5. ASSUME NEW r \in Roles, named(r) # {}
      PROVE  Earliest(named(r)) \in signed
    <2>1. named(r) \subseteq Nat /\ named(r) \subseteq signed
        BY <1>2
    <2> QED
        BY <1>5, <2>1, FirstExists
<1>6. \E i \in signed : Back(i)
    BY <1>1, <1>3, <1>4, <1>5
<1> QED
    BY <1>6 DEF Back

\* returnInvoice, on the rows it asks again.
LEMMA ReturnKeeps ==
    ASSUME TypeOK, NEW u \in Users, ReturnInvoice(u)
    PROVE  RowsKept /\ StatusTyped
<1>1. PICK i \in Workflow(sigs) \ Unsigned(sigs) :
         /\ sigs' = Changed(From(Workflow(sigs), i), Reopened)
         /\ MoveToRole(sigs[i].role)
    BY ReturnRows
<1> DEFINE S == From(Workflow(sigs), i)
           f == [j \in 1..Len(sigs) |-> IF j \in S THEN Reopened(sigs[j]) ELSE sigs[j]]
<1>2. sigs' = [j \in 1..Len(sigs) |-> f[j]]
    BY <1>1, RowsAreRows DEF Changed
<1>3. \A j \in 1..Len(sigs) :
         f[j] = sigs[j] \/ (f[j] = Reopened(sigs[j]) /\ j \in Live(sigs))
    BY RowsAreRows DEF From
<1> HIDE DEF f
<1>4. RowsKept
    BY <1>2, <1>3, AskedAgain
<1>5. sigs[i].role \in Roles
    BY RowsAreRows DEF Signature
<1> QED
    BY <1>1, <1>4, <1>5, StageWritten DEF StatusTyped

\* updateInvoice, which supersedes signed rows only.
LEMMA UpdateKeeps ==
    ASSUME TypeOK, UpdateInvoice
    PROVE  RowsKept /\ StatusTyped
<1>1. CASE status \in ApprovalStarted
    <2> DEFINE S == DOMAIN sigs \ Unsigned(sigs)
    <2>1. sigs' = Changed(S, Superseded) /\ MoveTo("VALIDATION_PENDING", NoOne)
        BY <1>1 DEF UpdateInvoice
    <2>2. sigs' = [i \in 1..Len(sigs) |-> IF i \in S THEN Superseded(sigs[i]) ELSE sigs[i]]
        BY <2>1, RowsAreRows DEF Changed
    <2>3. /\ sigs' \in Seq(Signature) /\ Len(sigs') = Len(sigs)
          /\ \A i \in 1..Len(sigs) :
                sigs'[i] = IF i \in S THEN Superseded(sigs[i]) ELSE sigs[i]
        <3>1. \A i \in 1..Len(sigs) : Superseded(sigs[i]) \in Signature
            BY RowTypes, RowsAreRows
        <3> HIDE DEF S
        <3> QED
            BY <2>2, <3>1, RowsAreRows
    <2>4. \A i \in 1..Len(sigs) : sigs'[i].rev = sigs[i].rev
        BY <2>3, RowFields, RowsAreRows
    <2>5. \A i \in 1..Len(sigs) : ~sigs[i].signed => sigs'[i] = sigs[i]
        BY <2>3, RowsAreRows DEF Unsigned
    <2>6. RowsKept
        BY <2>3, <2>4, <2>5, RowsAreRows DEF RowsKept, TypeOK
    <2>7. "VALIDATION_PENDING" \in Status
        BY DEF Status, Intake
    <2> QED
        BY <2>1, <2>6, <2>7, StatusWritten DEF StatusTyped
<1>2. CASE status \notin ApprovalStarted
    BY <1>2, SameRows DEF UpdateInvoice, StatusTyped, TypeOK
<1> QED
    BY <1>1, <1>2

\* The outcome of a validation.
LEMMA FinishKeeps ==
    ASSUME TypeOK, FinishValidation
    PROVE  RowsKept /\ StatusTyped
<1>1. \/ MoveTo("EXCEPTION_FLAGGED", approver) /\ UNCHANGED sigs
      \/ MoveTo("VALIDATION_PENDING", approver) /\ UNCHANGED sigs
      \/ StartChain
    BY DEF FinishValidation
<1>2. {"EXCEPTION_FLAGGED", "VALIDATION_PENDING"} \subseteq Status
    BY DEF Status, Intake
<1> QED
    BY <1>1, <1>2, SameRows, ChainKeeps, StatusWritten DEF StatusTyped, TypeOK

-----------------------------------------------------------------------------
(* Types, and the order of the rows. *)

\* Each step clears the rows or keeps what RowsKept says.
LEMMA RowsStep ==
    ASSUME TypeOK, Next
    PROVE  /\ RowsKept \/ (sigs' = <<>> /\ (DeleteInvoice \/ ReprocessInvoice))
           /\ StatusTyped
<1> {"EXCEPTION_FLAGGED", "VALIDATION_PENDING", "CANCELLED", "DELETED", "IN_PAYMENT"}
       \subseteq Status
    BY DEF Status, Intake, Gone
<1> approver \in Roles \cup {NoOne} /\ status \in Status
    BY DEF TypeOK
<1>1. CASE RequestApproval
    BY <1>1, ChainKeeps DEF RequestApproval
<1>2. ASSUME NEW u \in Users, ApproveInvoice(u) \/ RejectInvoice(u) \/ ReturnInvoice(u)
      PROVE  RowsKept /\ StatusTyped
    BY <1>2, ApproveKeeps, RejectKeeps, ReturnKeeps
<1>3. CASE BeginValidation
    BY <1>3, SameRows DEF BeginValidation, StatusTyped
<1>4. CASE FinishValidation
    BY <1>4, FinishKeeps
<1>5. CASE FinishNonPayable
    BY <1>5, SameRows, StatusWritten DEF FinishNonPayable, StatusTyped
<1>6. CASE HandleException
    BY <1>6, SameRows, StatusWritten DEF HandleException, StatusTyped
<1>7. CASE AutoResolve
    BY <1>7, SameRows DEF AutoResolve, StatusTyped
<1>8. CASE UpdateInvoice
    BY <1>8, UpdateKeeps
<1>9. CASE UpdateInvoiceStatus
    <2>1. PICK s \in PatchedStatuses : MoveTo(s, approver)
        BY <1>9 DEF UpdateInvoiceStatus
    <2>2. s \in Status
        BY PatchesAssumption
    <2> QED
        BY <1>9, <2>1, <2>2, SameRows, StatusWritten DEF UpdateInvoiceStatus, StatusTyped
<1>10. ASSUME NEW u \in Users, RequestCancellation(u) \/ CancelInvoice(u)
       PROVE  RowsKept /\ StatusTyped
    BY <1>10, SameRows, StatusWritten DEF RequestCancellation, CancelInvoice, StatusTyped
<1>11. CASE DeleteInvoice
    BY <1>11 DEF DeleteInvoice, StatusTyped
<1>12. CASE PostInvoice
    BY <1>12, SameRows, StatusWritten DEF PostInvoice, StatusTyped
<1>13. CASE ReprocessInvoice
    BY <1>13, StatusWritten DEF ReprocessInvoice, StatusTyped
<1>14. CASE ReExtractInvoice
    BY <1>14, SameRows, StatusWritten DEF ReExtractInvoice, StatusTyped
<1> QED
    BY <1>1, <1>2, <1>3, <1>4, <1>5, <1>6, <1>7, <1>8, <1>9, <1>10, <1>11, <1>12, <1>13,
       <1>14 DEF Next

\* Only an edit and a new reading change what the invoice says, only an edit its
\* revision, which never goes back.
LEMMA ContentStep ==
    ASSUME TypeOK, Next
    PROVE  /\ UpdateInvoice \/ ReExtractInvoice \/ UNCHANGED content
           /\ revision \in Nat /\ revision' \in Nat /\ revision' >= revision
           /\ source' = source
<1>1. UpdateInvoice \/ ReExtractInvoice \/ UNCHANGED content
    BY DEF Next, RequestApproval, ApproveInvoice, RejectInvoice, ReturnInvoice,
       BeginValidation, FinishValidation, FinishNonPayable, HandleException, AutoResolve,
       UpdateInvoiceStatus, RequestCancellation, CancelInvoice, DeleteInvoice, PostInvoice,
       ReprocessInvoice
<1>2. revision \in Nat
    BY TiersAssumption DEF TypeOK
<1>3. CASE UpdateInvoice
    BY <1>2, <1>3 DEF UpdateInvoice, NextRevision
<1>4. CASE UNCHANGED content
    BY <1>2, <1>4 DEF content
<1>5. CASE ReExtractInvoice
    BY <1>2, <1>5 DEF ReExtractInvoice
<1> QED
    BY <1>1, <1>2, <1>3, <1>4, <1>5

\* The history: how often the document was read, and for which tier rows were
\* laid out.
LEMMA HistoryStep ==
    ASSUME TypeOK, Next
    PROVE  routed' \in Tiers /\ readings' \in 0..MaxReadings
<1>1. UNCHANGED history \/ RequestApproval \/ FinishValidation \/ ReExtractInvoice
    BY DEF Next, ApproveInvoice, RejectInvoice, ReturnInvoice, BeginValidation,
       FinishNonPayable, HandleException, AutoResolve, UpdateInvoice, UpdateInvoiceStatus,
       RequestCancellation, CancelInvoice, DeleteInvoice, PostInvoice, ReprocessInvoice
<1>2. CASE UNCHANGED history
    BY <1>2 DEF history, TypeOK
<1>3. CASE RequestApproval
    BY <1>3 DEF RequestApproval, StartChain, TypeOK
<1>4. CASE FinishValidation
    <2>1. routed' = routed \/ StartChain
        BY <1>4 DEF FinishValidation
    <2>2. routed' \in {routed, tier}
        BY <2>1 DEF StartChain
    <2> QED
        BY <1>4, <2>2 DEF FinishValidation, TypeOK
<1>5. CASE ReExtractInvoice
    BY <1>5, TiersAssumption DEF ReExtractInvoice, TypeOK
<1> QED
    BY <1>1, <1>2, <1>3, <1>4, <1>5

\* Types are inductive as they stand.
LEMMA TypeStep ==
    ASSUME TypeOK, [Next]_vars
    PROVE  TypeOK'
<1>1. CASE UNCHANGED vars
    BY <1>1 DEF TypeOK, vars
<1>2. CASE Next
    <2>1. StatusTyped
        BY <1>2, RowsStep
    <2>2. sigs' \in Seq(Signature) /\ Len(sigs') <= MaxSignatures
        <3>1. <<>> \in Seq(Signature) /\ Len(<<>>) <= MaxSignatures
            BY TiersAssumption
        <3> QED
            BY <1>2, <3>1, RowsStep DEF RowsKept
    <2>3. /\ revision' \in 1..MaxRevision /\ tier' \in Tiers /\ ready' \in BOOLEAN
          /\ source' \in Sources /\ requester' \in Users \cup {NoOne}
        <3>1. CASE UpdateInvoice
            BY <3>1, TiersAssumption DEF TypeOK, UpdateInvoice, NextRevision
        <3>2. UpdateInvoice \/ ReExtractInvoice \/ UNCHANGED content
            BY <1>2, ContentStep
        <3>3. requester' \in Users \cup {NoOne}
            BY <1>2 DEF TypeOK, Next, RequestApproval, ApproveInvoice, RejectInvoice,
               ReturnInvoice, BeginValidation, FinishValidation, FinishNonPayable,
               HandleException, AutoResolve, UpdateInvoice, UpdateInvoiceStatus,
               RequestCancellation, CancelInvoice, DeleteInvoice, PostInvoice,
               ReprocessInvoice, ReExtractInvoice
        <3>4. CASE ReExtractInvoice
            BY <3>4 DEF TypeOK, ReExtractInvoice
        <3> QED
            BY <3>1, <3>2, <3>3, <3>4 DEF TypeOK, content
    <2>4. /\ pending' \subseteq Reasons /\ handled' \subseteq Reasons
          /\ check' = NoOne \/ check' \in [handled : SUBSET Reasons]
        <3>1. CASE BeginValidation
            <4>1. [handled |-> handled] \in [handled : SUBSET Reasons]
                BY DEF TypeOK
            <4> QED
                BY <3>1, <4>1 DEF TypeOK, BeginValidation
        <3>2. CASE FinishValidation \/ FinishNonPayable
            BY <3>2 DEF TypeOK, FinishValidation, FinishNonPayable, Raised
        <3>3. CASE HandleException \/ AutoResolve
            BY <3>3 DEF TypeOK, HandleException, AutoResolve
        <3>4. CASE ~(BeginValidation \/ FinishValidation \/ FinishNonPayable \/
                     HandleException \/ AutoResolve)
            BY <1>2, <3>4 DEF TypeOK, Next, RequestApproval, ApproveInvoice, RejectInvoice,
               ReturnInvoice, UpdateInvoice, UpdateInvoiceStatus, RequestCancellation,
               CancelInvoice, DeleteInvoice, PostInvoice, ReprocessInvoice, ReExtractInvoice
        <3> QED
            BY <3>1, <3>2, <3>3, <3>4
    <2> QED
        BY <1>2, <2>1, <2>2, <2>3, <2>4, HistoryStep DEF TypeOK, StatusTyped
<1> QED
    BY <1>1, <1>2

\* Types and bounds hold in every reachable state.
THEOREM ApprovalTypes == Spec => []TypeOK
<1>1. Init => TypeOK
    <2>1. ASSUME Init PROVE status \in Status
        BY <2>1 DEF Init, Status, Approved, Intake
    <2> QED
        BY <2>1, TiersAssumption DEF Init, TypeOK
<1>2. TypeOK /\ [Next]_vars => TypeOK'
    BY TypeStep
<1> QED
    BY <1>1, <1>2, PTL DEF Spec

\* New rows are of the newest revision.
LEMMA OrderStep ==
    ASSUME TypeOK, RowsOrdered, [Next]_vars
    PROVE  RowsOrdered'
<1>1. CASE UNCHANGED vars
    BY <1>1 DEF RowsOrdered, vars
<1>2. CASE Next /\ sigs' = <<>>
    BY <1>2 DEF RowsOrdered
<1>3. CASE Next /\ RowsKept
    <2>1. revision \in Nat /\ revision' \in Nat /\ revision' >= revision
        BY <1>3, ContentStep
    <2>2. /\ DOMAIN sigs' = 1..Len(sigs') /\ Len(sigs') \in Nat
          /\ \A i \in 1..Len(sigs) : i \in 1..Len(sigs')
        BY <1>3, RowsAreRows DEF RowsKept
    <2>3. \A i \in 1..Len(sigs) : sigs[i].rev \in Nat /\ sigs[i].rev <= revision
        BY RowsAreRows, TiersAssumption DEF RowsOrdered, Signature
    <2>4. \A i \in 1..Len(sigs') : sigs'[i].rev = IF i <= Len(sigs) THEN sigs[i].rev ELSE revision
        BY <1>3, <2>2, RowsAreRows DEF RowsKept
    <2>5. \A i \in 1..Len(sigs') : sigs'[i].rev <= revision'
        BY <2>1, <2>2, <2>3, <2>4, RowsAreRows
    <2>6. ASSUME NEW i \in 1..Len(sigs'), NEW j \in 1..Len(sigs'), i < j
          PROVE  sigs'[i].rev <= sigs'[j].rev
        BY <2>1, <2>2, <2>3, <2>4, <2>6, RowsAreRows DEF RowsOrdered
    <2> QED
        BY <2>2, <2>5, <2>6 DEF RowsOrdered
<1> QED
    BY <1>1, <1>2, <1>3, RowsStep

-----------------------------------------------------------------------------
(* The chain. *)

\* An unsigned row that does not count is there for good, or until all rows go.
LEMMA OddStaysOdd ==
    ASSUME TypeOK, RowsOrdered, Next, RowsKept, Ordinary'
    PROVE  Ordinary
<1>1. source' = source /\ revision \in Nat /\ revision' \in Nat /\ revision' >= revision
    BY ContentStep
<1>2. ASSUME NEW i \in Unsigned(sigs), i \notin Workflow(sigs)
      PROVE  FALSE
    <2>1. /\ i \in 1..Len(sigs) /\ ~sigs[i].signed
          /\ sigs[i].state = "SUPERSEDED" \/ sigs[i].rev # revision
          /\ sigs[i].rev \in Nat /\ sigs[i].rev <= revision
        BY <1>2, RowsAreRows, TiersAssumption
           DEF Live, Unsigned, Workflow, RowsOrdered, Signature
    <2>2. /\ i \in DOMAIN sigs' /\ ~sigs'[i].signed /\ sigs'[i].rev = sigs[i].rev
          /\ sigs[i].state = "SUPERSEDED" => sigs'[i].state = "SUPERSEDED"
        BY <2>1, RowsAreRows DEF RowsKept
    <2>3. sigs'[i].rev = revision' /\ sigs'[i].state # "SUPERSEDED"
        BY <2>2 DEF Ordinary, Live, Unsigned, Workflow
    <2> QED
        BY <1>1, <2>1, <2>2, <2>3
<1> QED
    BY <1>1, <1>2 DEF Ordinary

\* Steps that leave the rows alone and do not enter the chain or Accounting,
\* except by a patch.
LEMMA RowsAlone ==
    ASSUME ChainOK, sigs' = sigs, UNCHANGED <<revision, routed>>,
           "PENDING_ACCOUNTING" \notin PatchedStatuses,
           \/ status' = status
           \/ status' \notin (Approved \cup ChainStatus) \ PatchedStatuses
    PROVE  ChainOK'
<1>1. Workflow(sigs)' = Workflow(sigs) /\ Live(sigs)' = Live(sigs) /\ Asked' = Asked
    BY DEF Workflow, Live, Asked
<1>2. Staffed' /\ SignedInForce' /\ NamesFit'
    BY <1>1 DEF ChainOK, Staffed, SignedInForce, NamesFit
<1>3. ReviewerIsLast' /\ StatusFits'
    BY <1>1 DEF ChainOK, ReviewerIsLast, StatusFits, Approved
<1> QED
    BY <1>1, <1>2, <1>3 DEF ChainOK

\* Steps that clear the rows.
LEMMA RowsCleared ==
    ASSUME sigs' = <<>>, status' \notin Approved \cup ChainStatus
    PROVE  ChainOK'
<1>1. Workflow(sigs)' = {} /\ Live(sigs)' = {} /\ DOMAIN sigs' = {}
    BY DEF Workflow, Live
<1> QED
    BY <1>1 DEF ChainOK, Staffed, SignedInForce, ReviewerIsLast, NamesFit, StatusFits

\* Steps that ask a part of the chain again, from one of its rows on.
LEMMA ChainReopened ==
    ASSUME TypeOK, ChainOK, Ordinary',
           NEW S, S \subseteq Live(sigs), S # {},
           sigs' = [i \in 1..Len(sigs) |-> IF i \in S THEN Reopened(sigs[i]) ELSE sigs[i]],
           UNCHANGED <<revision, routed>>, status' \in ChainStatus \cup {"CANCELLED"},
           \A i \in Workflow(sigs) : sigs[i].role # Reviewer,
           \A i, j \in Workflow(sigs) : i < j /\ i \in S /\ sigs[j].signed => j \in S
    PROVE  ChainOK'
<1>1. DOMAIN sigs' = 1..Len(sigs) /\ Asked' = Asked /\ revision' = revision
    BY DEF Asked
<1>2. \A i \in 1..Len(sigs) : /\ sigs'[i].role = sigs[i].role /\ sigs'[i].by = sigs[i].by
                              /\ sigs'[i].rev = sigs[i].rev
    BY RowsAreRows, RowFields
<1>3. \A i \in 1..Len(sigs) : i \notin S => sigs'[i] = sigs[i]
    OBVIOUS
<1>4. \A i \in S : /\ i \in 1..Len(sigs) /\ ~sigs'[i].signed
                   /\ sigs'[i].state # "SUPERSEDED" /\ sigs[i].state # "SUPERSEDED"
    BY RowsAreRows, RowFields DEF Live
<1>5. Live(sigs)' = Live(sigs) /\ Workflow(sigs)' = Workflow(sigs)
    <2>1. \A i \in DOMAIN sigs : /\ sigs'[i].rev = sigs[i].rev
                                 /\ sigs'[i].state # "SUPERSEDED" <=> sigs[i].state # "SUPERSEDED"
        BY <1>2, <1>3, <1>4, RowsAreRows
    <2>2. DOMAIN sigs' = DOMAIN sigs
        BY <1>1, RowsAreRows
    <2>3. Live(sigs)' = Live(sigs)
        BY <2>1, <2>2 DEF Live
    <2>4. Live(sigs) \subseteq DOMAIN sigs
        BY DEF Live
    <2> QED
        BY <1>1, <2>1, <2>3, <2>4 DEF Workflow
<1>6. S \subseteq Workflow(sigs)
    BY <1>1, <1>4, <1>5 DEF Ordinary, Unsigned
<1>7. Staffed'
    <2>1. \A i \in Workflow(sigs) : sigs'[i].role = sigs[i].role
        BY <1>2, RowsAreRows
    <2>2. Staffed
        BY DEF ChainOK
    <2>3. \A i \in Workflow(sigs)' : sigs'[i].role \in Asked' \cup {Reviewer}
        BY <1>1, <1>5, <2>1, <2>2 DEF Staffed
    <2>4. ASSUME Workflow(sigs)' # {}, NEW r \in Asked'
          PROVE  \E i \in Workflow(sigs)' : sigs'[i].role = r
        <3>1. PICK i \in Workflow(sigs) : sigs[i].role = r
            BY <1>1, <1>5, <2>2, <2>4 DEF Staffed
        <3> QED
            BY <1>5, <2>1, <3>1
    <2> QED
        BY <2>3, <2>4 DEF Staffed
<1>8. SignedInForce'
    BY <1>1, <1>3, <1>4, <1>5, RowsAreRows DEF ChainOK, SignedInForce
<1>9. ReviewerIsLast'
    BY <1>2, <1>5, RowsAreRows DEF ReviewerIsLast
<1>10. NamesFit'
    BY <1>2, <1>5, RowsAreRows DEF ChainOK, NamesFit
<1>11. StatusFits'
    <2>1. status' \notin Approved
        BY StageTypes DEF Gone, Approved
    <2>2. \E i \in Workflow(sigs)' : ~sigs'[i].signed
        BY <1>4, <1>5, <1>6
    <2> QED
        BY <2>1, <2>2 DEF StatusFits
<1>12. ASSUME NEW i \in Workflow(sigs), NEW j \in Workflow(sigs), i < j, sigs'[j].signed
       PROVE  sigs'[i].signed
    <2>1. j \notin S /\ sigs[j].signed
        BY <1>3, <1>4, <1>12, RowsAreRows
    <2>2. i \notin S /\ sigs[i].signed
        BY <1>12, <2>1 DEF ChainOK
    <2> QED
        BY <1>3, <2>2, RowsAreRows
<1> QED
    BY <1>5, <1>7, <1>8, <1>9, <1>10, <1>11, <1>12 DEF ChainOK

\* createApprovalRequest: what is kept of the chain is in front of the new rows, and
\* together they are one for each role.
LEMMA ChainStarted ==
    ASSUME TypeOK, ChainOK, StartChain, UNCHANGED content
    PROVE  ChainOK'
<1> USE RowsAreRows
<1> DEFINE new == (Len(sigs) + 1)..Len(sigs')
<1>1. revision' = revision /\ Asked' = Range(Route)
    BY DEF Asked, Route, content, StartChain
<1>2. \A i \in Kept : /\ i \in Workflow(sigs) /\ i \in 1..Len(sigs)
                      /\ sigs'[i] = sigs[i] /\ sigs[i].role \in Range(Route)
    BY ChainRows DEF Kept, StaleRows
<1>3. \A i \in StaleRows : i \in 1..Len(sigs) /\ sigs'[i].state = "SUPERSEDED"
    BY ChainRows, RowFields DEF StaleRows
<1>4. \A i \in new : /\ sigs'[i].role \in Range(Route) /\ sigs'[i].rev = revision
                     /\ ~sigs'[i].signed /\ sigs'[i].state = "PENDING"
                     /\ sigs'[i].by = NoOne
    <2> TAKE i \in new
    <2>1. PICK k \in Missing : sigs'[i] = NewSignature(Route[k], NoOne)
        BY ChainRows
    <2>2. Route[k] \in Range(Route)
        BY RouteFacts DEF Missing
    <2> QED
        BY <2>1, <2>2 DEF NewSignature
<1>5. /\ DOMAIN sigs' = (1..Len(sigs)) \cup new
      /\ \A i \in 1..Len(sigs) : i \notin StaleRows => sigs'[i] = sigs[i]
    <2>1. /\ sigs' \in Seq(Signature) /\ Len(sigs') >= Len(sigs)
          /\ \A i \in 1..Len(sigs) : i \notin StaleRows => sigs'[i] = sigs[i]
        BY ChainRows
    <2>2. DOMAIN sigs' = 1..Len(sigs') /\ Len(sigs') \in Nat
        BY <2>1
    <2> QED
        BY <2>1, <2>2
<1>6. \A i \in 1..Len(sigs), j \in new : i < j
    OBVIOUS
<1> HIDE DEF new
<1>7. Live(sigs)' = (Live(sigs) \ StaleRows) \cup new
    BY <1>3, <1>4, <1>5 DEF Live
<1>8. Workflow(sigs)' = Kept \cup new
    BY <1>1, <1>3, <1>4, <1>5, <1>7 DEF Workflow, Kept
<1>9. Staffed'
    <2>1. ASSUME NEW r \in Range(Route)
          PROVE  \E i \in Kept \cup new : sigs'[i].role = r
        <3>1. PICK k \in DOMAIN Route : Route[k] = r
            BY RouteFacts
        <3>2. CASE k \in Missing
            <4>1. PICK i \in new : sigs'[i] = NewSignature(Route[k], NoOne)
                BY <3>2, ChainRows DEF new
            <4> QED
                BY <3>1, <4>1 DEF NewSignature
        <3>3. CASE k \notin Missing
            BY <1>2, <3>1, <3>3 DEF Missing
        <3> QED
            BY <3>2, <3>3
    <2> QED
        BY <1>1, <1>2, <1>4, <1>8, <2>1 DEF Staffed
<1>10. SignedInForce'
    BY <1>4, <1>5, <1>7 DEF ChainOK, SignedInForce
<1>11. ReviewerIsLast'
    BY <1>2, <1>4, <1>8, RouteFacts DEF ReviewerIsLast
<1>12. NamesFit'
    BY <1>2, <1>4, <1>8 DEF ChainOK, NamesFit
<1>13. StatusFits'
    <2>1. CASE Missing = {}
        <3>1. ResumeChain(Kept)
            BY <2>1, ChainRows
        <3>2. ASSUME NEW i \in Kept \cap Unsigned(sigs), MoveToRole(sigs[i].role)
              PROVE  StatusFits'
            <4>1. sigs[i].role \in Range(Chain) /\ sigs[i].role \in Roles /\ ~sigs'[i].signed
                BY <1>2, RouteFacts DEF Unsigned
            <4>2. status' \in ChainStatus \cup {"CANCELLED"}
                BY <3>2, <4>1, StageWritten, StageTypes
            <4> QED
                BY <1>8, <4>1, <4>2, StageTypes DEF StatusFits, Gone
        <3>3. ASSUME MoveTo("VALIDATION_PENDING", approver)
              PROVE  StatusFits'
            <4>1. status' \in {"VALIDATION_PENDING", "CANCELLED"}
                BY <3>3 DEF MoveTo
            <4> QED
                BY <4>1, StageTypes DEF StatusFits, Intake, Gone
        <3> QED
            BY <3>1, <3>2, <3>3 DEF ResumeChain
    <2>2. CASE Missing # {}
        <3>1. PICK k \in 1..(tier + 1) : MoveToRole(Route[k])
            BY <2>2, ChainRows, RouteFacts DEF EnterChain
        <3>2. Route[k] \in Range(Chain) /\ Route[k] \in Roles
            BY RouteFacts
        <3>3. status' \in ChainStatus \cup {"CANCELLED"}
            BY <3>1, <3>2, StageWritten, StageTypes
        <3>4. \E i \in new : TRUE
            BY <2>2, ChainRows DEF new
        <3> QED
            BY <1>4, <1>8, <3>3, <3>4, StageTypes DEF StatusFits, Gone
    <2> QED
        BY <2>1, <2>2
<1>14. ASSUME NEW i \in Workflow(sigs)', NEW j \in Workflow(sigs)', i < j, sigs'[j].signed
       PROVE  sigs'[i].signed
    <2>1. j \in Kept /\ sigs[j].signed
        BY <1>2, <1>4, <1>8, <1>14
    <2>2. i \in Kept
        BY <1>2, <1>6, <1>8, <1>14, <2>1 DEF new
    <2> QED
        BY <1>2, <1>14, <2>1, <2>2 DEF ChainOK
<1> QED
    BY <1>9, <1>10, <1>11, <1>12, <1>13, <1>14 DEF ChainOK

\* approveInvoice.
LEMMA ChainSigned ==
    ASSUME TypeOK, ChainOK, "PENDING_ACCOUNTING" \notin PatchedStatuses, NEW u \in Users, ApproveInvoice(u)
    PROVE  ChainOK'
<1> USE RowsAreRows
<1>1. Asked' = Asked /\ revision' = revision
    BY DEF ApproveInvoice, Asked, content, history
<1>2. WithAutoChain = sigs
    BY DEF WithAutoChain, ChainOK, StatusFits, Approved
<1>3. Sign(u) \/ Complete(u)
    BY <1>2 DEF ApproveInvoice, OnlyCreateChain
<1>4. CASE Sign(u)
    <2>1. PICK i \in ForUser(sigs, u) :
             LET rest == (Workflow(sigs) \cap Unsigned(sigs)) \ {i}
             IN /\ MaySign(sigs, i, u)
                /\ sigs' = [sigs EXCEPT ![i] = Signed(@, u)]
                /\ IF rest = {} THEN MoveTo("PENDING_ACCOUNTING", NoOne)
                   ELSE MoveToRole(NextRole(rest, sigs))
        BY <1>2, <1>4 DEF Sign
    <2> DEFINE rest == (Workflow(sigs) \cap Unsigned(sigs)) \ {i}
    <2>2. /\ i \in 1..Len(sigs) /\ i \in Workflow(sigs) /\ ~sigs[i].signed
          /\ sigs[i].role = RoleOf[u] /\ sigs[i] \in Signature
        BY <2>1 DEF ForUser, Unsigned, OfRole
    <2>3. \A j \in Workflow(sigs) : sigs[j].role # Reviewer /\ sigs[j].role \in Asked
        BY <2>2 DEF ChainOK, ReviewerIsLast, Staffed
    <2>4. /\ DOMAIN sigs' = 1..Len(sigs)
          /\ \A j \in 1..Len(sigs) : j # i => sigs'[j] = sigs[j]
          /\ sigs'[i] = Signed(sigs[i], u)
        BY <2>1, <2>2 DEF TypeOK
    <2>5. /\ sigs'[i].role = sigs[i].role /\ sigs'[i].rev = sigs[i].rev /\ sigs'[i].signed
          /\ ~sigs'[i].invalid /\ sigs'[i].state = "APPROVED" /\ sigs'[i].by = u
        BY <2>2, <2>4 DEF Signed, Signature
    <2>6. Live(sigs)' = Live(sigs)
        BY <2>2, <2>4, <2>5 DEF Live, Workflow
    <2>7. Workflow(sigs)' = Workflow(sigs)
        BY <1>1, <2>2, <2>4, <2>5, <2>6 DEF Workflow
    <2>8. \A j \in Workflow(sigs) : sigs'[j].role = sigs[j].role
        BY <2>4, <2>5
    <2>9. Staffed'
        <3>1. \A r \in Asked : \E j \in Workflow(sigs) : sigs[j].role = r
            BY <2>2 DEF ChainOK, Staffed
        <3>2. \A r \in Asked : \E j \in Workflow(sigs) : sigs'[j].role = r
            BY <2>8, <3>1
        <3> QED
            BY <1>1, <2>3, <2>7, <2>8, <3>2 DEF Staffed
    <2>10. SignedInForce'
        BY <2>4, <2>5, <2>6 DEF ChainOK, SignedInForce
    <2>11. ReviewerIsLast'
        BY <2>3, <2>7, <2>8 DEF ReviewerIsLast
    <2>12. NamesFit'
        BY <2>2, <2>4, <2>5, <2>7 DEF ChainOK, NamesFit
    <2>13. StatusFits'
        <3>1. CASE rest = {}
            <4>1. status' \in {"PENDING_ACCOUNTING", "CANCELLED"}
                BY <2>1, <3>1 DEF MoveTo
            <4>2. \A j \in Workflow(sigs) : sigs'[j].signed
                BY <2>4, <2>5, <3>1 DEF Unsigned
            <4> QED
                BY <2>2, <2>7, <4>1, <4>2, StageTypes DEF StatusFits, Approved, Gone
        <3>2. CASE rest # {}
            <4>1. PICK j \in rest : NextRole(rest, sigs) = sigs[j].role
                BY <3>2, NextRoleLeft
            <4>2. /\ j \in Workflow(sigs) /\ j # i /\ ~sigs[j].signed
                  /\ sigs[j].role \in Range(Chain) /\ sigs[j].role \in Roles
                BY <2>3, AskedFacts, RouteFacts DEF Unsigned
            <4>3. status' \in ChainStatus \cup {"CANCELLED"}
                BY <2>1, <3>2, <4>1, <4>2, StageWritten, StageTypes
            <4>4. ~sigs'[j].signed
                BY <2>4, <4>2
            <4> QED
                BY <2>7, <4>2, <4>3, <4>4, StageTypes DEF StatusFits, Gone
        <3> QED
            BY <3>1, <3>2
    <2>14. ASSUME NEW j \in Workflow(sigs), NEW k \in Workflow(sigs), j < k, sigs'[k].signed
           PROVE  sigs'[j].signed
        <3>1. CASE k = i
            BY <2>1, <2>2, <2>4, <2>14, <3>1 DEF MaySign, InTurn
        <3>2. CASE k # i
            BY <2>4, <2>5, <2>14, <3>2 DEF ChainOK
        <3> QED
            BY <3>1, <3>2
    <2> QED
        BY <2>7, <2>9, <2>10, <2>11, <2>12, <2>13, <2>14 DEF ChainOK
<1>5. CASE Complete(u)
    <2> DEFINE row == Signed(NewSignature(Reviewer, u), u)
               n == Len(sigs) + 1
    <2>1. /\ sigs' = Append(sigs, row) /\ MoveTo("APPROVED", NoOne)
          /\ status = "PENDING_ACCOUNTING" /\ Workflow(sigs) # {}
          /\ \A i \in Workflow(sigs) : sigs[i].signed /\ sigs[i].role # Reviewer
        BY <1>5 DEF Complete
    <2>2. /\ row.role = Reviewer /\ row.rev = revision /\ row.signed /\ ~row.invalid
          /\ row.state = "APPROVED"
        BY DEF Signed, NewSignature
    <2> HIDE DEF row
    <2>3. /\ DOMAIN sigs' = (1..Len(sigs)) \cup {n}
          /\ \A i \in 1..Len(sigs) : sigs'[i] = sigs[i]
          /\ sigs'[n] = row /\ n \notin 1..Len(sigs)
        BY <2>1 DEF TypeOK
    <2> HIDE DEF n
    <2>4. Live(sigs)' = Live(sigs) \cup {n}
        BY <2>2, <2>3 DEF Live
    <2>5. Workflow(sigs)' = Workflow(sigs) \cup {n}
        BY <1>1, <2>2, <2>3, <2>4 DEF Workflow
    <2>6. status' = "APPROVED"
        BY <2>1 DEF MoveTo
    <2>7. \A i \in Workflow(sigs)' : sigs'[i].signed
        BY <2>1, <2>2, <2>3, <2>5
    <2>8. Staffed'
        <3>1. \A r \in Asked : \E i \in Workflow(sigs) : sigs[i].role = r
            BY <2>1 DEF ChainOK, Staffed
        <3>2. \A r \in Asked : \E i \in Workflow(sigs)' : sigs'[i].role = r
            BY <2>3, <2>5, <3>1
        <3>3. \A i \in Workflow(sigs)' : sigs'[i].role \in Asked \cup {Reviewer}
            BY <2>2, <2>3, <2>5 DEF ChainOK, Staffed
        <3> QED
            BY <1>1, <3>2, <3>3 DEF Staffed
    <2>9. SignedInForce'
        BY <2>2, <2>3, <2>4 DEF ChainOK, SignedInForce
    <2>10. ReviewerIsLast'
        BY <2>6, <2>7 DEF ReviewerIsLast
    <2>11. NamesFit'
        BY <2>2, <2>3, <2>5 DEF ChainOK, NamesFit
    <2>12. StatusFits'
        BY <2>1, <2>5, <2>6, <2>7, StageTypes DEF StatusFits, Approved
    <2> QED
        BY <2>7, <2>8, <2>9, <2>10, <2>11, <2>12 DEF ChainOK
<1> QED
    BY <1>3, <1>4, <1>5

\* rejectInvoice, by somebody whose turn it is: what was signed before is valid, and
\* nothing after it is signed.
LEMMA ChainRejected ==
    ASSUME TypeOK, RowsOrdered, Ordinary, ChainOK, Ordinary',
           UNCHANGED <<content, history>>,
           NEW u \in Users, NEW i \in Rejectable(u), RejectSigned(i)
    PROVE  ChainOK'
<1> USE RowsAreRows
<1> DEFINE cut == IF i \in Live(sigs) \/ Live(sigs) = {} THEN i ELSE Latest(Live(sigs))
           later == From(Live(sigs), cut) \ Unsigned(sigs)
           rows == [j \in DOMAIN sigs |->
                       IF j \in later THEN [sigs[j] EXCEPT !.invalid = TRUE] ELSE sigs[j]]
           before == {j \in Live(sigs) : j < cut /\ sigs[j].signed /\ ~ sigs[j].invalid}
           coordinator == Live(sigs) \cap OfRole(sigs, "COORDINATOR")
           again(S) == [j \in 1..Len(sigs) |-> IF j \in S THEN Reopened(sigs[j]) ELSE sigs[j]]
<1>1. i \in 1..Len(sigs) /\ i \in Workflow(sigs) /\ ~sigs[i].signed
    <2>1. i \in 1..Len(sigs) /\ ~sigs[i].signed
        BY DEF Rejectable, Unsigned
    <2>2. i \in Unsigned(sigs)
        BY <2>1 DEF Unsigned
    <2> QED
        BY <2>1, <2>2 DEF Ordinary
<1>10. cut = i
    BY <1>1
<1> HIDE DEF cut
<1>2. \A j \in Workflow(sigs) : sigs[j].role # Reviewer /\ sigs[j].role \in Range(Chain)
    BY <1>1, AskedFacts DEF ChainOK, ReviewerIsLast, Staffed
<1>3. \A j \in Live(sigs) : j > i => j \in Workflow(sigs) /\ ~sigs[j].signed
    <2> SUFFICES ASSUME NEW j \in Live(sigs), j > i
                 PROVE  j \in Workflow(sigs) /\ ~sigs[j].signed
        OBVIOUS
    <2>1. sigs[i].rev <= sigs[j].rev /\ sigs[j].rev <= revision /\ sigs[i].rev = revision
        BY <1>1 DEF RowsOrdered, Workflow
    <2>2. sigs[j].rev \in Nat /\ revision \in Nat
        BY TiersAssumption DEF Signature, TypeOK
    <2>3. j \in Workflow(sigs)
        BY <2>1, <2>2 DEF Workflow
    <2> QED
        BY <1>1, <2>3 DEF ChainOK
<1>4. later = {}
    <2> SUFFICES ASSUME NEW j \in later PROVE FALSE
        OBVIOUS
    <2>1. j \in Live(sigs) /\ j >= i /\ sigs[j].signed /\ j # i
        BY <1>10, <1>1 DEF From, Unsigned
    <2> QED
        BY <1>1, <1>3, <2>1
<1>5. rows = sigs
    BY <1>4 DEF TypeOK
<1> HIDE DEF rows, later
<1>6. \A j \in 1..Len(sigs) : [rows EXCEPT ![j] = Reopened(@)] = again({j})
    <2> TAKE j \in 1..Len(sigs)
    <2>1. sigs = [k \in 1..Len(sigs) |-> sigs[k]]
        BY DEF TypeOK
    <2> QED
        BY <1>5, <2>1
<1>7. "COORDINATOR" \in Range(Chain) /\ Range(Chain) \subseteq Roles
    BY RouteFacts DEF Range, Chain
<1>8. CASE before # {}
    <2> DEFINE b == Latest(before)
    <2>1. before \subseteq 1..Len(sigs)
        OBVIOUS
    <2>2. b \in before /\ \A j \in before : b >= j
        BY <1>8, <2>1, LastExists
    <2>3. sigs' = again({b}) /\ MoveToRole(sigs[b].role)
        BY <1>6, <1>8, <2>1, <2>2, <1>3 DEF RejectSigned, rows, later, cut
    <2> HIDE DEF b
    <2>4. b \in Live(sigs) /\ b \in 1..Len(sigs)
        BY <2>2
    <2>5. b \in Workflow(sigs)
        <3>1. /\ b \in DOMAIN sigs' /\ ~sigs'[b].signed
              /\ sigs'[b].state # "SUPERSEDED" /\ sigs'[b].rev = sigs[b].rev
            BY <2>3, <2>4, RowFields
        <3>2. sigs'[b].rev = revision
            BY <3>1 DEF Ordinary, Live, Unsigned, Workflow, content
        <3> QED
            BY <2>4, <3>1, <3>2 DEF Workflow
    <2>6. status' \in ChainStatus \cup {"CANCELLED"}
        BY <1>2, <1>7, <2>3, <2>5, StageWritten, StageTypes
    <2>7. ASSUME NEW j \in Workflow(sigs), NEW k \in Workflow(sigs), j < k, j = b, sigs[k].signed
          PROVE  FALSE
        <3>1. k < i
            BY <1>1, <1>3, <2>7
        <3>2. k \in before
            BY <1>10, <2>7, <3>1 DEF ChainOK, SignedInForce
        <3> QED
            BY <2>2, <2>4, <2>7, <3>2
    <2> DEFINE S == {b}
    <2>8. /\ S \subseteq Live(sigs) /\ S # {}
          /\ sigs' = [j \in 1..Len(sigs) |-> IF j \in S THEN Reopened(sigs[j]) ELSE sigs[j]]
          /\ \A j, k \in Workflow(sigs) : j < k /\ j \in S /\ sigs[k].signed => k \in S
        BY <2>3, <2>4, <2>7
    <2> HIDE DEF S
    <2> QED
        BY <1>2, <2>6, <2>8, ChainReopened DEF content, history
<1>9. CASE before = {}
    <2> DEFINE c == Earliest(coordinator)
    <2>1. \E j \in Workflow(sigs) : sigs[j].role = "COORDINATOR"
        <3>1. "COORDINATOR" \in Asked
            BY AskedFacts
        <3> QED
            BY <1>1, <3>1 DEF ChainOK, Staffed
    <2>2. coordinator # {} /\ coordinator \subseteq Nat
        BY <2>1 DEF OfRole
    <2>3. c \in coordinator
        BY <2>2, FirstExists
    <2>4. sigs' = again({c}) /\ MoveToRole("COORDINATOR")
        BY <1>6, <1>9, <2>2, <2>3 DEF RejectSigned, rows, later, cut
    <2> HIDE DEF c
    <2>5. c \in Live(sigs) /\ c \in 1..Len(sigs)
        BY <2>3
    <2>6. status' \in ChainStatus \cup {"CANCELLED"}
        BY <1>7, <2>4, StageWritten, StageTypes
    <2>7. ASSUME NEW j \in Workflow(sigs), NEW k \in Workflow(sigs), j < k, j = c, sigs[k].signed
          PROVE  FALSE
        <3>1. k < i
            BY <1>1, <1>3, <2>7
        <3>2. k \in before
            BY <1>10, <2>7, <3>1 DEF ChainOK, SignedInForce
        <3> QED
            BY <1>9, <3>2
    <2> DEFINE S == {c}
    <2>8. /\ S \subseteq Live(sigs) /\ S # {}
          /\ sigs' = [j \in 1..Len(sigs) |-> IF j \in S THEN Reopened(sigs[j]) ELSE sigs[j]]
          /\ \A j, k \in Workflow(sigs) : j < k /\ j \in S /\ sigs[k].signed => k \in S
        BY <2>4, <2>5, <2>7
    <2> HIDE DEF S
    <2> QED
        BY <1>2, <2>6, <2>8, ChainReopened DEF content, history
<1> QED
    BY <1>8, <1>9

\* rejectFromAccounting: the coordinator's row and all after it.
LEMMA ChainRejectedFromAccounting ==
    ASSUME TypeOK, ChainOK, Ordinary', UNCHANGED <<content, history>>,
           "PENDING_ACCOUNTING" \notin PatchedStatuses,
           NEW u \in Users, RejectFromAccounting(u)
    PROVE  ChainOK'
<1> USE RowsAreRows
<1> DEFINE coordinator == Live(sigs) \cap OfRole(sigs, "COORDINATOR")
           S == From(Live(sigs), Earliest(coordinator))
<1>1. /\ status = "PENDING_ACCOUNTING" /\ Workflow(sigs) # {}
      /\ \A i \in Workflow(sigs) : sigs[i].role # Reviewer
    BY DEF RejectFromAccounting, ChainOK, StatusFits, ReviewerIsLast, Approved
<1>2. \E i \in Workflow(sigs) : sigs[i].role = "COORDINATOR"
    <2>1. "COORDINATOR" \in Asked
        BY AskedFacts
    <2> QED
        BY <1>1, <2>1 DEF ChainOK, Staffed
<1>3. coordinator # {} /\ coordinator \subseteq Nat
    BY <1>2 DEF OfRole
<1>4. Earliest(coordinator) \in coordinator
    BY <1>3, FirstExists
<1>5. sigs' = Changed(S, Reopened) /\ MoveToRole("COORDINATOR")
    BY <1>3 DEF RejectFromAccounting
<1>6. Earliest(coordinator) \in S /\ S \subseteq Live(sigs)
    BY <1>4 DEF From
<1>7. sigs' = [i \in 1..Len(sigs) |-> IF i \in S THEN Reopened(sigs[i]) ELSE sigs[i]]
    BY <1>5 DEF Changed
<1>8. \A i, j \in Workflow(sigs) : i < j /\ i \in S /\ sigs[j].signed => j \in S
    BY <1>4 DEF From
<1>9. status' \in ChainStatus \cup {"CANCELLED"}
    <2>1. "COORDINATOR" \in Range(Chain) /\ "COORDINATOR" \in Roles
        BY RouteFacts DEF Range, Chain
    <2> QED
        BY <1>5, <2>1, StageWritten, StageTypes
<1> HIDE DEF S
<1> QED
    BY <1>1, <1>6, <1>7, <1>8, <1>9, ChainReopened DEF content, history

\* returnInvoice, by somebody whose signature is missing.
LEMMA ChainReturned ==
    ASSUME TypeOK, ChainOK, Ordinary', NEW u \in Users, ReturnInvoice(u)
    PROVE  ChainOK'
<1> USE RowsAreRows
<1>1. PICK i \in Workflow(sigs) \ Unsigned(sigs) :
         /\ sigs' = Changed(From(Workflow(sigs), i), Reopened)
         /\ MoveToRole(sigs[i].role)
    BY ReturnRows
<1> DEFINE S == From(Workflow(sigs), i)
<1>2. \E j \in Workflow(sigs) : ~sigs[j].signed
    BY DEF ReturnInvoice, ForUser, Unsigned
<1>3. \A j \in Workflow(sigs) : sigs[j].role # Reviewer /\ sigs[j].role \in Range(Chain)
    BY <1>2, AskedFacts DEF ChainOK, ReviewerIsLast, Staffed
<1>4. i \in S /\ S \subseteq Live(sigs)
    BY DEF From
<1>5. sigs' = [j \in 1..Len(sigs) |-> IF j \in S THEN Reopened(sigs[j]) ELSE sigs[j]]
    BY <1>1 DEF Changed
<1>6. \A j, k \in Workflow(sigs) : j < k /\ j \in S /\ sigs[k].signed => k \in S
    BY DEF From
<1>7. status' \in ChainStatus \cup {"CANCELLED"}
    <2>1. sigs[i].role \in Range(Chain) /\ sigs[i].role \in Roles
        BY <1>3, RouteFacts
    <2> QED
        BY <1>1, <2>1, StageWritten, StageTypes
<1>8. UNCHANGED <<revision, routed>>
    BY DEF ReturnInvoice, content, history
<1> HIDE DEF S
<1> QED
    BY <1>3, <1>4, <1>5, <1>6, <1>7, <1>8, ChainReopened

\* updateInvoice opens a revision in which no row counts yet.
LEMMA ChainUpdated ==
    ASSUME TypeOK, RowsOrdered, ChainOK, Ordinary', UpdateInvoice
    PROVE  ChainOK'
<1> USE RowsAreRows
<1>1. RowsKept /\ revision \in Nat /\ revision' = revision + 1
    BY UpdateKeeps, TiersAssumption DEF UpdateInvoice, NextRevision, TypeOK
<1>2. DOMAIN sigs' = 1..Len(sigs)
    BY DEF UpdateInvoice, Changed
<1>3. \A i \in 1..Len(sigs) : sigs[i].rev \in Nat /\ sigs[i].rev <= revision
    BY TiersAssumption DEF RowsOrdered, Signature
<1>4. \A i \in 1..Len(sigs) : sigs'[i].rev # revision'
    BY <1>1, <1>3 DEF RowsKept
<1>5. Workflow(sigs)' = {}
    BY <1>2, <1>4 DEF Workflow, Live
<1>6. SignedInForce'
    <2>1. CASE status \in ApprovalStarted
        <3>1. sigs' = Changed(DOMAIN sigs \ Unsigned(sigs), Superseded)
            BY <2>1 DEF UpdateInvoice
        <3>2. \A i \in 1..Len(sigs) :
                 sigs'[i] = IF sigs[i].signed THEN Superseded(sigs[i]) ELSE sigs[i]
            BY <3>1 DEF Changed, Unsigned
        <3>3. \A i \in 1..Len(sigs) : IF sigs[i].signed THEN sigs'[i].state = "SUPERSEDED"
                                       ELSE sigs'[i] = sigs[i]
            BY <3>2, RowFields
        <3> QED
            BY <1>2, <3>3 DEF ChainOK, SignedInForce, Live
    <2>2. CASE status \notin ApprovalStarted
        BY <2>2 DEF UpdateInvoice, ChainOK, SignedInForce, Live
    <2> QED
        BY <2>1, <2>2
<1>7. status' \notin Approved \cup ChainStatus
    <2>1. CASE status \in ApprovalStarted
        <3>1. status' \in {"VALIDATION_PENDING", "CANCELLED"}
            BY <2>1 DEF UpdateInvoice, MoveTo
        <3> QED
            BY <3>1, StageTypes DEF Intake, Gone
    <2>2. CASE status \notin ApprovalStarted
        BY <2>2 DEF UpdateInvoice, ApprovalStarted
    <2> QED
        BY <2>1, <2>2
<1> QED
    BY <1>5, <1>6, <1>7 DEF ChainOK, Staffed, ReviewerIsLast, NamesFit, StatusFits

\* The chain is inductive, as long as PATCH /:id/status does not put an invoice
\* into PENDING_ACCOUNTING.
LEMMA ChainStep ==
    ASSUME "PENDING_ACCOUNTING" \notin PatchedStatuses,
           TypeOK, RowsOrdered, Ordinary => ChainOK, [Next]_vars
    PROVE  Ordinary' => ChainOK'
<1> SUFFICES ASSUME Ordinary'
             PROVE  ChainOK'
    OBVIOUS
<1>1. CASE UNCHANGED vars
    <2>1. Ordinary
        BY <1>1 DEF Ordinary, Live, Unsigned, Workflow, vars
    <2> QED
        BY <1>1, <2>1, RowsAlone DEF vars
<1>2. CASE Next /\ (DeleteInvoice \/ ReprocessInvoice)
    <2>1. sigs' = <<>> /\ status' \in {"DELETED", "VALIDATION_PENDING", "CANCELLED"}
        BY <1>2 DEF DeleteInvoice, ReprocessInvoice, MoveTo
    <2> QED
        BY <2>1, RowsCleared, StageTypes DEF Intake, Gone
<1>3. CASE Next /\ ~(DeleteInvoice \/ ReprocessInvoice)
    <2>1. Ordinary /\ ChainOK
        BY <1>3, RowsStep, OddStaysOdd
    <2>2. CASE RequestApproval
        BY <2>1, <2>2, ChainStarted DEF RequestApproval
    <2>3. ASSUME NEW u \in Users, ApproveInvoice(u)
          PROVE  ChainOK'
        BY <2>1, <2>3, ChainSigned
    <2>4. ASSUME NEW u \in Users, RejectInvoice(u)
          PROVE  ChainOK'
        <3>1. UNCHANGED <<content, history>>
            BY <2>4 DEF RejectInvoice
        <3> QED
            BY <2>1, <2>4, <3>1, ChainRejected, ChainRejectedFromAccounting DEF RejectInvoice
    <2>5. ASSUME NEW u \in Users, ReturnInvoice(u)
          PROVE  ChainOK'
        BY <2>1, <2>5, ChainReturned
    <2>6. CASE BeginValidation
        BY <2>1, <2>6, RowsAlone DEF BeginValidation, content, history
    <2>7. CASE FinishValidation
        <3>1. \/ MoveTo("EXCEPTION_FLAGGED", approver) /\ UNCHANGED <<sigs, routed>>
              \/ MoveTo("VALIDATION_PENDING", approver) /\ UNCHANGED <<sigs, routed>>
              \/ StartChain
            BY <2>7 DEF FinishValidation
        <3>2. UNCHANGED content /\ revision' = revision
            BY <2>7 DEF FinishValidation, content
        <3>3. ASSUME NEW s \in Intake, MoveTo(s, approver)
              PROVE  status' \notin Approved \cup ChainStatus
            BY <3>3, StageTypes DEF MoveTo, Gone
        <3> QED
            BY <2>1, <3>1, <3>2, <3>3, RowsAlone, ChainStarted DEF Intake
    <2>8. CASE FinishNonPayable
        <3>1. status' = "CANCELLED"
            BY <2>8 DEF FinishNonPayable, MoveTo
        <3> QED
            BY <2>1, <2>8, <3>1, RowsAlone, StageTypes
               DEF FinishNonPayable, Gone, content, history
    <2>9. CASE HandleException
        <3>1. status' \in {status, "VALIDATION_PENDING"}
            BY <2>9 DEF HandleException, MoveTo
        <3>2. sigs' = sigs /\ UNCHANGED <<revision, routed>>
            BY <2>9 DEF HandleException, content, history
        <3> QED
            BY <2>1, <3>1, <3>2, RowsAlone, StageTypes DEF Intake
    <2>10. CASE AutoResolve
        BY <2>1, <2>10, RowsAlone DEF AutoResolve, content, history
    <2>11. CASE UpdateInvoice
        BY <2>1, <2>11, ChainUpdated
    <2>12. CASE UpdateInvoiceStatus
        <3>1. status' \in PatchedStatuses \cup {status}
            BY <2>12 DEF UpdateInvoiceStatus, MoveTo
        <3> QED
            BY <2>1, <2>12, <3>1, RowsAlone DEF UpdateInvoiceStatus, content, history
    <2>13. ASSUME NEW u \in Users, RequestCancellation(u)
           PROVE  ChainOK'
        BY <2>1, <2>13, RowsAlone DEF RequestCancellation, content, history
    <2>14. ASSUME NEW u \in Users, CancelInvoice(u)
           PROVE  ChainOK'
        <3>1. status' = "CANCELLED"
            BY <2>14 DEF CancelInvoice, MoveTo
        <3> QED
            BY <2>1, <2>14, <3>1, RowsAlone, StageTypes
               DEF CancelInvoice, Gone, content, history
    <2>15. CASE PostInvoice
        <3>1. status' \in {"IN_PAYMENT", "CANCELLED"}
            BY <2>15 DEF PostInvoice, MoveTo
        <3> QED
            BY <2>1, <2>15, <3>1, RowsAlone, StageTypes
               DEF PostInvoice, Gone, content, history
    <2>16. CASE ReExtractInvoice
        <3>1. status' \in {status, "VALIDATION_PENDING"}
            BY <2>16 DEF ReExtractInvoice, MoveTo
        <3>2. sigs' = sigs /\ UNCHANGED <<revision, routed>>
            BY <2>16 DEF ReExtractInvoice
        <3> QED
            BY <2>1, <3>1, <3>2, RowsAlone, StageTypes DEF Intake
    <2> QED
        BY <1>3, <2>2, <2>3, <2>4, <2>5, <2>6, <2>7, <2>8, <2>9, <2>10, <2>11, <2>12,
           <2>13, <2>14, <2>15, <2>16 DEF Next
<1> QED
    BY <1>1, <1>2, <1>3

\* The invariant holds.
LEMMA ApprovalInvariant ==
    ASSUME "PENDING_ACCOUNTING" \notin PatchedStatuses
    PROVE  Spec => []ApprovalInv
<1>1. Init => ApprovalInv
    <2>1. ASSUME Init PROVE status \in Status
        BY <2>1 DEF Init, Status, Approved, Intake
    <2>2. ASSUME Init PROVE TypeOK
        BY <2>1, <2>2, TiersAssumption DEF Init, TypeOK
    <2>3. ASSUME Init PROVE RowsOrdered
        BY <2>3 DEF Init, RowsOrdered
    <2>4. ASSUME Init, Ordinary PROVE ChainOK
        <3>1. status = "RECEIVED" /\ Workflow(sigs) = {} /\ Live(sigs) = {} /\ DOMAIN sigs = {}
            BY <2>4 DEF Init, Ordinary, Workflow, Live
        <3> QED
            BY <3>1, StageTypes DEF ChainOK, Staffed, SignedInForce, ReviewerIsLast, NamesFit,
               StatusFits, Intake
    <2> QED
        BY <2>2, <2>3, <2>4 DEF ApprovalInv
<1>2. ApprovalInv /\ [Next]_vars => ApprovalInv'
    BY TypeStep, OrderStep, ChainStep DEF ApprovalInv
<1> QED
    BY <1>1, <1>2, PTL DEF Spec

\* A signature never stands above a missing one of this revision, if
\* updateInvoiceStatus puts no invoice into PENDING_ACCOUNTING, where approveInvoice
\* would sign for roles nobody asked.
THEOREM SignedInOrder ==
    ASSUME "PENDING_ACCOUNTING" \notin PatchedStatuses
    PROVE  Spec => []InOrder
<1>1. ApprovalInv => InOrder
    BY DEF ApprovalInv, ChainOK, InOrder
<1> QED
    BY <1>1, ApprovalInvariant, PTL

\* An invoice in Accounting is signed by every role its amount asked for when
\* approval was last requested, whatever was written over it by edits and by new
\* readings of the document, if updateInvoiceStatus does not put it there.
THEOREM ApprovedIsSigned ==
    ASSUME PatchedStatuses \cap Approved = {}
    PROVE  Spec => []ChainComplete
<1>1. ASSUME ApprovalInv, status \in Approved, Ordinary, NEW r \in Asked
      PROVE  r \in SignedRoles
    <2>1. ChainOK /\ TypeOK
        BY <1>1 DEF ApprovalInv
    <2>2. PICK i \in Workflow(sigs) : sigs[i].role = r
        BY <1>1, <2>1 DEF ChainOK, Staffed, StatusFits
    <2>3. sigs[i].signed
        BY <1>1, <2>1 DEF ChainOK, StatusFits
    <2> QED
        BY <2>2, <2>3 DEF SignedRoles, Unsigned
<1>2. ApprovalInv => ChainComplete
    BY <1>1 DEF ChainComplete, Asked
<1>3. Spec => []ApprovalInv
    BY ApprovalInvariant DEF Approved
<1> QED
    BY <1>2, <1>3, PTL

\* Somebody can always sign, if each role that may be asked has a person and
\* updateInvoiceStatus writes no status of the chain.
THEOREM ChainHasASigner ==
    ASSUME PatchedStatuses \cap ({"PENDING_ACCOUNTING"} \cup ChainStatus) = {},
           \A t \in Tiers : \A k \in 1..(t + 1) : \E u \in Users : RoleOf[u] = Chain[k]
    PROVE  Spec => []StageCanMove
<1>1. ASSUME ApprovalInv, status \in ChainStatus, Ordinary
      PROVE  \E u \in Users : \E i \in ForUser(sigs, u) : MaySign(sigs, i, u)
    <2>1. ChainOK /\ TypeOK
        BY <1>1 DEF ApprovalInv
    <2> DEFINE left == Workflow(sigs) \cap Unsigned(sigs)
               i == Earliest(left)
    <2>2. Workflow(sigs) \subseteq Nat /\ Workflow(sigs) \subseteq DOMAIN sigs
        BY <2>1, RowsAreRows
    <2>3. left # {} /\ left \subseteq Nat
        BY <1>1, <2>1, <2>2 DEF ChainOK, StatusFits, Unsigned
    <2>4. i \in left /\ \A j \in left : i <= j
        BY <2>3, FirstExists
    <2> HIDE DEF i
    <2>5. /\ i \in Workflow(sigs) /\ i \in Unsigned(sigs) /\ i \in DOMAIN sigs
          /\ ~sigs[i].signed
        BY <2>2, <2>4 DEF Unsigned
    <2>6. InTurn(sigs, i)
        <3> SUFFICES ASSUME NEW j \in Workflow(sigs), j < i
                     PROVE  sigs[j].signed
            BY DEF InTurn
        <3>1. j \notin left
            BY <2>2, <2>4, <2>5
        <3> QED
            BY <2>2, <3>1 DEF Unsigned
    <2>7. sigs[i].role \in Asked
        BY <2>1, <2>5 DEF ChainOK, Staffed, ReviewerIsLast
    <2>8. \E u \in Users : RoleOf[u] = sigs[i].role
        <3>1. routed \in Tiers
            BY <2>1 DEF TypeOK
        <3>2. PICK k \in 1..(routed + 1) : sigs[i].role = RouteOf(routed)[k]
            BY <2>7, <3>1, RouteOfFacts DEF Asked
        <3>3. sigs[i].role = Chain[k]
            BY <3>1, <3>2, RouteBegins
        <3> QED
            BY <3>1, <3>3
    <2>9. PICK u \in Users : /\ RoleOf[u] = sigs[i].role
                             /\ sigs[i].by \in {u, NoOne}
        <3>1. CASE sigs[i].by = NoOne
            BY <2>8, <3>1
        <3>2. CASE sigs[i].by # NoOne
            <4>1. sigs[i].role # Reviewer
                BY <2>1, <2>7, AskedFacts, RouteFacts
            <4> QED
                BY <2>1, <2>5, <3>2, <4>1 DEF ChainOK, NamesFit
        <3> QED
            BY <3>1, <3>2
    <2>10. i \in ForUser(sigs, u)
        BY <2>5, <2>9 DEF ForUser, OfRole
    <2> QED
        BY <2>6, <2>9, <2>10 DEF MaySign
<1>2. ApprovalInv => StageCanMove
    BY <1>1 DEF StageCanMove
<1>3. Spec => []ApprovalInv
    BY ApprovalInvariant
<1> QED
    BY <1>2, <1>3, PTL
=============================================================================
