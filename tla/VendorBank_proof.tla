-------------------------- MODULE VendorBank_proof --------------------------
(* Theorems about VendorBank, for every number of people, requests, details, *)
(* versions and handlers that run at a time.                                 *)
EXTENDS VendorBank, TLAPS

Steps == {"idle", "approve", "reject", "ownRequests", "update", "latest", "supersede",
          "create", "pending", "match"}

\* The types TypeOK states, with the rows and the handlers as functions.
RequestsTyped ==
  request \in [Requests -> [status : Status, value : Values \cup {None},
                            by : Users \cup {None}, reviewer : Users \cup {None}]]
HandlerState ==
  [at : Steps, user : Users \cup {None}, subject : Requests \cup {None},
   value : Values \cup {None}, latest : Nat, matching : SUBSET Requests]
HandlersTyped == handler \in [Handlers -> HandlerState]

\* A filed row says who asks for which details, and a decided one who decided.
RowOK(r) ==
  /\ request[r].status = "none" <=> request[r].by = None
  /\ request[r].status \in {"APPROVED", "REJECTED"} <=> request[r].reviewer # None
  /\ request[r].status # "none" => request[r].value \in Values

\* Filed by somebody other than u.
FiledByOther(r, u) == request[r].status # "none" /\ request[r].by # u

\* What a handler in state t carries from one of its statements to the next:
\* the person it acts for, the details to write, and requests of other people.
Carries(t) ==
  /\ t.at \in {"approve", "reject"} =>
       t.user \in Users /\ t.subject \in Requests /\ FiledByOther(t.subject, t.user)
  /\ t.at \in {"ownRequests", "update", "pending", "match"} =>
       t.user \in Users /\ t.value \in Values
  /\ t.user # None => t.value \in Values \/ t.at \in {"approve", "reject"}
  /\ t.at # "match" => t.matching = {}
  /\ \A r \in t.matching : FiledByOther(r, t.user)

BankInv ==
  /\ details \in Values
  /\ RequestsTyped /\ HandlersTyped
  /\ \A r \in Requests : RowOK(r)
  /\ \A h \in Handlers : Carries(handler[h])
  /\ TwoPersons

\* The requester of a filed row never changes.
RequestersKept ==
  \A r \in Requests, u \in Users \cup {None} : FiledByOther(r, u) => FiledByOther(r, u)'

\* A handler that fails or is done carries nothing.
LEMMA IdleCarries == Idle \in HandlerState /\ Carries(Idle)
  BY DEF Idle, HandlerState, Steps, Carries

\* A step that moves handler h to state t, and no other handler, keeps what
\* the others carry.
LEMMA HandlerMoves ==
  ASSUME BankInv, RequestersKept, NEW h \in Handlers, NEW t \in HandlerState,
         handler' = [handler EXCEPT ![h] = t]
  PROVE  /\ HandlersTyped' /\ handler'[h] = t
         /\ \A g \in Handlers \ {h} : Carries(handler[g])'
<1>1. HandlersTyped' /\ handler'[h] = t
  BY DEF BankInv, HandlersTyped
<1>2. ASSUME NEW g \in Handlers \ {h}
      PROVE  Carries(handler[g])'
  <2>1. handler'[g] = handler[g] /\ Carries(handler[g]) /\ handler[g] \in HandlerState
    BY DEF BankInv, HandlersTyped
  <2> QED
    BY <2>1 DEF Carries, RequestersKept, HandlerState
<1> QED
  BY <1>1, <1>2

\* The first state.
LEMMA BankInit == Init => BankInv
  BY BankAssumption
  DEF Init, BankInv, RequestsTyped, HandlersTyped, Steps, Status, NoRequest, Idle, RowOK,
      HandlerState, Carries, TwoPersons

\* Filing a request.
LEMMA RequestStep ==
  ASSUME BankInv, NEW u \in Users, NEW r \in Requests, NEW v \in Values, RequestChange(u, r, v)
  PROVE  BankInv'
<1> USE BankAssumption DEF RequestChange
<1>1. UNCHANGED <<details, handler>>
  OBVIOUS
<1>2. RequestsTyped' /\ HandlersTyped' /\ \A q \in Requests : RowOK(q)'
  BY DEF BankInv, RequestsTyped, HandlersTyped, Status, RowOK
<1>3. RequestersKept
  BY DEF BankInv, RequestsTyped, RequestersKept, FiledByOther
<1>4. TwoPersons'
  BY DEF BankInv, RequestsTyped, TwoPersons
<1>5. ASSUME NEW h \in Handlers
      PROVE  Carries(handler[h])'
  <2>1. handler'[h] = handler[h] /\ Carries(handler[h]) /\ handler[h] \in HandlerState
    BY DEF BankInv, HandlersTyped
  <2> QED
    BY <1>3, <2>1 DEF Carries, RequestersKept, HandlerState
<1> QED
  BY <1>1, <1>2, <1>4, <1>5 DEF BankInv

\* A decision on a request that somebody else filed.
LEMMA ReviewedStep ==
  ASSUME BankInv, NEW r \in Requests, NEW u \in Users, FiledByOther(r, u),
         NEW s \in {"APPROVED", "REJECTED"}, request' = Reviewed(r, s, u)
  PROVE  /\ RequestsTyped' /\ RequestersKept /\ TwoPersons'
         /\ \A q \in Requests : RowOK(q)'
<1> USE BankAssumption DEF Reviewed, BankInv, RequestsTyped
<1>1. RequestsTyped'
  <2>1. request' = [request EXCEPT ![r] = [request[r] EXCEPT !.status = s, !.reviewer = u]]
    OBVIOUS
  <2>2. request[r] \in [status : Status, value : Values \cup {None},
                        by : Users \cup {None}, reviewer : Users \cup {None}]
    OBVIOUS
  <2>3. [request[r] EXCEPT !.status = s, !.reviewer = u]
          \in [status : Status, value : Values \cup {None},
               by : Users \cup {None}, reviewer : Users \cup {None}]
    BY <2>2 DEF Status
  <2> QED
    BY <2>1, <2>3
<1>2. RequestersKept
  BY DEF RequestersKept, FiledByOther
<1>3. TwoPersons'
  BY DEF FiledByOther, TwoPersons
<1>4. \A q \in Requests : RowOK(q)'
  BY DEF RowOK, FiledByOther
<1> QED
  BY <1>1, <1>2, <1>3, <1>4

\* A handler that moves on without a decision: what is left to show is that it
\* writes good details and carries good values.
LEMMA HandlerStep ==
  ASSUME BankInv, NEW h \in Handlers, NEW t \in HandlerState, Carries(t),
         handler' = [handler EXCEPT ![h] = t],
         request' = request, details' \in Values
  PROVE  BankInv'
<1>1. RequestersKept
  BY DEF RequestersKept, FiledByOther
<1>2. HandlersTyped' /\ handler'[h] = t /\ \A g \in Handlers \ {h} : Carries(handler[g])'
  BY <1>1, HandlerMoves
<1>3. Carries(handler[h])'
  BY <1>2 DEF Carries, FiledByOther
<1> QED
  BY <1>2, <1>3 DEF BankInv, RequestsTyped, RowOK, TwoPersons

\* A handler that decides a request of somebody else.
LEMMA DecideStep ==
  ASSUME BankInv, NEW h \in Handlers, NEW t \in HandlerState,
         NEW r \in Requests, NEW u \in Users, FiledByOther(r, u),
         NEW s \in {"APPROVED", "REJECTED"}, request' = Reviewed(r, s, u),
         handler' = [handler EXCEPT ![h] = t],
         RequestersKept => Carries(handler[h])',
         details' \in Values
  PROVE  BankInv'
<1>1. /\ RequestsTyped' /\ RequestersKept /\ TwoPersons'
      /\ \A q \in Requests : RowOK(q)'
  BY ReviewedStep
<1>2. HandlersTyped' /\ handler'[h] = t /\ \A g \in Handlers \ {h} : Carries(handler[g])'
  BY <1>1, HandlerMoves
<1> QED
  BY <1>1, <1>2 DEF BankInv

\* Reading a request, and deciding it.
LEMMA ReviewStep ==
  ASSUME BankInv, NEW h \in Handlers,
         \/ \E u \in Users, r \in Requests : BeginReview(h, u, r)
         \/ Approve(h)
         \/ Reject(h)
  PROVE  BankInv'
<1>1. ASSUME NEW u \in Users, NEW r \in Requests, BeginReview(h, u, r)
      PROVE  BankInv'
  <2>1. PICK at \in {"approve", "reject"} :
          handler' = [handler EXCEPT ![h] = [Idle EXCEPT !.at = at, !.user = u, !.subject = r]]
    BY <1>1 DEF BeginReview
  <2> DEFINE t == [Idle EXCEPT !.at = at, !.user = u, !.subject = r]
  <2>2. t \in HandlerState
    BY DEF Idle, HandlerState, Steps
  <2>3. t.at = at /\ t.user = u /\ t.subject = r /\ t.matching = {}
    BY DEF Idle
  <2> HIDE DEF t
  <2>4. Carries(t)
    BY <1>1, <2>3 DEF Carries, BeginReview, FiledByOther
  <2> QED
    BY <1>1, <2>1, <2>2, <2>4, HandlerStep DEF BeginReview, BankInv, t
<1>2. CASE Approve(h) \/ Reject(h)
  <2>1. /\ handler[h].subject \in Requests /\ handler[h].user \in Users
        /\ FiledByOther(handler[h].subject, handler[h].user)
    BY <1>2 DEF Approve, Reject, BankInv, Carries
  <2>2. PICK s \in {"APPROVED", "REJECTED"} :
          request' = Reviewed(handler[h].subject, s, handler[h].user)
    BY <1>2 DEF Approve, Reject
  <2>3. details' \in Values
    BY <1>2, <2>1 DEF Approve, Reject, BankInv, RowOK, FiledByOther
  <2>4. PICK t \in {Idle, [Idle EXCEPT !.at = "latest"]} :
          handler' = [handler EXCEPT ![h] = t]
    BY <1>2 DEF Approve, Reject, NextStatement
  <2>5. t \in HandlerState
    BY <2>4 DEF Idle, HandlerState, Steps
  <2>6. t.at \in {"idle", "latest"} /\ t.user = None /\ t.matching = {}
    BY <2>4 DEF Idle
  <2>7. handler'[h] = t
    BY <2>4 DEF BankInv, HandlersTyped
  <2>8. Carries(handler[h])'
    BY <2>6, <2>7 DEF Carries
  <2> QED
    BY <2>1, <2>2, <2>3, <2>4, <2>5, <2>8, DecideStep
<1> QED
  BY <1>1, <1>2

\* A Supervisor's own update, and the requests of others that it answers.
LEMMA UpdateStep ==
  ASSUME BankInv, NEW h \in Handlers,
         \/ \E u \in Users, v \in Values : BeginUpdate(h, u, v)
         \/ CheckOwnRequests(h) \/ UpdateDetails(h) \/ ReadPending(h) \/ ApproveMatching(h)
  PROVE  BankInv'
<1>1. PICK mine \in HandlerState : mine = handler[h] /\ Carries(mine)
  BY DEF BankInv, HandlersTyped
<1> details \in Values
  BY DEF BankInv
<1>2. ASSUME NEW u \in Users, NEW v \in Values, BeginUpdate(h, u, v)
      PROVE  BankInv'
  <2> DEFINE t == [Idle EXCEPT !.at = "ownRequests", !.user = u, !.value = v]
  <2>1. t \in HandlerState
    BY DEF Idle, HandlerState, Steps
  <2>2. t.at = "ownRequests" /\ t.user = u /\ t.value = v /\ t.matching = {}
    BY DEF Idle
  <2>3. handler' = [handler EXCEPT ![h] = t] /\ UNCHANGED <<details, request>>
    BY <1>2 DEF BeginUpdate
  <2> HIDE DEF t
  <2>4. Carries(t)
    BY <2>2 DEF Carries
  <2> QED
    BY <1>1, <2>1, <2>3, <2>4, HandlerStep
<1>3. CASE CheckOwnRequests(h)
  <2>1. PICK t \in {Idle, [mine EXCEPT !.at = "update"]} : handler' = [handler EXCEPT ![h] = t]
    BY <1>3, <1>1 DEF CheckOwnRequests
  <2>2. UNCHANGED <<details, request>> /\ mine.at = "ownRequests"
    BY <1>3, <1>1 DEF CheckOwnRequests
  <2>3. t \in HandlerState /\ Carries(t)
    BY <1>1, <2>1, <2>2, IdleCarries DEF HandlerState, Steps, Carries
  <2> QED
    BY <1>1, <2>1, <2>2, <2>3, HandlerStep
<1>4. CASE UpdateDetails(h)
  <2> DEFINE t == [mine EXCEPT !.at = "latest"]
  <2>1. handler' = [handler EXCEPT ![h] = t]
    BY <1>4, <1>1 DEF UpdateDetails, NextStatement
  <2>2. request' = request /\ mine.at = "update" /\ details' = mine.value
    BY <1>4, <1>1 DEF UpdateDetails
  <2>3. t \in HandlerState /\ Carries(t)
    BY <1>1, <2>2 DEF HandlerState, Steps, Carries
  <2>4. details' \in Values
    BY <1>1, <2>2 DEF Carries
  <2> HIDE DEF t
  <2> QED
    BY <2>1, <2>2, <2>3, <2>4, HandlerStep
<1>5. CASE ReadPending(h)
  <2> DEFINE found == RequestedByOthers(mine.user, mine.value)
  <2>1. found \subseteq Requests /\ \A r \in found : FiledByOther(r, mine.user)
    BY DEF RequestedByOthers, Pending, FiledByOther
  <2>2. mine.at = "pending" /\ UNCHANGED <<details, request>>
    BY <1>5, <1>1 DEF ReadPending
  <2>3. PICK t \in {Idle, [mine EXCEPT !.at = "match", !.matching = found]} :
          handler' = [handler EXCEPT ![h] = t]
    BY <1>5, <1>1 DEF ReadPending
  <2> HIDE DEF found
  <2>4. t \in HandlerState
    BY <1>1, <2>1, <2>3, IdleCarries DEF HandlerState, Steps
  <2>5. Carries(t)
    <3>1. CASE t = Idle
      BY <3>1, IdleCarries
    <3>2. CASE t = [mine EXCEPT !.at = "match", !.matching = found]
      <4>1. t.at = "match" /\ t.user = mine.user /\ t.value = mine.value /\ t.matching = found
        BY <1>1, <3>2 DEF HandlerState
      <4> QED
        BY <1>1, <2>1, <2>2, <4>1 DEF Carries
    <3> QED
      BY <2>3, <3>1, <3>2
  <2> QED
    BY <1>1, <2>2, <2>3, <2>4, <2>5, HandlerStep
<1>6. CASE ApproveMatching(h)
  <2>1. mine.at = "match" /\ details' = details
    BY <1>6, <1>1 DEF ApproveMatching
  <2>2. PICK r \in handler[h].matching :
          /\ request' = Reviewed(r, "APPROVED", handler[h].user)
          /\ handler' = [handler EXCEPT ![h] =
               IF @.matching = {r} THEN Idle
               ELSE [@ EXCEPT !.matching = handler[h].matching \ {r}]]
    BY <1>6 DEF ApproveMatching
  <2> DEFINE rest == [handler[h] EXCEPT !.matching = handler[h].matching \ {r}]
             t == IF handler[h].matching = {r} THEN Idle ELSE rest
  <2>3. handler' = [handler EXCEPT ![h] = t] /\ t \in {Idle, rest}
    BY <2>2
  <2>8. /\ rest \in HandlerState /\ rest.at = mine.at /\ rest.user = mine.user
        /\ rest.value = mine.value /\ rest.matching = mine.matching \ {r}
    BY <1>1 DEF HandlerState
  <2> HIDE DEF t, rest
  <2>4. r \in Requests /\ mine.user \in Users /\ FiledByOther(r, mine.user)
    BY <1>1, <2>1, <2>2 DEF HandlerState, Carries
  <2>5. t \in HandlerState
    BY <2>3, <2>8, IdleCarries
  <2>6. handler'[h] = t
    BY <2>3 DEF BankInv, HandlersTyped
  <2>7. ASSUME RequestersKept
        PROVE  Carries(handler[h])'
    <3>1. CASE t = Idle
      BY <2>6, <3>1 DEF Carries, Idle
    <3>2. CASE t = rest
      <4>1. /\ t.at = "match" /\ t.user = mine.user /\ t.value = mine.value
            /\ t.matching = mine.matching \ {r}
        BY <2>1, <2>8, <3>2
      <4>2. \A q \in mine.matching : q \in Requests /\ FiledByOther(q, mine.user)'
        BY <1>1, <2>4, <2>7 DEF RequestersKept, HandlerState, Carries
      <4>3. mine.value \in Values
        BY <1>1, <2>1 DEF Carries
      <4> QED
        BY <2>4, <2>6, <4>1, <4>2, <4>3 DEF Carries
    <3> QED
      BY <2>3, <3>1, <3>2
  <2> QED
    BY <1>1, <2>1, <2>2, <2>3, <2>4, <2>5, <2>7, DecideStep
<1> QED
  BY <1>2, <1>3, <1>4, <1>5, <1>6

\* Recording a version, giving up, and a Supervisor's unrecorded patch.
LEMMA RecordStep ==
  ASSUME BankInv, NEW h \in Handlers,
         ReadLatest(h) \/ SupersedeActive(h) \/ CreateVersion(h) \/ Fail(h),
         Len(versions) \in Nat
  PROVE  BankInv'
<1>1. UNCHANGED <<details, request>> /\ details \in Values
  BY DEF ReadLatest, SupersedeActive, CreateVersion, Fail, BankInv
<1>2. handler[h] \in HandlerState /\ Carries(handler[h])
  BY DEF BankInv, HandlersTyped
<1>3. \E t \in HandlerState : Carries(t) /\ handler' = [handler EXCEPT ![h] = t]
  <2>1. CASE ReadLatest(h)
    <3> DEFINE t == [handler[h] EXCEPT !.latest = Len(versions), !.at = "supersede"]
    <3>1. t \in HandlerState /\ Carries(t)
      BY <1>2, <2>1 DEF ReadLatest, HandlerState, Steps, Carries
    <3>2. handler' = [handler EXCEPT ![h] = t]
      BY <2>1 DEF ReadLatest, NextStatement, BankInv, HandlersTyped, HandlerState
    <3> HIDE DEF t
    <3> QED
      BY <3>1, <3>2
  <2>2. CASE SupersedeActive(h)
    <3> DEFINE t == [handler[h] EXCEPT !.at = "create"]
    <3>1. t \in HandlerState /\ Carries(t)
      BY <1>2, <2>2 DEF SupersedeActive, HandlerState, Steps, Carries
    <3>2. handler' = [handler EXCEPT ![h] = t]
      BY <2>2 DEF SupersedeActive, NextStatement
    <3> HIDE DEF t
    <3> QED
      BY <3>1, <3>2
  <2>3. CASE CreateVersion(h)
    <3> DEFINE t == [handler[h] EXCEPT !.at = "pending", !.latest = 0]
    <3>1. CASE handler' = [handler EXCEPT ![h] = Idle]
      BY <3>1, IdleCarries
    <3>2. CASE handler' # [handler EXCEPT ![h] = Idle]
      <4>1. handler[h].user # None /\ handler[h].at = "create"
        BY <2>3, <3>2 DEF CreateVersion
      <4>2. t \in HandlerState /\ Carries(t)
        BY <1>2, <4>1 DEF HandlerState, Steps, Carries
      <4>3. handler' = [handler EXCEPT ![h] = t]
        BY <2>3, <3>2 DEF CreateVersion
      <4> HIDE DEF t
      <4> QED
        BY <4>2, <4>3
    <3> QED
      BY <3>1, <3>2
  <2>4. CASE Fail(h)
    BY <2>4, IdleCarries DEF Fail
  <2> QED
    BY <2>1, <2>2, <2>3, <2>4
<1> QED
  BY <1>1, <1>3, HandlerStep

-----------------------------------------------------------------------------
(* Versions. *)

\* A handler about to create the version after the newest has superseded every
\* version there is.
ReadyToCreate(h) ==
  handler[h].at = "create" /\ handler[h].latest = Len(versions) =>
    \A n \in DOMAIN versions : versions[n] = "SUPERSEDED"

VersionInv ==
  /\ versions \in Seq({"ACTIVE", "SUPERSEDED"}) /\ Len(versions) <= MaxVersions
  /\ \A h \in Handlers : handler[h].latest <= Len(versions) /\ ReadyToCreate(h)
  /\ OnlyNewestActive

\* A step that leaves the versions alone, and lets no handler arrive at the
\* creation of one.
LEMMA VersionsStill ==
  ASSUME VersionInv, versions' = versions,
         \A h \in Handlers :
           \/ handler'[h] = handler[h]
           \/ /\ handler'[h].at # "create"
              /\ handler'[h].latest \in {0, handler[h].latest, Len(versions)}
  PROVE  VersionInv'
<1>1. Len(versions) \in Nat
  BY DEF VersionInv
<1> QED
  BY <1>1 DEF VersionInv, ReadyToCreate, OnlyNewestActive

\* Superseding every version, and creating one when no other was created since
\* the number was read.
LEMMA VersionStep ==
  ASSUME BankInv, VersionInv, NEW h \in Handlers,
         ReadLatest(h) \/ SupersedeActive(h) \/ CreateVersion(h)
  PROVE  VersionInv'
<1>1. \A g \in Handlers \ {h} : handler'[g] = handler[g]
  BY DEF BankInv, HandlersTyped, ReadLatest, SupersedeActive, CreateVersion
<1>2. handler[h] \in HandlerState
  BY DEF BankInv, HandlersTyped
<1>3. CASE ReadLatest(h)
  <2>1. handler'[h].at = "supersede" /\ handler'[h].latest = Len(versions)
    BY <1>2, <1>3 DEF ReadLatest, NextStatement, BankInv, HandlersTyped, HandlerState
  <2> QED
    BY <1>1, <1>3, <2>1, VersionsStill DEF ReadLatest
<1>4. CASE SupersedeActive(h)
  <2>1. /\ versions' \in Seq({"ACTIVE", "SUPERSEDED"}) /\ Len(versions') = Len(versions)
        /\ \A n \in DOMAIN versions' : versions'[n] = "SUPERSEDED"
    BY <1>4 DEF SupersedeActive, VersionInv
  <2>2. handler'[h].latest = handler[h].latest
    BY <1>2, <1>4 DEF SupersedeActive, BankInv, HandlersTyped, HandlerState
  <2>3. \A g \in Handlers : handler'[g].latest = handler[g].latest
    BY <1>1, <2>2
  <2> QED
    BY <2>1, <2>3 DEF VersionInv, ReadyToCreate, OnlyNewestActive
<1>5. CASE CreateVersion(h)
  <2>1. CASE UNCHANGED versions /\ handler' = [handler EXCEPT ![h] = Idle]
    <3>1. handler'[h] = Idle
      BY <2>1 DEF BankInv, HandlersTyped
    <3> QED
      BY <1>1, <2>1, <3>1, VersionsStill DEF Idle
  <2>2. CASE versions' # versions \/ handler' # [handler EXCEPT ![h] = Idle]
    <3>1. /\ ~(handler[h].latest < Len(versions)) /\ handler[h].at = "create"
          /\ Len(versions) < MaxVersions
          /\ versions' = Append(versions, "ACTIVE")
      BY <1>5, <2>2 DEF CreateVersion
    <3>2. handler[h].latest = Len(versions)
      BY <1>2, <3>1 DEF VersionInv, HandlerState
    <3>3. \A n \in DOMAIN versions : versions[n] = "SUPERSEDED"
      BY <3>1, <3>2 DEF VersionInv, ReadyToCreate
    <3>4. /\ versions' \in Seq({"ACTIVE", "SUPERSEDED"})
          /\ Len(versions') = Len(versions) + 1 /\ Len(versions) \in Nat
          /\ \A n \in DOMAIN versions' : versions'[n] = "ACTIVE" => n = Len(versions')
      BY <3>1, <3>3 DEF VersionInv
    <3>5. handler'[h].latest = 0 /\ handler'[h].at # "create"
      <4>1. \/ handler' = [handler EXCEPT ![h] = Idle]
            \/ handler' = [handler EXCEPT ![h] = [@ EXCEPT !.at = "pending", !.latest = 0]]
        BY <1>5 DEF CreateVersion
      <4>2. CASE handler' = [handler EXCEPT ![h] = Idle]
        BY <4>2 DEF Idle, BankInv, HandlersTyped
      <4>3. CASE handler' = [handler EXCEPT ![h] = [@ EXCEPT !.at = "pending", !.latest = 0]]
        BY <1>2, <4>3 DEF BankInv, HandlersTyped, HandlerState
      <4> QED
        BY <4>1, <4>2, <4>3
    <3>6. \A g \in Handlers :
            /\ handler'[g].latest <= Len(versions')
            /\ handler'[g].at = "create" => handler'[g].latest # Len(versions')
      BY <1>1, <3>4, <3>5 DEF VersionInv, BankInv, HandlersTyped, HandlerState
    <3> QED
      BY <3>1, <3>4, <3>6, BankAssumption DEF VersionInv, ReadyToCreate, OnlyNewestActive
  <2> QED
    BY <2>1, <2>2
<1> QED
  BY <1>3, <1>4, <1>5

\* Every step, or none, keeps both invariants.
LEMMA BankStep == BankInv /\ VersionInv /\ [Next]_vars => BankInv' /\ VersionInv'
<1> SUFFICES ASSUME BankInv, VersionInv, [Next]_vars
             PROVE  BankInv' /\ VersionInv'
  OBVIOUS
<1>1. Len(versions) \in Nat
  BY DEF VersionInv
<1>2. CASE UNCHANGED vars
  <2>1. BankInv'
    BY <1>2 DEF vars, BankInv, RequestsTyped, HandlersTyped, RowOK, Carries, FiledByOther,
                TwoPersons
  <2> QED
    BY <1>2, <2>1, VersionsStill DEF vars
<1>3. ASSUME NEW u \in Users, NEW r \in Requests, NEW v \in Values, RequestChange(u, r, v)
      PROVE  BankInv' /\ VersionInv'
  BY <1>3, RequestStep, VersionsStill DEF RequestChange
<1>4. ASSUME NEW v \in Values, PatchVendor(v)
      PROVE  BankInv' /\ VersionInv'
  <2>1. BankInv'
    BY <1>4 DEF PatchVendor, BankInv, RequestsTyped, HandlersTyped, RowOK, Carries,
                FiledByOther, TwoPersons
  <2> QED
    BY <1>4, <2>1, VersionsStill DEF PatchVendor
<1>5. ASSUME NEW h \in Handlers, versions' = versions,
             \/ \E u \in Users, r \in Requests : BeginReview(h, u, r)
             \/ Approve(h) \/ Reject(h)
             \/ \E u \in Users, v \in Values : BeginUpdate(h, u, v)
             \/ CheckOwnRequests(h) \/ UpdateDetails(h) \/ ReadPending(h) \/ ApproveMatching(h)
             \/ Fail(h)
      PROVE  VersionInv'
  <2>1. \A g \in Handlers \ {h} : handler'[g] = handler[g]
    BY <1>5 DEF BeginReview, Approve, Reject, BeginUpdate, CheckOwnRequests, UpdateDetails,
                ReadPending, ApproveMatching, Fail, BankInv, HandlersTyped
  <2>2. handler'[h].at # "create" /\ handler'[h].latest \in {0, handler[h].latest}
    <3>1. handler \in [Handlers -> HandlerState] /\ handler[h] \in HandlerState
      BY DEF BankInv, HandlersTyped
    <3>2. CASE handler' = [handler EXCEPT ![h] = Idle]
      BY <3>1, <3>2 DEF Idle
    <3>3. CASE (\E u \in Users, r \in Requests : BeginReview(h, u, r))
               \/ \E u \in Users, v \in Values : BeginUpdate(h, u, v)
      BY <3>1, <3>3 DEF BeginReview, BeginUpdate, Idle
    <3>4. CASE Approve(h) \/ Reject(h)
      BY <3>1, <3>4 DEF Approve, Reject, Idle, NextStatement
    <3>5. CASE CheckOwnRequests(h)
      BY <3>1, <3>5, <3>2 DEF CheckOwnRequests, HandlerState
    <3>6. CASE UpdateDetails(h)
      BY <3>1, <3>6 DEF UpdateDetails, HandlerState, NextStatement
    <3>7. CASE ReadPending(h)
      BY <3>1, <3>7, <3>2 DEF ReadPending, HandlerState
    <3>8. CASE ApproveMatching(h)
      <4>1. PICK r \in handler[h].matching :
              handler' = [handler EXCEPT ![h] =
                IF @.matching = {r} THEN Idle
                ELSE [@ EXCEPT !.matching = handler[h].matching \ {r}]]
        BY <3>8 DEF ApproveMatching
      <4>2. CASE handler[h].matching # {r}
        BY <3>1, <3>8, <4>1, <4>2 DEF ApproveMatching, HandlerState
      <4> QED
        BY <3>2, <4>1, <4>2
    <3>9. CASE Fail(h)
      BY <3>2, <3>9 DEF Fail
    <3> QED
      BY <1>5, <3>3, <3>4, <3>5, <3>6, <3>7, <3>8, <3>9
  <2> QED
    BY <1>5, <2>1, <2>2, VersionsStill
<1>6. CASE Review
  BY <1>5, <1>6, ReviewStep DEF Review, BeginReview, Approve, Reject
<1>7. CASE Update
  BY <1>5, <1>7, UpdateStep
  DEF Update, BeginUpdate, CheckOwnRequests, UpdateDetails, ReadPending, ApproveMatching
<1>8. CASE RecordVersion
  BY <1>1, <1>8, RecordStep, VersionStep DEF RecordVersion
<1>9. CASE \E h \in Handlers : Fail(h)
  BY <1>1, <1>5, <1>9, RecordStep DEF Fail
<1> QED
  BY <1>2, <1>3, <1>4, <1>6, <1>7, <1>8, <1>9 DEF Next

\* The invariants hold in every reachable state.
LEMMA BankKept == Spec => [](BankInv /\ VersionInv)
<1>1. Init => VersionInv
  BY BankAssumption DEF Init, Idle, VersionInv, ReadyToCreate, OnlyNewestActive
<1> QED
  BY <1>1, BankInit, BankStep, PTL DEF Spec

\* Details, versions, requests and handlers hold values of their types, and a
\* row is signed exactly when it is decided.
THEOREM BankTypes == Spec => []TypeOK
<1>1. BankInv /\ VersionInv => TypeOK
  <2> SUFFICES ASSUME BankInv, VersionInv
               PROVE  TypeOK
    OBVIOUS
  <2>1. \A h \in Handlers :
          handler[h] \in HandlerState /\ handler[h].latest \in 0..Len(versions)
    BY DEF BankInv, VersionInv, HandlersTyped, HandlerState
  <2>2. \A r \in Requests : RowOK(r)
    BY DEF BankInv
  <2> QED
    BY <2>1, <2>2
    DEF BankInv, VersionInv, RequestsTyped, RowOK, HandlerState, Steps, TypeOK
<1> QED
  BY <1>1, BankKept, PTL

\* However many changes are recorded at once, and wherever they break off, a
\* version that is ACTIVE is the newest one.
THEOREM ActiveIsNewest == Spec => []OnlyNewestActive
<1>1. VersionInv => OnlyNewestActive
  BY DEF VersionInv
<1> QED
  BY <1>1, BankKept, PTL

\* No change of bank details is approved by the person who asked for it.
THEOREM NobodyApprovesAlone == Spec => []TwoPersons
<1>1. BankInv => TwoPersons
  BY DEF BankInv
<1> QED
  BY <1>1, BankKept, PTL

-----------------------------------------------------------------------------
(* The record of a change. *)

\* What was asked, and by whom, stays as it was filed, and a request that has
\* been decided is never open again.
RequestsStay ==
  \A r \in Requests : request[r].status # "none" =>
    /\ request'[r].value = request[r].value /\ request'[r].by = request[r].by
    /\ request'[r].status \in {request[r].status, "APPROVED", "REJECTED"}

\* No version is taken back, and one that was superseded is not ACTIVE again.
VersionsStay ==
  /\ Len(versions') >= Len(versions)
  /\ \A n \in DOMAIN versions : versions[n] = "SUPERSEDED" => versions'[n] = "SUPERSEDED"

\* However reviews, updates and recordings interleave or break off, the rows an
\* auditor reads are neither rewritten nor reopened.
RecordStands == [][RequestsStay /\ VersionsStay]_vars

\* Filing and deciding write no other row, and not what a row asks for.
LEMMA RequestsKept == BankInv /\ Next => RequestsStay
<1> SUFFICES ASSUME BankInv, Next PROVE RequestsStay
  OBVIOUS
<1>1. CASE request' = request
  BY <1>1 DEF RequestsStay
<1>2. ASSUME NEW u \in Users, NEW r \in Requests, NEW v \in Values, RequestChange(u, r, v)
      PROVE  RequestsStay
  BY <1>2 DEF RequestChange, RequestsStay, BankInv, RequestsTyped
<1>3. ASSUME NEW r, NEW s \in {"APPROVED", "REJECTED"}, NEW u,
             request' = Reviewed(r, s, u)
      PROVE  RequestsStay
  BY <1>3 DEF Reviewed, RequestsStay, BankInv, RequestsTyped
<1>4. ASSUME NEW h \in Handlers, Approve(h) \/ Reject(h) \/ ApproveMatching(h)
      PROVE  RequestsStay
  BY <1>3, <1>4 DEF Approve, Reject, ApproveMatching
<1> QED
  BY <1>1, <1>2, <1>4
  DEF Next, PatchVendor, Review, BeginReview, Update, BeginUpdate, CheckOwnRequests,
      UpdateDetails, ReadPending, RecordVersion, ReadLatest, SupersedeActive,
      CreateVersion, Fail

\* Recording supersedes and appends.
LEMMA VersionsKept == VersionInv /\ Next => VersionsStay
<1> SUFFICES ASSUME VersionInv, Next PROVE VersionsStay
  OBVIOUS
<1>1. versions \in Seq({"ACTIVE", "SUPERSEDED"}) /\ Len(versions) \in Nat
  BY DEF VersionInv
<1>2. CASE versions' = versions
  BY <1>1, <1>2 DEF VersionsStay
<1>3. ASSUME NEW h \in Handlers, SupersedeActive(h)
      PROVE  VersionsStay
  <2>1. /\ Len(versions') = Len(versions)
        /\ \A n \in DOMAIN versions : versions'[n] = "SUPERSEDED"
    BY <1>1, <1>3 DEF SupersedeActive
  <2> QED
    BY <1>1, <2>1 DEF VersionsStay
<1>4. ASSUME versions' = Append(versions, "ACTIVE")
      PROVE  VersionsStay
  BY <1>1, <1>4 DEF VersionsStay
<1> QED
  BY <1>2, <1>3, <1>4
  DEF Next, RequestChange, PatchVendor, Review, BeginReview, Approve, Reject, Update,
      BeginUpdate, CheckOwnRequests, UpdateDetails, ReadPending, ApproveMatching,
      RecordVersion, ReadLatest, CreateVersion, Fail

\* Requests and versions are a record: what they say is only ever added to.
THEOREM RecordIsKept == Spec => RecordStands
<1>1. BankInv /\ VersionInv /\ [Next]_vars => [RequestsStay /\ VersionsStay]_vars
  BY RequestsKept, VersionsKept
<1> QED
  BY <1>1, BankKept, PTL DEF Spec, RecordStands
=============================================================================
