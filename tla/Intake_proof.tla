----------------------------- MODULE Intake_proof -----------------------------
(* Theorems about Intake, for every set of attachments, messages and files,  *)
(* every number of workers of each channel and every bound.                  *)
EXTENDS Intake, FiniteSetTheorems, TLAPS

States == {"live", "protected", "superseded"}
RowState == [file : Files, mail : Keys, locked : BOOLEAN, state : States]

ControllerSteps == {"received", "reading", "saving", "superseding"}
LockSteps == {"replacing", "committing"}
Steps == {"idle", "storing", "extracting", "locking", "finishing", "remembering",
          "downloading"} \cup LockSteps \cup ControllerSteps
TaskState == [at : Steps, key : Keys \cup {None}, part : Nat, parent : Nat]

\* What worker w handles in state t: an attachment, or a part of a message.
Handles(w, t) ==
  /\ t.key \in Keys
  /\ IF w \in Controllers \cup {Poller}
     THEN t.key \in Inbox \cup Mails /\ t.part \in 1..Len(Parts[t.key])
     ELSE t.key \in Intakes

\* The states of a worker, with the rows rs: only the controllers skip the lock,
\* and a parent chosen under the lock is a copy of the file at hand.
WorkerOK(rs, w, t) ==
  /\ t.at # "idle" => Handles(w, t)
  /\ IF w \in Controllers THEN t.at \in ControllerSteps \cup {"idle"}
     ELSE t.at \notin ControllerSteps
  /\ t.parent <= Len(rs)
  /\ w \notin Controllers /\ t.at \notin LockSteps => t.parent = 0
  /\ t.at = "replacing" => t.parent # 0
  /\ t.at \in LockSteps /\ t.parent # 0 => rs[t.parent].file = FileFor(t)

RowsOK == rows \in Seq(RowState)
TasksOK ==
  task \in [Workers -> TaskState] /\ \A w \in Workers : WorkerOK(rows, w, task[w])

\* At most one transaction has a file, and one that found no copy is the only
\* one that can add a row under the lock.
Locks(w) == task[w].at \in LockSteps
LockedCopies(f) == {n \in Copies(f) : rows[n].locked}
LockOK ==
  /\ \A v, w \in Workers :
       Locks(v) /\ Locks(w) /\ FileFor(task[v]) = FileFor(task[w]) => v = w
  /\ \A w \in Workers : task[w].at = "committing" /\ task[w].parent = 0 =>
       LockedCopies(FileFor(task[w])) = {}

\* FirstCopyIsAlone without counting.
AloneOK ==
  \A f \in Files :
    \/ \E n \in Copies(f) : rows[n].state = "superseded"
    \/ \A m, n \in LockedCopies(f) : m = n

\* Downloads that recovery runs have started for an attachment.
Downloads(i) == {r \in Recoveries : task[r].at = "downloading" /\ task[r].key = i}
RetriesOK ==
  /\ retries \in [Intakes -> Nat]
  /\ \A i \in Intakes :
       \/ retries[i] = 0 /\ Downloads(i) = {}
       \/ retries[i] + Cardinality(Downloads(i)) < MaxRetries + Cardinality(Recoveries)
RestOK ==
  /\ uploads \in Seq(Intakes) /\ aged \in 0..Len(uploads)
  /\ terminal \subseteq Intakes /\ marked \subseteq Inbox /\ seen \subseteq marked
  /\ todo \in [Recoveries -> Seq(Intakes)]
  /\ deliveries \in 0..MaxDeliveries /\ faults \in 0..MaxFaults

IntakeInv == RowsOK /\ TasksOK /\ LockOK /\ AloneOK /\ RetriesOK /\ RestOK

\* Rows are added at the end; a row keeps what it was created with, and one
\* that is superseded stays so.
Grown(rs, more) ==
  /\ Len(rs) <= Len(more)
  /\ \A n \in 1..Len(rs) :
       /\ more[n].file = rs[n].file /\ more[n].mail = rs[n].mail
       /\ more[n].locked = rs[n].locked
       /\ rs[n].state = "superseded" => more[n].state = "superseded"

-----------------------------------------------------------------------------
(* Workers and files *)

\* What the constants are.
LEMMA Constants ==
  /\ FileOf \in [Intakes -> Files] /\ Parts \in [Inbox \cup Mails -> Seq(Files)]
  /\ Keys = Intakes \cup Inbox \cup Mails /\ Intakes \cap (Inbox \cup Mails) = {}
  /\ None \notin Keys /\ MaxRetries \in Nat
  /\ Workers = Requests \cup Controllers \cup Recoveries \cup {Poller}
  /\ \A w \in Requests \cup Recoveries : w \notin Controllers /\ w # Poller
  /\ Poller \notin Controllers
  /\ IsFiniteSet(Recoveries) /\ Cardinality(Recoveries) \in Nat
<1>1. IsFiniteSet(Recoveries) /\ Cardinality(Recoveries) \in Nat
  BY IntakeAssumption, FS_CardinalityType
<1>2. MaxRetries \in Nat
  BY IntakeAssumption
<1>3. QED
  BY <1>1, <1>2, IntakeAssumption DEF Keys, Workers

\* A worker that handles something handles a file.
LEMMA FileHandled ==
  ASSUME NEW w \in Workers, NEW t \in TaskState, Handles(w, t)
  PROVE  FileFor(t) \in Files
<1>1. CASE w \in Controllers \cup {Poller}
  <2>1. t.key \in Inbox \cup Mails /\ t.key \notin Intakes
        /\ t.part \in 1..Len(Parts[t.key]) /\ Parts[t.key] \in Seq(Files)
    BY <1>1, Constants DEF Handles
  <2>2. Parts[t.key][t.part] \in Files
    BY <2>1
  <2>3. QED BY <2>1, <2>2 DEF FileFor
<1>2. CASE w \notin Controllers \cup {Poller}
  BY <1>2, Constants DEF Handles, FileFor
<1>3. QED BY <1>1, <1>2

\* A worker that is in order stays so while the rows grow.
LEMMA StaysInOrder ==
  ASSUME NEW rs, NEW more, Grown(rs, more), NEW w \in Workers, NEW t \in TaskState,
         Len(rs) \in Nat, Len(more) \in Nat, WorkerOK(rs, w, t)
  PROVE  WorkerOK(more, w, t)
<1>1. t.parent \in Nat
  BY DEF TaskState
<1>2. t.parent # 0 => more[t.parent].file = rs[t.parent].file
  BY <1>1 DEF WorkerOK, Grown
<1>3. t.parent <= Len(more)
  BY <1>1 DEF WorkerOK, Grown
<1>4. QED BY <1>2, <1>3 DEF WorkerOK

\* The workers, when one of them moves and the rows grow.
LEMMA TaskMoves ==
  ASSUME RowsOK, TasksOK, NEW w \in Workers, NEW t \in TaskState,
         task' = [task EXCEPT ![w] = t], RowsOK', Grown(rows, rows'),
         WorkerOK(rows', w, t)
  PROVE  TasksOK' /\ task'[w] = t /\ \A v \in Workers \ {w} : task'[v] = task[v]
<1>1. /\ task' \in [Workers -> TaskState] /\ task'[w] = t
      /\ \A v \in Workers \ {w} : task'[v] = task[v]
  BY DEF TasksOK
<1>2. Len(rows) \in Nat /\ Len(rows') \in Nat
  BY DEF RowsOK
<1>3. \A v \in Workers : WorkerOK(rows', v, task'[v])
  BY <1>1, <1>2, StaysInOrder DEF TasksOK
<1>4. QED BY <1>1, <1>3 DEF TasksOK

\* The first state of a task, and no task.
LEMMA Starts ==
  ASSUME NEW w \in Workers, NEW at \in {"storing", "downloading", "received"},
         NEW key \in Keys, NEW part \in Nat, NEW rs, Len(rs) \in Nat,
         (w \in Controllers) <=> (at = "received"),
         LET t == [Begin(at, key) EXCEPT !.part = part] IN Handles(w, t)
  PROVE  LET t == [Begin(at, key) EXCEPT !.part = part]
         IN  t \in TaskState /\ t.at = at /\ WorkerOK(rs, w, t)
  BY DEF Begin, TaskState, WorkerOK, Steps, LockSteps, ControllerSteps

\* An idle worker is in order.
LEMMA IdleInOrder ==
  ASSUME NEW w \in Workers, NEW rs, Len(rs) \in Nat
  PROVE  Idle \in TaskState /\ Idle.at = "idle" /\ WorkerOK(rs, w, Idle)
  BY DEF Idle, TaskState, WorkerOK, Steps, LockSteps, ControllerSteps

\* The same task at another step, outside the lock.
LEMMA GoesOn ==
  ASSUME NEW rs, Len(rs) \in Nat, NEW w \in Workers, NEW u \in TaskState,
         WorkerOK(rs, w, u), u.at # "idle", u.at \notin LockSteps,
         NEW at \in Steps, at \notin LockSteps, at # "idle",
         at \in ControllerSteps <=> u.at \in ControllerSteps
  PROVE  LET t == [u EXCEPT !.at = at]
         IN  t \in TaskState /\ t.at = at /\ WorkerOK(rs, w, t)
<1> DEFINE t == [u EXCEPT !.at = at]
<1>1. /\ t \in TaskState /\ t.at = at /\ t.key = u.key /\ t.part = u.part
      /\ t.parent = u.parent
  BY DEF TaskState
<1> HIDE DEF t
<1>2. WorkerOK(rs, w, t)
  BY <1>1 DEF WorkerOK, Handles, LockSteps
<1>3. QED BY <1>1, <1>2 DEF t

\* PartDone leads to the next part, to the memory of the poll, or to nothing.
LEMMA PartDoneMoves ==
  ASSUME TasksOK, NEW w \in Workers, task[w].at # "idle", PartDone(w),
         NEW rs, Len(rs) \in Nat
  PROVE  \E t \in TaskState :
           /\ task' = [task EXCEPT ![w] = t] /\ WorkerOK(rs, w, t)
           /\ t.at \in {"idle", "storing", "received", "remembering"}
<1> DEFINE u == task[w]
           more == w \in Controllers \cup {Poller} /\ u.part < Len(Parts[u.key])
           first == IF w = Poller THEN "storing" ELSE "received"
           next == [Begin(first, u.key) EXCEPT !.part = u.part + 1]
           last == [u EXCEPT !.at = "remembering", !.parent = 0]
<1>1. /\ u \in TaskState /\ Handles(w, u)
      /\ task' = [task EXCEPT ![w] = IF more THEN next
                                     ELSE IF w = Poller THEN last ELSE Idle]
  BY DEF PartDone, TasksOK, WorkerOK
<1> HIDE DEF u
<1>2. CASE more
  <2>1. /\ u.key \in Inbox \cup Mails /\ u.part \in 1..Len(Parts[u.key])
        /\ Parts[u.key] \in Seq(Files) /\ u.key \in Keys
    BY <1>1, <1>2, Constants DEF Handles
  <2>2. u.part + 1 \in 1..Len(Parts[u.key]) /\ u.part + 1 \in Nat
    BY <1>2, <2>1
  <2>3. next.key = u.key /\ next.part = u.part + 1
    BY DEF Begin
  <2>4. Handles(w, next)
    BY <1>2, <2>1, <2>2, <2>3 DEF Handles
  <2>5. first \in {"storing", "received"} /\ ((w \in Controllers) <=> first = "received")
    BY <1>2, Constants
  <2>6. next \in TaskState /\ next.at = first /\ WorkerOK(rs, w, next)
    BY <2>1, <2>2, <2>4, <2>5, Starts
  <2>7. QED BY <1>1, <1>2, <2>5, <2>6
<1>3. CASE ~more /\ w = Poller
  <2>1. /\ last \in TaskState /\ last.at = "remembering" /\ last.parent = 0
        /\ last.key = u.key /\ last.part = u.part
    BY <1>1 DEF TaskState, Steps
  <2> HIDE DEF last
  <2>2. WorkerOK(rs, w, last)
    BY <1>1, <1>3, <2>1, Constants DEF WorkerOK, Handles, LockSteps, ControllerSteps
  <2>3. QED BY <1>1, <1>3, <2>1, <2>2
<1>4. CASE ~more /\ w # Poller
  BY <1>1, <1>4, IdleInOrder
<1>5. QED BY <1>2, <1>3, <1>4

-----------------------------------------------------------------------------
(* What a move of one worker does to the invariant *)

\* The rows with a locked mark: none is added but by the holder of its file.
MarksKept(w) ==
  \A n \in DOMAIN rows' : rows'[n].locked =>
    \/ n \in DOMAIN rows /\ rows[n].locked /\ rows[n].file = rows'[n].file
    \/ Locks(w) /\ rows'[n].file = FileFor(task[w])

\* A worker that gives a lock up, or never had one, disturbs nobody's lock.
LEMMA LockKept ==
  ASSUME LockOK, NEW w \in Workers, NEW t \in TaskState, t.at \notin LockSteps,
         task'[w] = t, \A v \in Workers \ {w} : task'[v] = task[v], MarksKept(w)
  PROVE  LockOK'
<1>1. \A v \in Workers : Locks(v)' => v # w /\ Locks(v) /\ task'[v] = task[v]
  BY DEF Locks
<1>2. \A u, v \in Workers :
        Locks(v)' /\ Locks(u)' /\ FileFor(task[v])' = FileFor(task[u])' => v = u
  BY <1>1 DEF LockOK, FileFor
<1>3. ASSUME NEW v \in Workers, task'[v].at = "committing", task'[v].parent = 0
      PROVE  LockedCopies(FileFor(task[v]))' = {}
  <2>1. Locks(v) /\ v # w /\ task'[v] = task[v]
    BY <1>1, <1>3 DEF Locks, LockSteps
  <2>2. LockedCopies(FileFor(task[v])) = {} /\ FileFor(task[v])' = FileFor(task[v])
    BY <1>3, <2>1 DEF LockOK, FileFor
  <2>3. ASSUME NEW n \in DOMAIN rows', rows'[n].locked,
               rows'[n].file = FileFor(task[v])
        PROVE  FALSE
    <3>1. CASE n \in DOMAIN rows /\ rows[n].locked /\ rows[n].file = rows'[n].file
      BY <2>2, <2>3, <3>1 DEF LockedCopies, Copies
    <3>2. CASE Locks(w) /\ rows'[n].file = FileFor(task[w])
      BY <2>1, <2>3, <3>2 DEF LockOK
    <3>3. QED BY <2>3, <3>1, <3>2 DEF MarksKept
  <2>4. QED BY <2>2, <2>3 DEF LockedCopies, Copies
<1>4. QED BY <1>2, <1>3 DEF LockOK

\* Nobody starts or ends a download.
LEMMA DownloadsKept ==
  ASSUME RetriesOK, UNCHANGED retries,
         \A r \in Recoveries :
           /\ task'[r].at = "downloading" <=> task[r].at = "downloading"
           /\ task'[r].at = "downloading" => task'[r].key = task[r].key
  PROVE  RetriesOK'
<1>1. \A i \in Intakes : Downloads(i)' = Downloads(i)
  BY DEF Downloads
<1>2. QED BY <1>1 DEF RetriesOK

\* A move that leaves the rows alone and neither locks nor downloads.
LEMMA PlainMove ==
  ASSUME IntakeInv, NEW w \in Workers, NEW t \in TaskState,
         task' = [task EXCEPT ![w] = t], UNCHANGED <<rows, retries>>,
         WorkerOK(rows, w, t), t.at \notin LockSteps,
         t.at # "downloading", task[w].at # "downloading"
  PROVE  RowsOK' /\ TasksOK' /\ LockOK' /\ AloneOK' /\ RetriesOK'
<1>1. RowsOK' /\ AloneOK' /\ Grown(rows, rows')
  BY DEF IntakeInv, RowsOK, AloneOK, Copies, LockedCopies, Grown
<1>2. TasksOK' /\ task'[w] = t /\ \A v \in Workers \ {w} : task'[v] = task[v]
  BY <1>1, TaskMoves DEF IntakeInv
<1>3. MarksKept(w)
  BY DEF MarksKept
<1>4. LockOK'
  BY <1>2, <1>3, LockKept DEF IntakeInv
<1>5. \A r \in Recoveries : r \in Workers
  BY Constants
<1>6. RetriesOK'
  BY <1>2, <1>5, DownloadsKept DEF IntakeInv
<1>7. QED BY <1>1, <1>2, <1>4, <1>6

\* PartDone by itself.
LEMMA PartDoneKeeps ==
  ASSUME IntakeInv, NEW w \in Workers, task[w].at \notin {"idle", "downloading"},
         PartDone(w), UNCHANGED <<rows, retries>>
  PROVE  RowsOK' /\ TasksOK' /\ LockOK' /\ AloneOK' /\ RetriesOK'
<1>1. Len(rows) \in Nat
  BY DEF IntakeInv, RowsOK
<1>2. PICK t \in TaskState :
        /\ task' = [task EXCEPT ![w] = t] /\ WorkerOK(rows, w, t)
        /\ t.at \in {"idle", "storing", "received", "remembering"}
  BY <1>1, PartDoneMoves DEF IntakeInv
<1>3. QED
  BY <1>2, PlainMove DEF LockSteps

\* Goto by itself, outside the lock.
LEMMA GotoKeeps ==
  ASSUME IntakeInv, NEW w \in Workers, task[w].at \notin {"idle", "downloading"},
         task[w].at \notin LockSteps, UNCHANGED <<rows, retries>>,
         NEW at \in Steps, at \notin LockSteps, at \notin {"idle", "downloading"},
         at \in ControllerSteps <=> task[w].at \in ControllerSteps, Goto(w, at)
  PROVE  RowsOK' /\ TasksOK' /\ LockOK' /\ AloneOK' /\ RetriesOK'
<1> DEFINE u == task[w]
           t == [u EXCEPT !.at = at]
<1>1. u \in TaskState /\ WorkerOK(rows, w, u) /\ Len(rows) \in Nat
  BY DEF IntakeInv, TasksOK, RowsOK
<1>2. task' = [task EXCEPT ![w] = t]
  BY DEF Goto
<1>3. t \in TaskState /\ t.at = at /\ WorkerOK(rows, w, t)
  BY <1>1, GoesOn
<1> HIDE DEF t
<1>4. QED BY <1>2, <1>3, PlainMove

-----------------------------------------------------------------------------
(* The actions outside the lock *)

\* A first part.
LEMMA Begins ==
  ASSUME NEW w \in Workers, NEW at \in {"storing", "downloading", "received"},
         NEW key \in Keys, NEW rs, Len(rs) \in Nat,
         (w \in Controllers) <=> (at = "received"),
         IF w \in Controllers \cup {Poller} THEN key \in Inbox \cup Mails
         ELSE key \in Intakes
  PROVE  /\ Begin(at, key) \in TaskState /\ Begin(at, key).at = at
         /\ Begin(at, key).key = key /\ WorkerOK(rs, w, Begin(at, key))
<1> DEFINE t == Begin(at, key)
<1>1. t = [t EXCEPT !.part = 1] /\ t.key = key /\ t.part = 1
  BY DEF Begin
<1>2. key \in Inbox \cup Mails => 1 \in 1..Len(Parts[key])
  BY IntakeAssumption
<1>3. Handles(w, t)
  BY <1>1, <1>2 DEF Handles
<1>4. t \in TaskState /\ t.at = at /\ t.parent = 0
  BY DEF Begin, TaskState, Steps, LockSteps, ControllerSteps
<1> HIDE DEF t
<1>5. WorkerOK(rs, w, t)
  BY <1>3, <1>4 DEF WorkerOK, LockSteps, ControllerSteps
<1>6. QED BY <1>1, <1>4, <1>5 DEF t

\* The count of deliveries stays within its bound.
LEMMA DeliveryCounts ==
  ASSUME deliveries \in 0..MaxDeliveries, Delivered
  PROVE  deliveries' \in 0..MaxDeliveries
  BY IntakeAssumption DEF Delivered

\* A delivery starts a task: the webhook's, the controller's or the poll's.
LEMMA DeliverySteps ==
  ASSUME IntakeInv,
         \/ \E q \in Requests, i \in Intakes : PowerAutomatePost(q, i)
         \/ \E c \in Controllers, m \in Mails : ControllerPost(c, m)
         \/ \E m \in Inbox : PollMessage(m)
  PROVE  IntakeInv'
<1>1. Len(rows) \in Nat
  BY DEF IntakeInv, RowsOK
<1>2. ASSUME NEW q \in Requests, NEW i \in Intakes, PowerAutomatePost(q, i)
      PROVE  IntakeInv'
  <2> DEFINE t == Begin("storing", i)
  <2>1. /\ q \in Workers /\ task[q] = Idle /\ task' = [task EXCEPT ![q] = t]
        /\ Delivered
        /\ UNCHANGED <<rows, retries, uploads, aged, terminal, todo, marked, seen,
                       faults>>
    BY <1>2, Constants DEF PowerAutomatePost, RecoveryUnchanged, MailUnchanged
  <2>2. t \in TaskState /\ t.at = "storing" /\ WorkerOK(rows, q, t)
    BY <1>1, <2>1, Begins, Constants
  <2>3. task[q].at = "idle"
    BY <2>1 DEF Idle
  <2> HIDE DEF t
  <2>4. RowsOK' /\ TasksOK' /\ LockOK' /\ AloneOK' /\ RetriesOK'
    BY <2>1, <2>2, <2>3, PlainMove DEF LockSteps
  <2>5. RestOK'
    BY <2>1, DeliveryCounts DEF IntakeInv, RestOK
  <2>6. QED BY <2>4, <2>5 DEF IntakeInv
<1>3. ASSUME NEW c \in Controllers, NEW m \in Mails, ControllerPost(c, m)
      PROVE  IntakeInv'
  <2> DEFINE t == Begin("received", m)
  <2>1. /\ c \in Workers /\ task[c] = Idle /\ task' = [task EXCEPT ![c] = t]
        /\ Delivered
        /\ UNCHANGED <<rows, retries, uploads, aged, terminal, todo, marked, seen,
                       faults>>
    BY <1>3, Constants DEF ControllerPost, RecoveryUnchanged, MailUnchanged
  <2>2. t \in TaskState /\ t.at = "received" /\ WorkerOK(rows, c, t)
    BY <1>1, <2>1, Begins, Constants
  <2>3. task[c].at = "idle"
    BY <2>1 DEF Idle
  <2> HIDE DEF t
  <2>4. RowsOK' /\ TasksOK' /\ LockOK' /\ AloneOK' /\ RetriesOK'
    BY <2>1, <2>2, <2>3, PlainMove DEF LockSteps
  <2>5. RestOK'
    BY <2>1, DeliveryCounts DEF IntakeInv, RestOK
  <2>6. QED BY <2>4, <2>5 DEF IntakeInv
<1>4. ASSUME NEW m \in Inbox, PollMessage(m)
      PROVE  IntakeInv'
  <2> DEFINE t == Begin("storing", m)
  <2>1. /\ Poller \in Workers /\ task[Poller] = Idle /\ task[Poller].at = "idle"
        /\ UNCHANGED <<rows, retries, uploads, aged, terminal, todo, marked,
                       faults>>
    BY <1>4, Constants DEF PollMessage, RecoveryUnchanged, Idle
  <2>2. CASE m \in marked /\ seen' = seen \cup {m} /\ UNCHANGED <<task, deliveries>>
    <3>1. RowsOK' /\ TasksOK' /\ LockOK' /\ AloneOK' /\ RetriesOK'
      BY <2>1, <2>2 DEF IntakeInv, RowsOK, TasksOK, LockOK, AloneOK, RetriesOK, Copies,
                        LockedCopies, Locks, FileFor, Downloads
    <3>2. RestOK'
      BY <2>1, <2>2 DEF IntakeInv, RestOK
    <3>3. QED BY <3>1, <3>2 DEF IntakeInv
  <2>3. CASE /\ Delivered
             /\ task' = [task EXCEPT ![Poller] = t] /\ UNCHANGED seen
    <3>1. t \in TaskState /\ t.at = "storing" /\ WorkerOK(rows, Poller, t)
      BY <1>1, <2>1, Begins, Constants
    <3> HIDE DEF t
    <3>2. RowsOK' /\ TasksOK' /\ LockOK' /\ AloneOK' /\ RetriesOK'
      BY <2>1, <2>3, <3>1, PlainMove DEF LockSteps
    <3>3. RestOK'
      BY <2>1, <2>3, DeliveryCounts DEF IntakeInv, RestOK
    <3>4. QED BY <3>2, <3>3 DEF IntakeInv
  <2>4. QED BY <1>4, <2>2, <2>3 DEF PollMessage
<1>5. QED BY <1>2, <1>3, <1>4

\* The poll remembers a message and is idle again.
LEMMA RememberStep ==
  ASSUME IntakeInv, RememberMessage
  PROVE  IntakeInv'
<1>1. /\ Poller \in Workers /\ task[Poller].at = "remembering"
      /\ task' = [task EXCEPT ![Poller] = Idle]
      /\ seen' = seen \cup ({task[Poller].key} \cap marked)
      /\ UNCHANGED <<rows, retries, uploads, aged, terminal, todo, marked, deliveries,
                     faults>>
  BY Constants DEF RememberMessage, RecoveryUnchanged, BoundsUnchanged
<1>2. Idle \in TaskState /\ Idle.at = "idle" /\ WorkerOK(rows, Poller, Idle)
  BY <1>1, IdleInOrder DEF IntakeInv, RowsOK
<1>3. RowsOK' /\ TasksOK' /\ LockOK' /\ AloneOK' /\ RetriesOK'
  BY <1>1, <1>2, PlainMove DEF LockSteps
<1>4. RestOK'
  BY <1>1 DEF IntakeInv, RestOK
<1>5. QED BY <1>3, <1>4 DEF IntakeInv

\* Storing the file.
LEMMA StoreStep ==
  ASSUME IntakeInv, NEW w \in Workers \ Controllers, Store(w)
  PROVE  IntakeInv'
<1>1. /\ task[w].at = "storing"
      /\ Goto(w, "extracting") \/ PartDone(w)
      /\ uploads' = uploads
         \/ (task[w].key \in Intakes /\ uploads' = Append(uploads, task[w].key))
      /\ UNCHANGED <<rows, retries, terminal, aged, todo, marked, seen, deliveries,
                     faults>>
  BY DEF Store, RecoveryUnchanged, MailUnchanged, BoundsUnchanged
<1>2. RowsOK' /\ TasksOK' /\ LockOK' /\ AloneOK' /\ RetriesOK'
  <2>1. CASE Goto(w, "extracting")
    BY <1>1, <2>1, GotoKeeps DEF Steps, LockSteps, ControllerSteps
  <2>2. CASE PartDone(w)
    BY <1>1, <2>2, PartDoneKeeps
  <2>3. QED BY <1>1, <2>1, <2>2
<1>3. RestOK'
  <2>1. uploads \in Seq(Intakes) /\ aged \in 0..Len(uploads) /\ aged' = aged
    BY <1>1 DEF IntakeInv, RestOK
  <2>2. uploads' \in Seq(Intakes) /\ Len(uploads') >= Len(uploads)
        /\ Len(uploads) \in Nat /\ Len(uploads') \in Nat
    BY <1>1, <2>1
  <2>3. aged' \in 0..Len(uploads')
    BY <2>1, <2>2
  <2>4. QED BY <1>1, <2>2, <2>3 DEF IntakeInv, RestOK
<1>4. QED BY <1>2, <1>3 DEF IntakeInv

\* OCR and the check before the transaction.
LEMMA ExtractStep ==
  ASSUME IntakeInv, NEW w \in Workers \ Controllers, ExtractAndCheck(w)
  PROVE  IntakeInv'
<1>1. /\ task[w].at = "extracting"
      /\ Goto(w, "locking") \/ PartDone(w)
      /\ terminal' \subseteq terminal \cup Intakes
      /\ UNCHANGED <<rows, retries, uploads, aged, todo, marked, seen, deliveries,
                     faults>>
  BY DEF ExtractAndCheck, RecoveryUnchanged, MailUnchanged, BoundsUnchanged
<1>2. RowsOK' /\ TasksOK' /\ LockOK' /\ AloneOK' /\ RetriesOK'
  <2>1. CASE Goto(w, "locking")
    BY <1>1, <2>1, GotoKeeps DEF Steps, LockSteps, ControllerSteps
  <2>2. CASE PartDone(w)
    BY <1>1, <2>2, PartDoneKeeps
  <2>3. QED BY <1>1, <2>1, <2>2
<1>3. RestOK'
  BY <1>1 DEF IntakeInv, RestOK
<1>4. QED BY <1>2, <1>3 DEF IntakeInv

\* After the commit: the audit record.
LEMMA FinishStep ==
  ASSUME IntakeInv, NEW w \in Workers \ Controllers, FinishIntake(w)
  PROVE  IntakeInv'
<1>1. /\ task[w].at = "finishing" /\ PartDone(w)
      /\ marked' = marked \/ marked' = marked \cup ({task[w].key} \cap Inbox)
      /\ UNCHANGED <<rows, retries, uploads, terminal, seen, aged, todo, deliveries,
                     faults>>
  BY DEF FinishIntake, RecoveryUnchanged, BoundsUnchanged
<1>2. RowsOK' /\ TasksOK' /\ LockOK' /\ AloneOK' /\ RetriesOK'
  BY <1>1, PartDoneKeeps
<1>3. RestOK'
  BY <1>1 DEF IntakeInv, RestOK
<1>4. QED BY <1>2, <1>3 DEF IntakeInv

-----------------------------------------------------------------------------
(* The transaction *)

\* A worker takes the lock of its file when no other has it; one that found no
\* copy has no rival.
LEMMA LockTaken ==
  ASSUME IntakeInv, NEW w \in Workers, NEW t \in TaskState,
         task' = [task EXCEPT ![w] = t], UNCHANGED <<rows, retries>>,
         WorkerOK(rows, w, t), task[w].at # "downloading",
         t.at \in LockSteps,
         \A v \in Workers \ {w} : Locks(v) => FileFor(task[v]) # FileFor(t),
         t.at = "committing" /\ t.parent = 0 => LockedCopies(FileFor(t)) = {}
  PROVE  RowsOK' /\ TasksOK' /\ LockOK' /\ AloneOK' /\ RetriesOK'
<1>1. RowsOK' /\ AloneOK' /\ Grown(rows, rows')
  BY DEF IntakeInv, RowsOK, AloneOK, Copies, LockedCopies, Grown
<1>2. TasksOK' /\ task'[w] = t /\ \A v \in Workers \ {w} : task'[v] = task[v]
  BY <1>1, TaskMoves DEF IntakeInv
<1>3. LockOK'
  <2>1. \A v \in Workers \ {w} : /\ Locks(v)' <=> Locks(v)
                                 /\ FileFor(task[v])' = FileFor(task[v])
    BY <1>2 DEF Locks, FileFor
  <2>2. FileFor(task[w])' = FileFor(t)
    BY <1>2 DEF FileFor
  <2>3. \A u, v \in Workers :
          Locks(u)' /\ Locks(v)' /\ FileFor(task[u])' = FileFor(task[v])' => u = v
    BY <2>1, <2>2 DEF IntakeInv, LockOK
  <2>4. ASSUME NEW v \in Workers, task'[v].at = "committing", task'[v].parent = 0
        PROVE  LockedCopies(FileFor(task[v]))' = {}
    <3>1. CASE v = w
      BY <1>2, <2>2, <2>4, <3>1 DEF LockedCopies, Copies
    <3>2. CASE v # w
      BY <1>2, <2>1, <2>4, <3>2 DEF IntakeInv, LockOK, LockedCopies, Copies
    <3>3. QED BY <3>1, <3>2
  <2>5. QED BY <2>3, <2>4 DEF LockOK
<1>4. \A r \in Recoveries : r \in Workers
  BY Constants
<1>5. RetriesOK'
  BY <1>2, <1>4, DownloadsKept DEF IntakeInv, LockSteps
<1>6. QED BY <1>1, <1>2, <1>3, <1>5

\* The lock is taken, with or without a copy to replace, or the part is done.
LEMMA LockStep ==
  ASSUME IntakeInv, NEW w \in Workers \ Controllers, LockFile(w)
  PROVE  IntakeInv'
<1> DEFINE u == task[w]
           f == FileFor(u)
<1>1. /\ u.at = "locking" /\ LockFree(f)
      /\ terminal' \subseteq terminal \cup Intakes
      /\ UNCHANGED <<rows, retries, uploads, aged, todo, marked, seen, deliveries,
                     faults>>
  BY DEF LockFile, RecoveryUnchanged, MailUnchanged, BoundsUnchanged
<1>2. /\ u \in TaskState /\ WorkerOK(rows, w, u) /\ u.parent = 0
      /\ Len(rows) \in Nat /\ DOMAIN rows = 1..Len(rows)
  BY <1>1 DEF IntakeInv, TasksOK, RowsOK, WorkerOK, LockSteps
<1>3. \/ Copies(f) = {} /\ task' = [task EXCEPT ![w] = [u EXCEPT !.at = "committing"]]
      \/ \E n \in Copies(f) :
           task' = [task EXCEPT ![w] = [u EXCEPT !.at = "replacing", !.parent = n]]
      \/ PartDone(w)
  BY <1>2 DEF LockFile, Goto, IntakeInv, TasksOK, TaskState
<1>4. \A v \in Workers \ {w} : Locks(v) => FileFor(task[v]) # f
  BY <1>1 DEF LockFree, Locks, LockSteps
<1>5. RestOK'
  BY <1>1 DEF IntakeInv, RestOK
<1>6. CASE Copies(f) = {} /\ task' = [task EXCEPT ![w] = [u EXCEPT !.at = "committing"]]
  <2> DEFINE t == [u EXCEPT !.at = "committing"]
  <2>1. /\ t \in TaskState /\ t.at = "committing" /\ t.parent = 0
        /\ t.key = u.key /\ t.part = u.part
    BY <1>2 DEF TaskState, Steps, LockSteps
  <2>2. task' = [task EXCEPT ![w] = t]
    BY <1>6
  <2> HIDE DEF t, u
  <2>3. WorkerOK(rows, w, t)
    BY <1>1, <1>2, <2>1 DEF WorkerOK, Handles, LockSteps, ControllerSteps
  <2>4. FileFor(t) = f
    BY <2>1 DEF FileFor
  <2>5. LockedCopies(f) = {}
    BY <1>6 DEF LockedCopies
  <2>6. t.at \in LockSteps /\ u.at # "downloading"
    BY <1>1, <2>1 DEF LockSteps
  <2>7. RowsOK' /\ TasksOK' /\ LockOK' /\ AloneOK' /\ RetriesOK'
    BY <1>1, <1>4, <2>1, <2>2, <2>3, <2>4, <2>5, <2>6, LockTaken DEF u
  <2>8. QED BY <1>5, <2>7 DEF IntakeInv
<1>7. ASSUME NEW n \in Copies(f),
             task' = [task EXCEPT ![w] = [u EXCEPT !.at = "replacing", !.parent = n]]
      PROVE  IntakeInv'
  <2> DEFINE t == [u EXCEPT !.at = "replacing", !.parent = n]
  <2>1. n \in 1..Len(rows) /\ n \in Nat /\ n # 0 /\ rows[n].file = f
    BY <1>2 DEF Copies
  <2>2. /\ t \in TaskState /\ t.at = "replacing" /\ t.parent = n
        /\ t.key = u.key /\ t.part = u.part
    BY <1>2, <2>1 DEF TaskState, Steps, LockSteps
  <2>3. task' = [task EXCEPT ![w] = t]
    BY <1>7
  <2> HIDE DEF t, u
  <2>4. FileFor(t) = f
    BY <2>2 DEF FileFor
  <2>5. WorkerOK(rows, w, t)
    BY <1>1, <1>2, <2>1, <2>2, <2>4 DEF WorkerOK, Handles, LockSteps, ControllerSteps
  <2>6. t.at \in LockSteps /\ t.at # "committing" /\ u.at # "downloading"
    BY <1>1, <2>2 DEF LockSteps
  <2>7. RowsOK' /\ TasksOK' /\ LockOK' /\ AloneOK' /\ RetriesOK'
    BY <1>1, <1>4, <2>2, <2>3, <2>4, <2>5, <2>6, LockTaken DEF u
  <2>8. QED BY <1>5, <2>7 DEF IntakeInv
<1>8. CASE PartDone(w)
  BY <1>1, <1>5, <1>8, PartDoneKeeps DEF IntakeInv
<1>9. QED BY <1>3, <1>6, <1>7, <1>8

\* The parent may still be replaced, or the transaction is rolled back.
LEMMA ReplaceStep ==
  ASSUME IntakeInv, NEW w \in Workers \ Controllers, ReplaceParent(w)
  PROVE  IntakeInv'
<1> DEFINE u == task[w]
           t == [u EXCEPT !.at = "committing"]
<1>1. /\ u.at = "replacing"
      /\ task' = [task EXCEPT ![w] = t] \/ PartDone(w)
      /\ UNCHANGED <<rows, retries, uploads, terminal, aged, todo, marked, seen, deliveries,
                     faults>>
  BY DEF ReplaceParent, Goto, RecoveryUnchanged, MailUnchanged, BoundsUnchanged
<1>2. u \in TaskState /\ WorkerOK(rows, w, u) /\ u.parent # 0
  BY <1>1 DEF IntakeInv, TasksOK, WorkerOK
<1>3. RestOK'
  BY <1>1 DEF IntakeInv, RestOK
<1>4. CASE task' = [task EXCEPT ![w] = t]
  <2>1. /\ t \in TaskState /\ t.at = "committing" /\ t.parent = u.parent
        /\ t.key = u.key /\ t.part = u.part
    BY <1>2 DEF TaskState, Steps, LockSteps
  <2> HIDE DEF t
  <2>2. FileFor(t) = FileFor(u)
    BY <2>1 DEF FileFor
  <2>3. WorkerOK(rows, w, t)
    BY <1>1, <1>2, <2>1, <2>2 DEF WorkerOK, Handles, LockSteps, ControllerSteps
  <2>4. \A v \in Workers \ {w} : Locks(v) => FileFor(task[v]) # FileFor(t)
    BY <1>1, <2>2 DEF IntakeInv, LockOK, Locks, LockSteps
  <2>5. t.at \in LockSteps /\ u.at # "downloading"
    BY <1>1, <2>1 DEF LockSteps
  <2>6. RowsOK' /\ TasksOK' /\ LockOK' /\ AloneOK' /\ RetriesOK'
    BY <1>1, <1>2, <1>4, <2>1, <2>3, <2>4, <2>5, LockTaken
  <2>7. QED BY <1>3, <2>6 DEF IntakeInv
<1>5. CASE PartDone(w)
  BY <1>1, <1>3, <1>5, PartDoneKeeps DEF IntakeInv
<1>6. QED BY <1>1, <1>4, <1>5

\* The rows after a supersession.
LEMMA Superseding ==
  ASSUME NEW rs \in Seq(RowState), NEW n \in 0..Len(rs)
  PROVE  /\ Superseded(rs, n) \in Seq(RowState) /\ Len(Superseded(rs, n)) = Len(rs)
         /\ Grown(rs, Superseded(rs, n))
         /\ \A k \in 1..Len(rs) :
              Superseded(rs, n)[k].state = "superseded"
                <=> rs[k].state = "superseded" \/ k = n
<1> DEFINE more == Superseded(rs, n)
<1>1. CASE n = 0
  BY <1>1 DEF Superseded, Grown
<1>2. CASE n # 0
  <2>1. n \in 1..Len(rs) /\ more = [rs EXCEPT ![n].state = "superseded"]
    BY <1>2 DEF Superseded
  <2>2. \A k \in 1..Len(rs) :
          /\ rs[k] \in RowState
          /\ more[k] = IF k = n THEN [rs[k] EXCEPT !.state = "superseded"] ELSE rs[k]
    BY <2>1
  <2>3. \A k \in 1..Len(rs) :
          /\ more[k] \in RowState /\ more[k].file = rs[k].file
          /\ more[k].mail = rs[k].mail /\ more[k].locked = rs[k].locked
          /\ more[k].state = IF k = n THEN "superseded" ELSE rs[k].state
    BY <2>2 DEF RowState, States
  <2>4. more \in Seq(RowState) /\ Len(more) = Len(rs)
    <3>1. [rs[n] EXCEPT !.state = "superseded"] \in RowState
      BY <2>1, <2>2, <2>3
    <3>2. QED BY <2>1, <3>1
  <2> HIDE DEF more
  <2>5. QED BY <2>1, <2>3, <2>4 DEF Grown, more
<1>3. QED BY <1>1, <1>2

\* The rows after the creation of one more.
LEMMA Creating ==
  ASSUME NEW rs \in Seq(RowState), NEW row \in RowState, NEW more,
         more = Append(rs, row)
  PROVE  /\ more \in Seq(RowState) /\ Len(more) = Len(rs) + 1
         /\ more[Len(rs) + 1] = row
         /\ \A n \in 1..Len(rs) : more[n] = rs[n]
         /\ Grown(rs, more)
<1>1. /\ more \in Seq(RowState) /\ Len(more) = Len(rs) + 1 /\ Len(rs) \in Nat
      /\ more[Len(rs) + 1] = row /\ \A n \in 1..Len(rs) : more[n] = rs[n]
  OBVIOUS
<1>2. QED BY <1>1 DEF Grown

\* The first copy stays alone when at most one locked row is added and its file
\* has a superseded copy or had no locked one.
LEMMA AloneKept ==
  ASSUME RowsOK, RowsOK', AloneOK, Grown(rows, rows'),
         \A n \in DOMAIN rows' \ DOMAIN rows : rows'[n].locked =>
           /\ n = Len(rows) + 1
           /\ \/ \E k \in DOMAIN rows' : /\ rows'[k].file = rows'[n].file
                                        /\ rows'[k].state = "superseded"
              \/ LockedCopies(rows'[n].file) = {}
  PROVE  AloneOK'
<1>1. /\ DOMAIN rows = 1..Len(rows) /\ DOMAIN rows' = 1..Len(rows')
      /\ Len(rows) \in Nat /\ Len(rows') \in Nat /\ Len(rows) <= Len(rows')
  BY DEF RowsOK, Grown
<1>2. \A n \in DOMAIN rows :
        /\ n \in DOMAIN rows' /\ rows'[n].file = rows[n].file
        /\ rows'[n].locked = rows[n].locked
        /\ rows[n].state = "superseded" => rows'[n].state = "superseded"
  BY <1>1 DEF Grown
<1>3. ASSUME NEW f \in Files, ~ \E n \in Copies(f)' : rows'[n].state = "superseded",
             NEW m \in LockedCopies(f)', NEW n \in LockedCopies(f)'
      PROVE  m = n
  <2>1. /\ m \in DOMAIN rows' /\ rows'[m].file = f /\ rows'[m].locked
        /\ n \in DOMAIN rows' /\ rows'[n].file = f /\ rows'[n].locked
    BY DEF LockedCopies, Copies
  <2>2. ~ \E k \in Copies(f) : rows[k].state = "superseded"
    BY <1>2, <1>3 DEF Copies
  <2>3. \A k, l \in LockedCopies(f) : k = l
    BY <2>2 DEF AloneOK
  <2>4. \A k \in {m, n} : k \in DOMAIN rows => k \in LockedCopies(f)
    BY <1>2, <2>1 DEF LockedCopies, Copies
  <2>5. \A k \in {m, n} : k \notin DOMAIN rows => k = Len(rows) + 1 /\ LockedCopies(f) = {}
    BY <1>3, <2>1 DEF Copies
  <2>6. QED BY <2>3, <2>4, <2>5
<1>4. QED BY <1>3 DEF AloneOK

\* A worker's move that changes the rows and neither locks nor downloads.
LEMMA RowsMove ==
  ASSUME IntakeInv, NEW w \in Workers, NEW t \in TaskState,
         task' = [task EXCEPT ![w] = t], UNCHANGED retries,
         RowsOK', Grown(rows, rows'), WorkerOK(rows', w, t), t.at \notin LockSteps,
         t.at # "downloading", task[w].at # "downloading", MarksKept(w)
  PROVE  TasksOK' /\ LockOK' /\ RetriesOK'
<1>1. TasksOK' /\ task'[w] = t /\ \A v \in Workers \ {w} : task'[v] = task[v]
  BY TaskMoves DEF IntakeInv
<1>2. LockOK'
  BY <1>1, LockKept DEF IntakeInv
<1>3. \A r \in Recoveries : r \in Workers
  BY Constants
<1>4. RetriesOK'
  BY <1>1, <1>3, DownloadsKept DEF IntakeInv
<1>5. QED BY <1>1, <1>2, <1>4

\* The new row commits with its parent's supersession, or the transaction is
\* rolled back.
LEMMA CommitStep ==
  ASSUME IntakeInv, NEW w \in Workers \ Controllers, CommitCreation(w)
  PROVE  IntakeInv'
<1> DEFINE u == task[w]
           t == [u EXCEPT !.at = "finishing", !.parent = 0]
           p == u.parent
           f == FileFor(u)
           rs == Superseded(rows, p)
<1>1. /\ u.at = "committing"
      /\ \/ /\ rows' = Append(rs, Row(f, u.key, TRUE))
            /\ task' = [task EXCEPT ![w] = t]
         \/ PartDone(w) /\ UNCHANGED rows
      /\ terminal' \subseteq terminal \cup Intakes
      /\ UNCHANGED <<retries, uploads, aged, todo, marked, seen, deliveries, faults>>
  BY DEF CommitCreation, RecoveryUnchanged, MailUnchanged, BoundsUnchanged, IntakeInv,
         TasksOK
<1>2. /\ u \in TaskState /\ WorkerOK(rows, w, u) /\ Handles(w, u)
      /\ rows \in Seq(RowState) /\ Len(rows) \in Nat /\ p \in 0..Len(rows)
      /\ p # 0 => rows[p].file = f
  BY <1>1 DEF IntakeInv, TasksOK, RowsOK, WorkerOK, LockSteps, TaskState
<1>3. f \in Files /\ u.key \in Keys
  BY <1>2, FileHandled DEF Handles
<1>4. RestOK'
  BY <1>1 DEF IntakeInv, RestOK
<1>5. CASE PartDone(w) /\ UNCHANGED rows
  <2>1. u.at \notin {"idle", "downloading"}
    BY <1>1
  <2>2. QED BY <1>1, <1>4, <1>5, <2>1, PartDoneKeeps DEF IntakeInv
<1>6. CASE rows' = Append(rs, Row(f, u.key, TRUE)) /\ task' = [task EXCEPT ![w] = t]
  <2>1. /\ rs \in Seq(RowState) /\ Len(rs) = Len(rows) /\ Grown(rows, rs)
        /\ p # 0 => rs[p].state = "superseded"
    BY <1>2, Superseding
  <2> HIDE DEF rs
  <2>2. /\ rows' \in Seq(RowState) /\ Len(rows') = Len(rows) + 1
        /\ rows'[Len(rows) + 1] = Row(f, u.key, TRUE)
        /\ \A n \in 1..Len(rows) : rows'[n] = rs[n]
    <3> DEFINE row == Row(f, u.key, TRUE)
    <3>1. row \in RowState
      BY <1>3 DEF Row, RowState, States
    <3>2. rows' = Append(rs, row)
      BY <1>6
    <3> HIDE DEF row
    <3>3. /\ rows' \in Seq(RowState) /\ Len(rows') = Len(rs) + 1
          /\ rows'[Len(rs) + 1] = row /\ \A n \in 1..Len(rs) : rows'[n] = rs[n]
      BY <2>1, <3>1, <3>2, Creating
    <3>4. QED BY <2>1, <3>3 DEF row
  <2>3. Grown(rows, rows') /\ RowsOK'
    BY <1>2, <2>1, <2>2 DEF Grown, RowsOK
  <2>4. /\ DOMAIN rows = 1..Len(rows) /\ DOMAIN rows' = 1..(Len(rows) + 1)
        /\ rows'[Len(rows) + 1].file = f
    BY <1>2, <2>2 DEF Row
  <2>5. /\ t \in TaskState /\ t.at = "finishing" /\ t.parent = 0
        /\ t.key = u.key /\ t.part = u.part
    BY <1>2 DEF TaskState, Steps, LockSteps
  <2> HIDE DEF t
  <2>6. WorkerOK(rows', w, t)
    BY <1>2, <2>2, <2>5 DEF WorkerOK, Handles, LockSteps, ControllerSteps
  <2>7. Locks(w)
    BY <1>1 DEF Locks, LockSteps
  <2>8. MarksKept(w)
    BY <2>3, <2>4, <2>7 DEF MarksKept, Grown
  <2>9. t.at \notin LockSteps /\ t.at # "downloading" /\ u.at # "downloading"
    BY <1>1, <2>5 DEF LockSteps
  <2>10. TasksOK' /\ LockOK' /\ RetriesOK'
    BY <1>1, <1>6, <2>3, <2>5, <2>6, <2>8, <2>9, RowsMove
  <2>11. p = 0 => LockedCopies(f) = {}
    BY <1>1 DEF IntakeInv, LockOK
  <2>12. p # 0 => /\ p \in DOMAIN rows' /\ rows'[p].file = f
                  /\ rows'[p].state = "superseded"
    BY <1>2, <2>1, <2>2, <2>3, <2>4 DEF Grown
  <2>13. AloneOK'
    BY <2>3, <2>4, <2>11, <2>12, AloneKept DEF IntakeInv
  <2>14. QED BY <1>4, <2>3, <2>10, <2>13 DEF IntakeInv
<1>7. QED BY <1>1, <1>5, <1>6

-----------------------------------------------------------------------------
(* The controller, without a lock *)

\* A controller at its next step, with a parent or none.
LEMMA ControllerMoves ==
  ASSUME NEW c \in Controllers, NEW u \in TaskState, NEW rs, Len(rs) \in Nat,
         WorkerOK(rs, c, u), u.at # "idle", NEW t \in TaskState,
         t.at \in ControllerSteps, t.key = u.key, t.part = u.part, t.parent <= Len(rs)
  PROVE  WorkerOK(rs, c, t)
  BY DEF WorkerOK, Handles, LockSteps, ControllerSteps

\* The duplicates a check can find.
LEMMA DuplicatesAreRows ==
  ASSUME RowsOK, NEW mail, NEW f
  PROVE  HardDuplicates(mail, f) \subseteq 0..Len(rows)
<1>1. DOMAIN rows = 1..Len(rows) /\ Len(rows) \in Nat
  BY DEF RowsOK
<1>2. HardDuplicates(mail, f) \subseteq {0} \cup DOMAIN rows
  BY DEF HardDuplicates, Copies
<1>3. QED BY <1>1, <1>2

\* The two checks of the controller.
LEMMA ControllerChecks ==
  ASSUME IntakeInv, NEW c \in Controllers, ControllerCheck(c) \/ ControllerRead(c)
  PROVE  IntakeInv'
<1> DEFINE u == task[c]
<1>1. /\ c \in Workers /\ u \in TaskState /\ WorkerOK(rows, c, u)
      /\ u.at \in {"received", "reading"}
      /\ Len(rows) \in Nat /\ u.parent \in 0..Len(rows)
  BY Constants DEF ControllerCheck, ControllerRead, IntakeInv, TasksOK, RowsOK,
                   WorkerOK, TaskState
<1>2. /\ UNCHANGED <<rows, retries>>
      /\ UNCHANGED <<uploads, aged, terminal, todo, marked, seen, deliveries, faults>>
  BY DEF ControllerCheck, ControllerRead, RecoveryUnchanged, MailUnchanged,
         BoundsUnchanged
<1>3. \/ PartDone(c)
      \/ \E n \in 0..Len(rows), at \in {"reading", "saving"} :
           task' = [task EXCEPT ![c] = [u EXCEPT !.at = at, !.parent = n]]
  <2>1. \A f, mail : HardDuplicates(mail, f) \subseteq 0..Len(rows)
    BY DuplicatesAreRows DEF IntakeInv
  <2>2. CASE ControllerCheck(c)
    <3>1. PICK n \in HardDuplicates(u.key, FileFor(u)) :
            IF n # 0 /\ ~CanReplace(n) THEN PartDone(c)
            ELSE task' = [task EXCEPT ![c].at = "reading", ![c].parent = n]
      BY <2>2 DEF ControllerCheck
    <3>2. [task EXCEPT ![c].at = "reading", ![c].parent = n]
            = [task EXCEPT ![c] = [u EXCEPT !.at = "reading", !.parent = n]]
      BY <1>1 DEF IntakeInv, TasksOK
    <3>3. QED BY <2>1, <3>1, <3>2
  <2>3. CASE ControllerRead(c) /\ ~PartDone(c)
    <3>1. PICK n \in HardDuplicates(None, FileFor(u)) :
            task' = [task EXCEPT ![c].at = "saving",
                                 ![c].parent = IF n # 0 THEN n ELSE @]
      BY <2>3 DEF ControllerRead
    <3> DEFINE p == IF n # 0 THEN n ELSE u.parent
    <3>2. task' = [task EXCEPT ![c] = [u EXCEPT !.at = "saving", !.parent = p]]
      BY <1>1, <3>1 DEF IntakeInv, TasksOK, TaskState
    <3>3. p \in 0..Len(rows)
      BY <1>1, <2>1
    <3> HIDE DEF p
    <3>4. QED BY <3>2, <3>3
  <2>4. QED BY <2>2, <2>3
<1>4. RestOK'
  BY <1>2 DEF IntakeInv, RestOK
<1>5. CASE PartDone(c)
  BY <1>1, <1>2, <1>4, <1>5, PartDoneKeeps DEF IntakeInv
<1>6. ASSUME NEW n \in 0..Len(rows), NEW at \in {"reading", "saving"},
             task' = [task EXCEPT ![c] = [u EXCEPT !.at = at, !.parent = n]]
      PROVE  IntakeInv'
  <2> DEFINE t == [u EXCEPT !.at = at, !.parent = n]
  <2>1. u.at # "idle" /\ u.at # "downloading" /\ at \in ControllerSteps
    BY <1>1 DEF ControllerSteps
  <2>2. task' = [task EXCEPT ![c] = t]
    BY <1>6
  <2>3. /\ t \in TaskState /\ t.at = at /\ t.parent = n
        /\ t.key = u.key /\ t.part = u.part
    <3>1. n \in Nat /\ n <= Len(rows) /\ at \in Steps
      BY <1>1 DEF Steps, ControllerSteps
    <3>2. QED BY <1>1, <3>1 DEF TaskState
  <2> HIDE DEF t, u
  <2>4. WorkerOK(rows, c, t)
    <3>1. t.at \in ControllerSteps /\ t.parent <= Len(rows)
      BY <1>1, <2>1, <2>3
    <3>2. QED BY <1>1, <2>1, <2>3, <3>1, ControllerMoves
  <2>5. t.at \notin LockSteps /\ t.at # "downloading"
    BY <2>3 DEF LockSteps
  <2>6. RowsOK' /\ TasksOK' /\ LockOK' /\ AloneOK' /\ RetriesOK'
    BY <1>1, <1>2, <2>1, <2>2, <2>3, <2>4, <2>5, PlainMove DEF u
  <2>7. QED BY <1>4, <2>6 DEF IntakeInv
<1>7. QED BY <1>3, <1>5, <1>6

\* The rows change without a locked one, and the controller goes on.
LEMMA ControllerMove ==
  ASSUME IntakeInv, NEW c \in Controllers, task[c].at \in ControllerSteps,
         RowsOK', Grown(rows, rows'),
         \A n \in DOMAIN rows' \ DOMAIN rows : ~rows'[n].locked,
         PartDone(c) \/ (task[c].parent # 0 /\ Goto(c, "superseding")),
         UNCHANGED <<retries, uploads, aged, terminal, todo, marked, seen, deliveries,
                     faults>>
  PROVE  IntakeInv'
<1> DEFINE u == task[c]
<1>1. /\ c \in Workers /\ u \in TaskState /\ WorkerOK(rows, c, u)
      /\ Len(rows) \in Nat /\ Len(rows') \in Nat /\ Len(rows) <= Len(rows')
      /\ DOMAIN rows = 1..Len(rows) /\ DOMAIN rows' = 1..Len(rows')
      /\ u.at \notin {"idle", "downloading"}
  BY Constants DEF IntakeInv, TasksOK, RowsOK, Grown, ControllerSteps
<1>2. RestOK'
  BY DEF IntakeInv, RestOK
<1>3. AloneOK'
  BY AloneKept DEF IntakeInv
<1>4. MarksKept(c)
  BY <1>1 DEF MarksKept, Grown
<1>5. \E t \in TaskState :
        /\ task' = [task EXCEPT ![c] = t] /\ WorkerOK(rows', c, t)
        /\ t.at \notin LockSteps /\ t.at # "downloading"
  <2>1. CASE PartDone(c)
    <3>1. PICK t \in TaskState :
            /\ task' = [task EXCEPT ![c] = t] /\ WorkerOK(rows', c, t)
            /\ t.at \in {"idle", "storing", "received", "remembering"}
      BY <1>1, <2>1, PartDoneMoves DEF IntakeInv
    <3>2. QED BY <3>1 DEF LockSteps
  <2>2. CASE Goto(c, "superseding")
    <3> DEFINE t == [u EXCEPT !.at = "superseding"]
    <3>1. task' = [task EXCEPT ![c] = t]
      BY <2>2 DEF Goto
    <3>2. u.at \notin LockSteps /\ u.at \in ControllerSteps /\ u.at # "idle"
      BY <1>1 DEF LockSteps, ControllerSteps
    <3>3. WorkerOK(rows', c, u)
      BY <1>1, StaysInOrder
    <3>4. t \in TaskState /\ t.at = "superseding" /\ WorkerOK(rows', c, t)
      BY <1>1, <3>2, <3>3, GoesOn DEF Steps, LockSteps, ControllerSteps
    <3> HIDE DEF t
    <3>5. QED BY <3>1, <3>4 DEF LockSteps
  <2>3. QED BY <2>1, <2>2
<1>6. TasksOK' /\ LockOK' /\ RetriesOK'
  BY <1>1, <1>4, <1>5, RowsMove
<1>7. QED BY <1>2, <1>3, <1>6 DEF IntakeInv

\* A row created without the lock, and the supersession that follows it.
LEMMA ControllerWrites ==
  ASSUME IntakeInv, NEW c \in Controllers, ControllerCreate(c) \/ ControllerSupersede(c)
  PROVE  IntakeInv'
<1> DEFINE u == task[c]
<1>1. /\ c \in Workers /\ u \in TaskState /\ Handles(c, u)
      /\ u.at \in ControllerSteps /\ u.at # "idle" /\ u.at # "downloading"
      /\ rows \in Seq(RowState) /\ Len(rows) \in Nat /\ u.parent \in 0..Len(rows)
  <2>1. /\ c \in Workers /\ u \in TaskState /\ WorkerOK(rows, c, u)
        /\ u.at \in {"saving", "superseding"} /\ rows \in Seq(RowState)
    BY Constants DEF ControllerCreate, ControllerSupersede, IntakeInv, TasksOK, RowsOK
  <2> HIDE DEF u
  <2>2. Len(rows) \in Nat /\ u.parent \in 0..Len(rows)
    BY <2>1 DEF WorkerOK, TaskState
  <2>3. QED BY <2>1, <2>2 DEF WorkerOK, ControllerSteps
<1>2. UNCHANGED <<retries, uploads, aged, terminal, todo, marked, seen, deliveries,
                  faults>>
  BY DEF ControllerCreate, ControllerSupersede, RecoveryUnchanged, MailUnchanged,
         BoundsUnchanged
<1>3. CASE PartDone(c) /\ UNCHANGED rows
  BY <1>1, <1>2, <1>3, PartDoneKeeps DEF IntakeInv, RestOK
<1>4. CASE /\ rows' = Append(rows, Row(FileFor(u), u.key, FALSE))
           /\ PartDone(c) \/ (u.parent # 0 /\ Goto(c, "superseding"))
  <2> DEFINE row == Row(FileFor(u), u.key, FALSE)
  <2>1. row \in RowState /\ ~row.locked
    BY <1>1, FileHandled DEF Row, RowState, States, Handles
  <2>2. rows' = Append(rows, row)
    BY <1>4
  <2> HIDE DEF row
  <2>3. /\ rows' \in Seq(RowState) /\ Len(rows') = Len(rows) + 1
        /\ rows'[Len(rows) + 1] = row /\ Grown(rows, rows')
    <3>1. rows \in Seq(RowState) /\ row \in RowState /\ rows' = Append(rows, row)
      BY <1>1, <2>1, <2>2
    <3>2. QED BY ONLY <3>1, Creating
  <2>4. \A n \in DOMAIN rows' \ DOMAIN rows : ~rows'[n].locked
    BY <1>1, <2>1, <2>3
  <2>5. QED BY <1>1, <1>2, <1>4, <2>3, <2>4, ControllerMove DEF RowsOK
<1>5. CASE rows' = Superseded(rows, u.parent) /\ PartDone(c)
  <2>1. /\ rows' \in Seq(RowState) /\ Len(rows') = Len(rows) /\ Grown(rows, rows')
    BY <1>1, <1>5, Superseding
  <2>2. DOMAIN rows' = DOMAIN rows
    BY <1>1, <2>1
  <2>3. QED BY <1>1, <1>2, <1>5, <2>1, <2>2, ControllerMove DEF RowsOK
<1>6. QED BY <1>3, <1>4, <1>5 DEF ControllerCreate, ControllerSupersede

-----------------------------------------------------------------------------
(* Recovery and the environment *)

\* A run lists its candidates, or passes one over.
LEMMA RecoveryLists ==
  ASSUME IntakeInv, NEW r \in Recoveries,
         RecoverStart(r) \/ (RecoverNext(r) /\ UNCHANGED task)
  PROVE  IntakeInv'
<1>1. /\ UNCHANGED <<rows, task, retries>>
      /\ UNCHANGED <<uploads, aged, terminal, marked, seen, deliveries, faults>>
  BY DEF RecoverStart, RecoverNext, MailUnchanged, BoundsUnchanged
<1>2. RowsOK' /\ TasksOK' /\ LockOK' /\ AloneOK' /\ RetriesOK'
  BY <1>1 DEF IntakeInv, RowsOK, TasksOK, LockOK, AloneOK, RetriesOK, Copies,
              LockedCopies, Locks, FileFor, Downloads
<1>3. todo' \in [Recoveries -> Seq(Intakes)]
  <2>1. CASE RecoverStart(r)
    <3> DEFINE k == IF aged < RecoveryLimit THEN aged ELSE RecoveryLimit
    <3>1. aged \in 0..Len(uploads) /\ RecoveryLimit \in Nat /\ uploads \in Seq(Intakes)
          /\ Len(uploads) \in Nat
      BY IntakeAssumption DEF IntakeInv, RestOK
    <3>2. k \in 0..Len(uploads)
      BY <3>1
    <3> HIDE DEF k
    <3>3. SubSeq(uploads, 1, k) \in Seq(Intakes)
      BY <3>1, <3>2
    <3>4. Candidates \in Seq(Intakes)
      BY <3>3 DEF Candidates, k
    <3>5. QED BY <2>1, <3>4 DEF RecoverStart, IntakeInv, RestOK
  <2>2. CASE RecoverNext(r)
    <3>1. todo[r] \in Seq(Intakes) /\ todo[r] # <<>>
      BY <2>2 DEF RecoverNext, IntakeInv, RestOK
    <3>2. Tail(todo[r]) \in Seq(Intakes)
      BY <3>1
    <3>3. todo' = [todo EXCEPT ![r] = Tail(todo[r])]
      BY <2>2 DEF RecoverNext
    <3>4. QED BY <3>2, <3>3 DEF IntakeInv, RestOK
  <2>3. QED BY <2>1, <2>2
<1>4. RestOK'
  BY <1>1, <1>3 DEF IntakeInv, RestOK
<1>5. QED BY <1>2, <1>4 DEF IntakeInv

\* What the downloads in flight are.
LEMMA DownloadsFinite ==
  ASSUME NEW i
  PROVE  /\ IsFiniteSet(Downloads(i)) /\ Cardinality(Downloads(i)) \in Nat
         /\ Cardinality(Downloads(i)) <= Cardinality(Recoveries)
<1>1. Downloads(i) \subseteq Recoveries
  BY DEF Downloads
<1>2. QED BY <1>1, Constants, FS_Subset, FS_CardinalityType

\* The downloads while a worker of recovery moves.
LEMMA DownloadsMove ==
  ASSUME NEW r \in Recoveries, \A v \in Workers \ {r} : task'[v] = task[v]
  PROVE  \A i : Downloads(i)' \ {r} = Downloads(i) \ {r}
<1>1. \A v \in Recoveries \ {r} : task'[v] = task[v]
  BY Constants
<1>2. QED BY <1>1 DEF Downloads

\* A run starts the download of a candidate that has retries left.
LEMMA RecoveryStarts ==
  ASSUME IntakeInv, NEW r \in Recoveries, RecoverNext(r), ~ UNCHANGED task
  PROVE  IntakeInv'
<1> SUFFICES ASSUME NEW i, i = Head(todo[r])
             PROVE  IntakeInv'
  OBVIOUS
<1> DEFINE t == Begin("downloading", i)
<1>1. /\ r \in Workers /\ r \notin Controllers /\ r # Poller
      /\ task[r] = Idle /\ task[r].at = "idle"
      /\ todo \in [Recoveries -> Seq(Intakes)] /\ todo[r] \in Seq(Intakes)
      /\ todo[r] # <<>> /\ todo' = [todo EXCEPT ![r] = Tail(todo[r])]
      /\ task' = [task EXCEPT ![r] = t] /\ ~(retries[i] >= MaxRetries)
      /\ UNCHANGED <<rows, retries>>
      /\ UNCHANGED <<uploads, aged, terminal, marked, seen, deliveries, faults>>
  BY Constants DEF RecoverNext, MailUnchanged, BoundsUnchanged, IntakeInv, RestOK, Idle
<1>2. i \in Intakes /\ i \in Keys /\ Tail(todo[r]) \in Seq(Intakes)
  BY <1>1, Constants
<1>3. Len(rows) \in Nat /\ RowsOK' /\ AloneOK' /\ Grown(rows, rows')
  BY <1>1 DEF IntakeInv, RowsOK, AloneOK, Copies, LockedCopies, Grown
<1>4. /\ t \in TaskState /\ t.at = "downloading" /\ t.key = i /\ WorkerOK(rows, r, t)
  BY <1>1, <1>2, <1>3, Begins
<1>5. t.at \notin LockSteps
  BY <1>4 DEF LockSteps
<1> HIDE DEF t
<1>6. TasksOK' /\ task'[r] = t /\ \A v \in Workers \ {r} : task'[v] = task[v]
  BY <1>1, <1>3, <1>4, TaskMoves DEF IntakeInv
<1>7. MarksKept(r)
  BY <1>1 DEF MarksKept
<1>8. LockOK'
  BY <1>1, <1>4, <1>5, <1>6, <1>7, LockKept DEF IntakeInv
<1>9. RetriesOK'
  <2>1. \A j : Downloads(j)' \ {r} = Downloads(j) \ {r}
    BY <1>6, DownloadsMove
  <2>2. \A j : r \notin Downloads(j)
    BY <1>1 DEF Downloads
  <2>3. \A j \in Intakes : j # i => Downloads(j)' = Downloads(j)
    <3>1. \A j : j # i => r \notin Downloads(j)'
      BY <1>4, <1>6 DEF Downloads
    <3>2. QED BY <2>1, <2>2, <3>1
  <2>4. Cardinality(Downloads(i)') <= Cardinality(Recoveries)
        /\ Cardinality(Downloads(i)') \in Nat
    <3>1. Downloads(i)' \subseteq Recoveries
      BY DEF Downloads
    <3>2. QED BY <3>1, Constants, FS_Subset, FS_CardinalityType
  <2>5. retries[i] \in Nat /\ retries[i] < MaxRetries /\ MaxRetries \in Nat
        /\ Cardinality(Recoveries) \in Nat
    BY <1>1, <1>2, Constants DEF IntakeInv, RetriesOK
  <2>6. retries[i] + Cardinality(Downloads(i)') < MaxRetries + Cardinality(Recoveries)
    BY <2>4, <2>5
  <2>7. \A j \in Intakes :
          \/ retries[j] = 0 /\ Downloads(j)' = {}
          \/ retries[j] + Cardinality(Downloads(j)') < MaxRetries + Cardinality(Recoveries)
    BY <2>3, <2>6 DEF IntakeInv, RetriesOK
  <2>8. QED
    BY <1>1, <2>7 DEF IntakeInv, RetriesOK
<1>10. todo' \in [Recoveries -> Seq(Intakes)]
  BY <1>1, <1>2
<1>11. RestOK'
  BY <1>1, <1>10 DEF IntakeInv, RestOK
<1>12. QED BY <1>3, <1>6, <1>8, <1>9, <1>11 DEF IntakeInv

\* A download counts as a retry, whether or not it succeeds, unless the event is
\* lost; either way it is over.
LEMMA DownloadStep ==
  ASSUME IntakeInv, NEW r \in Recoveries, RecoverDownload(r)
  PROVE  IntakeInv'
<1> DEFINE u == task[r]
           i == u.key
<1>1. /\ r \in Workers /\ r \notin Controllers /\ r # Poller
      /\ u \in TaskState /\ u.at = "downloading" /\ WorkerOK(rows, r, u)
      /\ UNCHANGED retries \/ retries' = [retries EXCEPT ![i] = retries[i] + 1]
      /\ UNCHANGED faults \/ (faults < MaxFaults /\ faults' = faults + 1)
      /\ UNCHANGED rows /\ Len(rows) \in Nat
      /\ UNCHANGED <<uploads, aged, terminal, todo, marked, seen, deliveries>>
  BY Constants DEF RecoverDownload, MailUnchanged, IntakeInv, TasksOK, RowsOK
<1>2. i \in Intakes
  BY <1>1 DEF WorkerOK, Handles
<1>3. RowsOK' /\ AloneOK' /\ Grown(rows, rows')
  BY <1>1 DEF IntakeInv, RowsOK, AloneOK, Copies, LockedCopies, Grown
<1>4. \E t \in TaskState :
        /\ task' = [task EXCEPT ![r] = t] /\ WorkerOK(rows, r, t)
        /\ t.at \notin LockSteps /\ t.at # "downloading"
  <2>1. CASE Goto(r, "storing")
    <3> DEFINE t == [u EXCEPT !.at = "storing"]
    <3>1. task' = [task EXCEPT ![r] = t]
      BY <2>1 DEF Goto
    <3>2. t \in TaskState /\ t.at = "storing" /\ WorkerOK(rows, r, t)
      BY <1>1, GoesOn DEF Steps, LockSteps, ControllerSteps
    <3> HIDE DEF t
    <3>3. QED BY <3>1, <3>2 DEF LockSteps
  <2>2. CASE PartDone(r)
    <3>1. PICK t \in TaskState :
            /\ task' = [task EXCEPT ![r] = t] /\ WorkerOK(rows, r, t)
            /\ t.at \in {"idle", "storing", "received", "remembering"}
      BY <1>1, <2>2, PartDoneMoves DEF IntakeInv
    <3>2. QED BY <3>1 DEF LockSteps
  <2>3. QED BY <2>1, <2>2 DEF RecoverDownload
<1>5. PICK t \in TaskState :
        /\ task' = [task EXCEPT ![r] = t] /\ WorkerOK(rows, r, t)
        /\ t.at \notin LockSteps /\ t.at # "downloading"
  BY <1>4
<1>6. TasksOK' /\ task'[r] = t /\ \A v \in Workers \ {r} : task'[v] = task[v]
  BY <1>1, <1>3, <1>5, TaskMoves DEF IntakeInv
<1>7. MarksKept(r)
  BY <1>1 DEF MarksKept
<1>8. LockOK'
  BY <1>1, <1>5, <1>6, <1>7, LockKept DEF IntakeInv
<1>9. RetriesOK'
  <2>1. \A j : Downloads(j)' \ {r} = Downloads(j) \ {r}
    BY <1>6, DownloadsMove
  <2>2. \A j : r \notin {d \in Recoveries : task'[d].at = "downloading"
                                            /\ task'[d].key = j}
    BY <1>5, <1>6
  <2>3. \A j : Downloads(j)' = Downloads(j) \ {r}
    BY <2>1, <2>2 DEF Downloads
  <2>4. r \in Downloads(i) /\ \A j : j # i => r \notin Downloads(j)
    BY <1>1 DEF Downloads
  <2>5. \A j \in Intakes : j # i =>
          \/ retries'[j] = 0 /\ Downloads(j)' = {}
          \/ retries'[j] + Cardinality(Downloads(j)') < MaxRetries + Cardinality(Recoveries)
    <3>1. \A j : j # i => Downloads(j)' = Downloads(j)
      BY <2>3, <2>4
    <3>2. \A j \in Intakes : j # i => retries'[j] = retries[j]
      BY <1>1 DEF IntakeInv, RetriesOK
    <3> HIDE DEF i
    <3>3. QED BY <3>1, <3>2 DEF IntakeInv, RetriesOK
  <2>6. retries'[i] + Cardinality(Downloads(i) \ {r}) < MaxRetries + Cardinality(Recoveries)
    <3>1. /\ IsFiniteSet(Downloads(i)) /\ Cardinality(Downloads(i)) \in Nat
          /\ Cardinality(Downloads(i) \ {r}) = Cardinality(Downloads(i)) - 1
      BY <2>4, DownloadsFinite, FS_RemoveElement
    <3>2. /\ retries \in [Intakes -> Nat] /\ retries[i] \in Nat
          /\ retries'[i] = retries[i] \/ retries'[i] = retries[i] + 1
      BY <1>1, <1>2 DEF IntakeInv, RetriesOK
    <3>3. retries[i] + Cardinality(Downloads(i)) < MaxRetries + Cardinality(Recoveries)
      BY <1>2, <2>4 DEF IntakeInv, RetriesOK
    <3>4. MaxRetries + Cardinality(Recoveries) \in Nat
      BY Constants
    <3> HIDE DEF i
    <3>5. QED BY <3>1, <3>2, <3>3, <3>4
  <2>7. retries' \in [Intakes -> Nat]
    <3>1. retries \in [Intakes -> Nat] /\ retries[i] + 1 \in Nat
      BY <1>2 DEF IntakeInv, RetriesOK
    <3>2. QED BY <1>1, <3>1
  <2>8. \A j \in Intakes :
          \/ retries'[j] = 0 /\ Downloads(j)' = {}
          \/ retries'[j] + Cardinality(Downloads(j)') < MaxRetries + Cardinality(Recoveries)
    <3> HIDE DEF i
    <3>1. QED BY <2>3, <2>5, <2>6
  <2>9. QED BY <2>7, <2>8 DEF RetriesOK
<1>10. RestOK'
  BY <1>1, IntakeAssumption DEF IntakeInv, RestOK
<1>11. QED BY <1>3, <1>6, <1>8, <1>9, <1>10 DEF IntakeInv

\* An upload ages, an invoice is protected, the process restarts.
LEMMA EnvironmentSteps ==
  ASSUME IntakeInv, Age \/ (\E n \in DOMAIN rows : Protect(n)) \/ Crash
  PROVE  IntakeInv'
<1>1. CASE Age
  <2>1. /\ UNCHANGED <<rows, task, retries>> /\ aged' = aged + 1 /\ aged < Len(uploads)
        /\ UNCHANGED <<uploads, terminal, todo, marked, seen, deliveries, faults>>
    BY <1>1 DEF Age, MailUnchanged, BoundsUnchanged
  <2>2. RowsOK' /\ TasksOK' /\ LockOK' /\ AloneOK' /\ RetriesOK'
    BY <2>1 DEF IntakeInv, RowsOK, TasksOK, LockOK, AloneOK, RetriesOK, Copies,
                LockedCopies, Locks, FileFor, Downloads
  <2>3. aged' \in 0..Len(uploads)
    BY <2>1 DEF IntakeInv, RestOK
  <2>4. QED BY <2>1, <2>2, <2>3 DEF IntakeInv, RestOK
<1>2. ASSUME NEW n \in DOMAIN rows, Protect(n)
      PROVE  IntakeInv'
  <2>1. /\ rows[n].state = "live" /\ rows' = [rows EXCEPT ![n].state = "protected"]
        /\ UNCHANGED <<task, retries>>
        /\ UNCHANGED <<uploads, aged, terminal, todo, marked, seen, deliveries, faults>>
    BY <1>2 DEF Protect, MailUnchanged, BoundsUnchanged, RecoveryUnchanged
  <2>2. /\ rows \in Seq(RowState) /\ Len(rows) \in Nat /\ DOMAIN rows = 1..Len(rows)
        /\ n \in 1..Len(rows)
    BY DEF IntakeInv, RowsOK
  <2>3. \A k \in 1..Len(rows) :
          /\ rows[k] \in RowState
          /\ rows'[k] = IF k = n THEN [rows[k] EXCEPT !.state = "protected"] ELSE rows[k]
    BY <2>1, <2>2
  <2>4. \A k \in 1..Len(rows) :
          /\ rows'[k] \in RowState /\ rows'[k].file = rows[k].file
          /\ rows'[k].mail = rows[k].mail /\ rows'[k].locked = rows[k].locked
          /\ rows'[k].state = IF k = n THEN "protected" ELSE rows[k].state
    BY <2>3 DEF RowState, States
  <2>5. rows' \in Seq(RowState) /\ Len(rows') = Len(rows)
    <3>1. [rows[n] EXCEPT !.state = "protected"] \in RowState
      BY <2>2, <2>3, <2>4
    <3>2. QED BY <2>1, <2>2, <3>1
  <2>6. Grown(rows, rows') /\ DOMAIN rows' = DOMAIN rows
    BY <2>1, <2>2, <2>4, <2>5 DEF Grown
  <2>7. RowsOK' /\ AloneOK'
    BY <2>5, <2>6, AloneKept DEF IntakeInv, RowsOK
  <2>8. TasksOK'
    BY <2>1, <2>2, <2>5, <2>6, StaysInOrder DEF IntakeInv, TasksOK
  <2>9. \A f : LockedCopies(f)' = LockedCopies(f)
    BY <2>2, <2>4, <2>6 DEF LockedCopies, Copies
  <2>10. LockOK'
    BY <2>1, <2>9 DEF IntakeInv, LockOK, Locks, FileFor
  <2>11. RetriesOK' /\ RestOK'
    BY <2>1 DEF IntakeInv, RetriesOK, RestOK, Downloads
  <2>12. QED BY <2>7, <2>8, <2>10, <2>11 DEF IntakeInv
<1>3. CASE Crash
  <2>1. /\ task' = [w \in Workers |-> Idle] /\ seen' = {}
        /\ todo' = [r \in Recoveries |-> <<>>]
        /\ faults < MaxFaults /\ faults' = faults + 1
        /\ UNCHANGED <<rows, retries, uploads, aged, terminal, marked, deliveries>>
    BY <1>3 DEF Crash
  <2>2. RowsOK' /\ AloneOK' /\ Len(rows) \in Nat
    BY <2>1 DEF IntakeInv, RowsOK, AloneOK, Copies, LockedCopies
  <2>3. TasksOK'
    BY <2>1, <2>2, IdleInOrder DEF TasksOK
  <2>4. LockOK'
    BY <2>1 DEF LockOK, Locks, LockSteps, Idle
  <2>5. RetriesOK'
    <3>1. \A i : Downloads(i)' = {}
      BY <2>1, Constants DEF Downloads, Idle
    <3>2. Cardinality({}) = 0 /\ \A i : Cardinality(Downloads(i)) \in Nat
      BY FS_EmptySet, DownloadsFinite
    <3>3. \A i \in Intakes : retries[i] \in Nat
      BY DEF IntakeInv, RetriesOK
    <3>4. \A i \in Intakes :
            \/ retries[i] = 0 /\ Downloads(i)' = {}
            \/ retries[i] + 0 < MaxRetries + Cardinality(Recoveries)
      BY <3>1, <3>2, <3>3, Constants DEF IntakeInv, RetriesOK
    <3>5. QED BY <2>1, <3>1, <3>2, <3>4 DEF IntakeInv, RetriesOK
  <2>6. RestOK'
    BY <2>1, IntakeAssumption DEF IntakeInv, RestOK
  <2>7. QED BY <2>2, <2>3, <2>4, <2>5, <2>6 DEF IntakeInv
<1>4. QED BY <1>1, <1>2, <1>3

-----------------------------------------------------------------------------
(* The theorems *)

\* The invariant holds at the start and every step keeps it.
LEMMA InvInductive == (Init => IntakeInv) /\ (IntakeInv /\ [Next]_vars => IntakeInv')
<1>1. ASSUME Init
      PROVE  IntakeInv
  <2>1. rows = <<>> /\ rows \in Seq(RowState) /\ Len(rows) = 0 /\ DOMAIN rows = {}
    BY <1>1 DEF Init
  <2>2. TasksOK
    BY <1>1, <2>1, IdleInOrder DEF Init, TasksOK
  <2>3. LockOK /\ AloneOK
    BY <1>1, <2>1 DEF Init, LockOK, AloneOK, Locks, LockSteps, Idle, LockedCopies, Copies
  <2>4. RetriesOK
    BY <1>1, Constants DEF Init, RetriesOK, Downloads, Idle
  <2>5. RestOK
    BY <1>1, IntakeAssumption DEF Init, RestOK
  <2>6. QED BY <2>1, <2>2, <2>3, <2>4, <2>5 DEF IntakeInv, RowsOK
<1>2. ASSUME IntakeInv, Next
      PROVE  IntakeInv'
  <2>1. CASE \/ \E q \in Requests, i \in Intakes : PowerAutomatePost(q, i)
             \/ \E c \in Controllers, m \in Mails : ControllerPost(c, m)
             \/ \E m \in Inbox : PollMessage(m)
    BY <1>2, <2>1, DeliverySteps
  <2>2. CASE RememberMessage
    BY <1>2, <2>2, RememberStep
  <2>3. ASSUME NEW w \in Workers \ Controllers, Attempt(w)
        PROVE  IntakeInv'
    BY <1>2, <2>3, StoreStep, ExtractStep, LockStep, ReplaceStep, CommitStep, FinishStep
       DEF Attempt
  <2>4. ASSUME NEW c \in Controllers, Control(c)
        PROVE  IntakeInv'
    BY <1>2, <2>4, ControllerChecks, ControllerWrites DEF Control
  <2>5. ASSUME NEW r \in Recoveries, Recover(r)
        PROVE  IntakeInv'
    BY <1>2, <2>5, RecoveryLists, RecoveryStarts, DownloadStep DEF Recover
  <2>6. CASE Age \/ (\E n \in DOMAIN rows : Protect(n)) \/ Crash
    BY <1>2, <2>6, EnvironmentSteps
  <2>7. QED BY <1>2, <2>1, <2>2, <2>3, <2>4, <2>5, <2>6 DEF Next
<1>3. ASSUME IntakeInv, UNCHANGED vars
      PROVE  IntakeInv'
  BY <1>3 DEF vars, IntakeInv, RowsOK, TasksOK, LockOK, AloneOK, RetriesOK, RestOK, Copies,
              LockedCopies, Locks, FileFor, Downloads
<1>4. QED BY <1>1, <1>2, <1>3

\* The strengthened invariant of the intake: its types, who has which file's
\* lock, and which file has locked copies.
THEOREM IntakeInvariant == Spec => []IntakeInv
  BY InvInductive, PTL DEF Spec

\* Every reachable state has its declared types; a copy that a transaction is
\* about to replace is a copy of its own file (emailIntakeService.ts: the parent
\* is read under the file's advisory lock), and recovery runs, overlapping as
\* they may, exceed the limit of retries by less than their number.
THEOREM IntakeTypes == Spec => []TypeOK
<1>1. IntakeInv => TypeOK
  <2> SUFFICES ASSUME IntakeInv PROVE TypeOK
    OBVIOUS
  <2>1. /\ rows \in Seq(RowState) /\ Len(rows) \in Nat /\ RestOK
        /\ task \in [Workers -> TaskState] /\ \A w \in Workers : WorkerOK(rows, w, task[w])
    BY DEF IntakeInv, RowsOK, TasksOK
  <2>2. \A w \in Workers :
          /\ task[w].at \in {"idle", "storing", "extracting", "locking", "replacing",
                             "committing", "finishing", "remembering", "downloading",
                             "received", "reading", "saving", "superseding"}
          /\ task[w].key \in Keys \cup {None} /\ task[w].part \in Nat
          /\ task[w].parent \in 0..Len(rows)
          /\ task[w] = [at |-> task[w].at, key |-> task[w].key, part |-> task[w].part,
                        parent |-> task[w].parent]
    <3>1. ASSUME NEW w \in Workers
          PROVE  task[w] \in TaskState /\ task[w].parent <= Len(rows)
      BY <2>1 DEF WorkerOK
    <3>2. QED BY <2>1, <3>1 DEF TaskState, Steps, LockSteps, ControllerSteps
  <2>3. task \in [Workers -> [at : {"idle", "storing", "extracting", "locking", "replacing",
                                    "committing", "finishing", "remembering",
                                    "downloading", "received", "reading", "saving",
                                    "superseding"},
                              key : Keys \cup {None}, part : Nat, parent : 0..Len(rows)]]
    BY <2>1, <2>2
  <2>4. \A w \in Workers : task[w].at = "committing" =>
          task[w].parent = 0 \/ rows[task[w].parent].file = FileFor(task[w])
    BY <2>1 DEF WorkerOK, LockSteps
  <2>5. retries \in [Intakes -> Nat]
        /\ \A i \in Intakes :
             retries[i] < MaxRetries + Cardinality(Recoveries) \/ retries[i] = 0
    BY DownloadsFinite, Constants DEF IntakeInv, RetriesOK
  <2>6. QED
    BY <2>1, <2>3, <2>4, <2>5 DEF TypeOK, RestOK, RowState, States
<1>2. QED BY <1>1, IntakeInvariant, PTL

\* While no copy of a file has been superseded, the locked channels have created
\* at most one row for it, however many requests, polls and recovery runs carry
\* the file: the repeated check and the insert are one critical section
\* (emailIntakeService.ts, pg_advisory_xact_lock).
THEOREM FirstCopy == Spec => []FirstCopyIsAlone
<1>1. IntakeInv => FirstCopyIsAlone
  <2> SUFFICES ASSUME IntakeInv, NEW f \in Files,
                      \A n \in Copies(f) : rows[n].state # "superseded"
               PROVE  Cardinality(LockedCopies(f)) <= 1
    BY DEF FirstCopyIsAlone, LockedCopies
  <2>1. \A m, n \in LockedCopies(f) : m = n
    BY DEF IntakeInv, AloneOK
  <2>2. CASE LockedCopies(f) = {}
    BY <2>2, FS_EmptySet
  <2>3. ASSUME NEW n \in LockedCopies(f)
        PROVE  Cardinality(LockedCopies(f)) = 1
    <3>1. LockedCopies(f) = {n}
      BY <2>1, <2>3
    <3>2. QED BY <3>1, FS_Singleton
  <2>4. QED BY <2>2, <2>3
<1>2. QED BY <1>1, IntakeInvariant, PTL

-----------------------------------------------------------------------------
(* Which rows succeed a superseded one *)

\* A row created for a mail is one of the mail's parts.
MailFilesOK ==
  \A n \in DOMAIN rows : rows[n].mail \in Mails =>
    \E j \in 1..Len(Parts[rows[n].mail]) : rows[n].file = Parts[rows[n].mail][j]

\* The parent a controller has chosen is a copy of its file or a row of its mail,
\* and when it is about to be superseded its successor exists.
ParentOK(rs, t) ==
  t.at # "idle" =>
    /\ t.key \in Mails
    /\ t.parent # 0 /\ t.at \in {"reading", "saving"} =>
         rs[t.parent].file = FileFor(t) \/ rs[t.parent].mail = t.key
    /\ t.parent # 0 /\ t.at = "superseding" =>
         \E k \in DOMAIN rs : k > t.parent /\ Follows(rs, k, t.parent)

SuccessorInv ==
  MailFilesOK /\ SuccessorStands /\ \A c \in Controllers : ParentOK(rows, task[c])

\* What a step must show of the rows and the controllers it changes.
LEMMA SuccessorKept ==
  ASSUME IntakeInv, SuccessorInv, RowsOK', Grown(rows, rows'),
         \A n \in DOMAIN rows' \ DOMAIN rows : rows'[n].mail \in Mails =>
           \E j \in 1..Len(Parts[rows'[n].mail]) :
             rows'[n].file = Parts[rows'[n].mail][j],
         \A n \in DOMAIN rows' : rows'[n].state = "superseded" =>
           \/ n \in DOMAIN rows /\ rows[n].state = "superseded"
           \/ \E k \in DOMAIN rows' : k > n /\ Follows(rows', k, n),
         \A c \in Controllers : task'[c] = task[c] \/ ParentOK(rows', task'[c])
  PROVE  SuccessorInv'
<1>1. /\ DOMAIN rows = 1..Len(rows) /\ DOMAIN rows' = 1..Len(rows')
      /\ Len(rows) \in Nat /\ Len(rows') \in Nat /\ Len(rows) <= Len(rows')
      /\ DOMAIN rows \subseteq DOMAIN rows'
  BY DEF IntakeInv, RowsOK, Grown
<1>2. \A n \in DOMAIN rows : rows'[n].file = rows[n].file /\ rows'[n].mail = rows[n].mail
  BY <1>1 DEF Grown
<1>3. \A n \in DOMAIN rows :
        (\E k \in DOMAIN rows : k > n /\ Follows(rows, k, n))
          => \E k \in DOMAIN rows' : k > n /\ Follows(rows', k, n)
  BY <1>1, <1>2 DEF Follows
<1>4. MailFilesOK'
  <2>1. \A n \in DOMAIN rows' : rows'[n].mail \in Mails =>
          \E j \in 1..Len(Parts[rows'[n].mail]) : rows'[n].file = Parts[rows'[n].mail][j]
    BY <1>2 DEF SuccessorInv, MailFilesOK
  <2>2. QED BY <2>1 DEF MailFilesOK
<1>5. SuccessorStands'
  <2>1. \A n \in DOMAIN rows' : rows'[n].state = "superseded" =>
          \E k \in DOMAIN rows' : k > n /\ Follows(rows', k, n)
    BY <1>3 DEF SuccessorInv, SuccessorStands
  <2>2. QED BY <2>1 DEF SuccessorStands, Follows
<1>6. ASSUME NEW c \in Controllers, ParentOK(rows, task[c]), task'[c] = task[c]
      PROVE  ParentOK(rows', task'[c])
  <2> DEFINE t == task[c]
  <2>1. t.parent \in Nat /\ t.parent <= Len(rows)
    BY Constants DEF IntakeInv, TasksOK, WorkerOK, TaskState
  <2>2. t.parent # 0 => t.parent \in DOMAIN rows
    BY <1>1, <2>1
  <2> HIDE DEF t
  <2>3. ParentOK(rows', t)
    BY <1>2, <1>3, <1>6, <2>2 DEF ParentOK, t
  <2>4. QED BY <1>6, <2>3 DEF t
<1>7. \A c \in Controllers : ParentOK(rows', task'[c])
  BY <1>6 DEF SuccessorInv
<1>8. (\A c \in Controllers : ParentOK(rows, task[c]))'
  BY <1>7 DEF ParentOK, Follows, FileFor
<1>9. QED BY <1>4, <1>5, <1>8 DEF SuccessorInv

\* A step that leaves the rows alone.
LEMMA SuccessorPlain ==
  ASSUME IntakeInv, SuccessorInv, UNCHANGED rows,
         \A c \in Controllers : task'[c] = task[c] \/ ParentOK(rows, task'[c])
  PROVE  SuccessorInv'
<1>1. RowsOK' /\ Grown(rows, rows')
  BY DEF IntakeInv, RowsOK, Grown
<1>2. QED BY <1>1, SuccessorKept

\* The file of a row that a worker creates.
LEMMA CreatedFile ==
  ASSUME IntakeInv, NEW w \in Workers, task[w].at # "idle", task[w].key \in Mails
  PROVE  \E j \in 1..Len(Parts[task[w].key]) : FileFor(task[w]) = Parts[task[w].key][j]
<1>1. Handles(w, task[w])
  BY DEF IntakeInv, TasksOK, WorkerOK
<1>2. task[w].key \notin Intakes
  BY Constants
<1>3. task[w].part \in 1..Len(Parts[task[w].key])
  BY <1>1, <1>2 DEF Handles
<1>4. QED BY <1>2, <1>3 DEF FileFor

\* A controller that is done with a part has no parent.
LEMMA ControllerDone ==
  ASSUME IntakeInv, SuccessorInv, NEW c \in Controllers, task[c].at # "idle", PartDone(c)
  PROVE  \A rs : \A d \in Controllers : task'[d] = task[d] \/ ParentOK(rs, task'[d])
<1> DEFINE u == task[c]
           more == c \in Controllers \cup {Poller} /\ u.part < Len(Parts[u.key])
           next == [Begin("received", u.key) EXCEPT !.part = u.part + 1]
<1>1. c \in Workers /\ c # Poller /\ u.key \in Mails
  BY Constants DEF SuccessorInv, ParentOK
<1>2. task' = [task EXCEPT ![c] = IF more THEN next ELSE Idle]
  BY <1>1 DEF PartDone
<1>3. task'[c] = IF more THEN next ELSE Idle
  BY <1>1, <1>2 DEF IntakeInv, TasksOK
<1>4. \A d \in Controllers \ {c} : task'[d] = task[d]
  BY <1>1, <1>2, Constants DEF IntakeInv, TasksOK
<1>5. next.parent = 0 /\ next.key = u.key /\ Idle.at = "idle"
  BY DEF Begin, Idle
<1> HIDE DEF next, more, u
<1>6. \A rs : ParentOK(rs, task'[c])
  BY <1>1, <1>3, <1>5 DEF ParentOK
<1>7. QED BY <1>4, <1>6

\* The channels with a lock, recovery and the environment leave the controllers
\* alone, but for a restart, which ends them all.
LEMMA ControllersRest ==
  ASSUME IntakeInv,
         \/ \E q \in Requests, i \in Intakes : PowerAutomatePost(q, i)
         \/ \E m \in Inbox : PollMessage(m)
         \/ RememberMessage
         \/ \E w \in Workers \ Controllers : Attempt(w)
         \/ \E r \in Recoveries : Recover(r)
         \/ Age
         \/ \E n \in DOMAIN rows : Protect(n)
         \/ Crash
  PROVE  \A rs : \A c \in Controllers : task'[c] = task[c] \/ ParentOK(rs, task'[c])
<1>1. task \in [Workers -> TaskState] /\ \A c \in Controllers : c \in Workers
  BY Constants DEF IntakeInv, TasksOK
<1>2. ASSUME NEW w, w \notin Controllers, PartDone(w)
      PROVE  \A c \in Controllers : task'[c] = task[c]
  BY <1>1, <1>2 DEF PartDone
<1>3. ASSUME NEW w, w \notin Controllers, NEW at, Goto(w, at)
      PROVE  \A c \in Controllers : task'[c] = task[c]
  BY <1>1, <1>3 DEF Goto
<1>4. ASSUME NEW q \in Requests, NEW i \in Intakes, PowerAutomatePost(q, i)
      PROVE  \A c \in Controllers : task'[c] = task[c]
  BY <1>1, <1>4, Constants DEF PowerAutomatePost
<1>5. ASSUME NEW m \in Inbox, PollMessage(m)
      PROVE  \A c \in Controllers : task'[c] = task[c]
  BY <1>1, <1>5, Constants DEF PollMessage
<1>6. ASSUME RememberMessage
      PROVE  \A c \in Controllers : task'[c] = task[c]
  BY <1>1, <1>6, Constants DEF RememberMessage
<1>7. ASSUME NEW w \in Workers \ Controllers, Attempt(w)
      PROVE  \A c \in Controllers : task'[c] = task[c]
  <2>1. CASE LockFile(w)
    <3>1. \/ PartDone(w) \/ Goto(w, "committing")
          \/ \E n : task' = [task EXCEPT ![w].at = "replacing", ![w].parent = n]
      BY <2>1 DEF LockFile
    <3>2. QED BY <1>1, <1>2, <1>3, <1>7, <3>1
  <2>2. CASE CommitCreation(w)
    <3>1. \/ PartDone(w)
          \/ task' = [task EXCEPT ![w].at = "finishing", ![w].parent = 0]
      BY <2>2 DEF CommitCreation
    <3>2. QED BY <1>1, <1>2, <1>7, <3>1
  <2>3. CASE Store(w) \/ ExtractAndCheck(w) \/ ReplaceParent(w) \/ FinishIntake(w)
    <3>1. PartDone(w) \/ \E at : Goto(w, at)
      BY <2>3 DEF Store, ExtractAndCheck, ReplaceParent, FinishIntake
    <3>2. QED BY <1>2, <1>3, <1>7, <3>1
  <2>4. QED BY <1>7, <2>1, <2>2, <2>3 DEF Attempt
<1>8. ASSUME NEW r \in Recoveries, Recover(r)
      PROVE  \A c \in Controllers : task'[c] = task[c]
  <2>1. r \notin Controllers
    BY Constants
  <2>2. CASE RecoverDownload(r)
    <3>1. PartDone(r) \/ Goto(r, "storing")
      BY <2>2 DEF RecoverDownload
    <3>2. QED BY <1>2, <1>3, <2>1, <3>1
  <2>3. CASE RecoverStart(r) \/ RecoverNext(r)
    <3>1. UNCHANGED task \/ \E t : task' = [task EXCEPT ![r] = t]
      BY <2>3 DEF RecoverStart, RecoverNext
    <3>2. QED BY <1>1, <2>1, <3>1
  <2>4. QED BY <1>8, <2>2, <2>3 DEF Recover
<1>9. ASSUME Age \/ \E n \in DOMAIN rows : Protect(n)
      PROVE  \A c \in Controllers : task'[c] = task[c]
  BY <1>9 DEF Age, Protect
<1>10. ASSUME Crash
       PROVE  \A rs : \A c \in Controllers : ParentOK(rs, task'[c])
  BY <1>1, <1>10 DEF Crash, ParentOK, Idle
<1>11. QED BY <1>4, <1>5, <1>6, <1>7, <1>8, <1>9, <1>10

\* The locked commit: the new row is a copy of the file it supersedes.
LEMMA CommitFollows ==
  ASSUME IntakeInv, SuccessorInv, NEW w \in Workers \ Controllers, CommitCreation(w)
  PROVE  SuccessorInv'
<1> DEFINE u == task[w]
           p == u.parent
           row == Row(FileFor(u), u.key, TRUE)
           rs == Superseded(rows, p)
<1>1. \A c \in Controllers : task'[c] = task[c] \/ ParentOK(rows', task'[c])
  BY ControllersRest DEF Attempt
<1>2. /\ u.at = "committing" /\ u \in TaskState /\ WorkerOK(rows, w, u) /\ Handles(w, u)
      /\ rows' = Append(rs, row) \/ UNCHANGED rows
  BY DEF CommitCreation, IntakeInv, TasksOK, WorkerOK
<1>3. /\ rows \in Seq(RowState) /\ Len(rows) \in Nat /\ p \in 0..Len(rows)
      /\ DOMAIN rows = 1..Len(rows) /\ p # 0 => rows[p].file = FileFor(u)
  BY <1>2 DEF IntakeInv, RowsOK, WorkerOK, LockSteps, TaskState
<1>4. CASE UNCHANGED rows
  <2>1. \A c \in Controllers : task'[c] = task[c] \/ ParentOK(rows, task'[c])
    BY ControllersRest DEF Attempt
  <2>2. QED BY <1>4, <2>1, SuccessorPlain
<1>5. CASE rows' = Append(rs, row)
  <2>1. row \in RowState /\ row.file = FileFor(u) /\ row.mail = u.key
    BY <1>2, FileHandled DEF Row, RowState, States, Handles
  <2>2. /\ rs \in Seq(RowState) /\ Len(rs) = Len(rows) /\ Grown(rows, rs)
        /\ \A k \in 1..Len(rows) :
             rs[k].state = "superseded" <=> rows[k].state = "superseded" \/ k = p
    BY <1>3, Superseding
  <2> HIDE DEF rs, row
  <2>3. /\ rows' \in Seq(RowState) /\ Len(rows') = Len(rows) + 1
        /\ rows'[Len(rows) + 1] = row /\ \A n \in 1..Len(rows) : rows'[n] = rs[n]
    <3>1. rs \in Seq(RowState) /\ row \in RowState /\ rows' = Append(rs, row)
      BY <1>5, <2>1, <2>2
    <3>2. /\ rows' \in Seq(RowState) /\ Len(rows') = Len(rs) + 1
          /\ rows'[Len(rs) + 1] = row /\ \A n \in 1..Len(rs) : rows'[n] = rs[n]
      BY ONLY <3>1, Creating
    <3>3. QED BY <2>2, <3>2
  <2>4. Grown(rows, rows') /\ RowsOK'
    BY <1>3, <2>2, <2>3 DEF Grown, RowsOK
  <2>5. DOMAIN rows' = 1..(Len(rows) + 1)
    BY <2>3
  <2>6. \A n \in DOMAIN rows' \ DOMAIN rows : rows'[n].mail \in Mails =>
          \E j \in 1..Len(Parts[rows'[n].mail]) : rows'[n].file = Parts[rows'[n].mail][j]
    <3>1. \A n \in DOMAIN rows' \ DOMAIN rows : rows'[n] = row
      BY <1>3, <2>3, <2>5
    <3>2. u.key \in Mails => \E j \in 1..Len(Parts[u.key]) : FileFor(u) = Parts[u.key][j]
      BY <1>2, CreatedFile
    <3>3. QED BY <2>1, <3>1, <3>2
  <2>7. \A n \in DOMAIN rows' : rows'[n].state = "superseded" =>
          \/ n \in DOMAIN rows /\ rows[n].state = "superseded"
          \/ \E k \in DOMAIN rows' : k > n /\ Follows(rows', k, n)
    <3>1. row.state = "live"
      BY DEF row, Row
    <3>2. \A n \in DOMAIN rows' : rows'[n].state = "superseded" =>
            n \in DOMAIN rows /\ (rows[n].state = "superseded" \/ n = p)
      BY <1>3, <2>2, <2>3, <2>5, <3>1
    <3>3. p \in DOMAIN rows => /\ Len(rows) + 1 \in DOMAIN rows' /\ Len(rows) + 1 > p
                               /\ Follows(rows', Len(rows) + 1, p)
      BY <1>3, <2>1, <2>2, <2>3, <2>5 DEF Follows, Grown
    <3>4. QED BY <3>2, <3>3
  <2>8. QED BY <1>1, <2>4, <2>6, <2>7, SuccessorKept
<1>6. QED BY <1>2, <1>4, <1>5

\* The controller's checks: a parent has the file or the mail at hand.
LEMMA CheckFollows ==
  ASSUME IntakeInv, SuccessorInv, NEW c \in Controllers,
         ControllerCheck(c) \/ ControllerRead(c)
  PROVE  SuccessorInv'
<1> DEFINE u == task[c]
<1>1. /\ c \in Workers /\ u \in TaskState /\ UNCHANGED rows
      /\ u.at \in {"received", "reading"} /\ u.key \in Mails
      /\ u.at = "reading" /\ u.parent # 0 =>
           rows[u.parent].file = FileFor(u) \/ rows[u.parent].mail = u.key
      /\ task \in [Workers -> TaskState]
  BY Constants DEF ControllerCheck, ControllerRead, IntakeInv, TasksOK, SuccessorInv,
                   ParentOK
<1>2. CASE PartDone(c)
  <2>1. u.at # "idle"
    BY <1>1
  <2>2. QED BY <1>1, <1>2, <2>1, ControllerDone, SuccessorPlain
<1>3. CASE ~PartDone(c)
  <2> DEFINE Goes(at, p) ==
               /\ at \in {"reading", "saving"}
               /\ task' = [task EXCEPT ![c].at = at, ![c].parent = p]
               /\ p # 0 => rows[p].file = FileFor(u) \/ rows[p].mail = u.key
  <2>1. \E at, p : Goes(at, p)
    <3>1. CASE ControllerCheck(c)
      <4>1. PICK n \in HardDuplicates(u.key, FileFor(u)) :
              task' = [task EXCEPT ![c].at = "reading", ![c].parent = n]
        BY <1>3, <3>1 DEF ControllerCheck
      <4>2. n # 0 => rows[n].file = FileFor(u) \/ rows[n].mail = u.key
        BY DEF HardDuplicates, Copies
      <4>3. Goes("reading", n)
        BY <4>1, <4>2
      <4> HIDE DEF Goes
      <4>4. QED BY <4>3
    <3>2. CASE ControllerRead(c)
      <4>1. PICK n \in HardDuplicates(None, FileFor(u)) :
              task' = [task EXCEPT ![c].at = "saving",
                                   ![c].parent = IF n # 0 THEN n ELSE @]
        BY <1>3, <3>2 DEF ControllerRead
      <4>2. n # 0 => rows[n].file = FileFor(u)
        <5>1. \A k \in DOMAIN rows : rows[k].mail # None
          <6>1. \A k \in DOMAIN rows : rows[k] \in RowState
            BY DEF IntakeInv, RowsOK
          <6>2. QED BY <6>1, Constants DEF RowState
        <5>2. QED BY <5>1 DEF HardDuplicates, Copies
      <4>3. u.at = "reading"
        BY <3>2 DEF ControllerRead
      <4> DEFINE p == IF n # 0 THEN n ELSE u.parent
      <4>4. task' = [task EXCEPT ![c].at = "saving", ![c].parent = p]
        BY <1>1, <4>1
      <4>5. p # 0 => rows[p].file = FileFor(u) \/ rows[p].mail = u.key
        BY <1>1, <4>2, <4>3
      <4>6. Goes("saving", p)
        BY <4>4, <4>5
      <4> HIDE DEF p, Goes
      <4>7. QED BY <4>6
    <3>3. QED BY <3>1, <3>2
  <2>2. PICK at, p : Goes(at, p)
    BY <2>1
  <2>3. /\ task'[c].at = at /\ task'[c].parent = p /\ task'[c].key = u.key
        /\ task'[c].part = u.part
    BY <1>1, <2>2 DEF TaskState
  <2>4. ParentOK(rows, task'[c])
    BY <1>1, <2>2, <2>3 DEF ParentOK, FileFor
  <2>5. \A d \in Controllers : task'[d] = task[d] \/ ParentOK(rows, task'[d])
    BY <1>1, <2>2, <2>4, Constants
  <2>6. QED BY <1>1, <2>5, SuccessorPlain
<1>4. QED BY <1>2, <1>3

\* The controller's create and supersede: the row created follows the parent.
LEMMA WriteFollows ==
  ASSUME IntakeInv, SuccessorInv, NEW c \in Controllers,
         ControllerCreate(c) \/ ControllerSupersede(c)
  PROVE  SuccessorInv'
<1> DEFINE u == task[c]
           p == u.parent
           row == Row(FileFor(u), u.key, FALSE)
<1>1. /\ c \in Workers /\ u \in TaskState /\ WorkerOK(rows, c, u)
      /\ u.at \in {"saving", "superseding"} /\ ParentOK(rows, u)
      /\ task \in [Workers -> TaskState] /\ rows \in Seq(RowState)
  BY Constants DEF ControllerCreate, ControllerSupersede, IntakeInv, TasksOK, RowsOK,
                   SuccessorInv
<1>2. /\ u.at # "idle" /\ u.key \in Mails /\ Handles(c, u) /\ Len(rows) \in Nat
      /\ p \in 0..Len(rows) /\ DOMAIN rows = 1..Len(rows)
  <2> HIDE DEF u
  <2>1. u.at # "idle" /\ Len(rows) \in Nat /\ u.parent \in 0..Len(rows)
        /\ DOMAIN rows = 1..Len(rows)
    BY <1>1 DEF WorkerOK, TaskState
  <2>2. QED BY <1>1, <2>1 DEF WorkerOK, ParentOK
<1>3. CASE ControllerCreate(c) /\ PartDone(c) /\ UNCHANGED rows
  <2>1. \A d \in Controllers : task'[d] = task[d] \/ ParentOK(rows, task'[d])
    BY <1>2, <1>3, ControllerDone
  <2>2. QED BY <1>3, <2>1, SuccessorPlain
<1>4. CASE ControllerCreate(c) /\ ~(PartDone(c) /\ UNCHANGED rows)
  <2>1. /\ u.at = "saving" /\ rows' = Append(rows, row)
        /\ IF p # 0 THEN Goto(c, "superseding") ELSE PartDone(c)
    BY <1>4 DEF ControllerCreate
  <2>2. row \in RowState /\ row.file = FileFor(u) /\ row.mail = u.key
        /\ row.state = "live"
    BY <1>1, <1>2, FileHandled DEF Row, RowState, States, Handles
  <2> HIDE DEF row
  <2>3. /\ rows' \in Seq(RowState) /\ Len(rows') = Len(rows) + 1
        /\ rows'[Len(rows) + 1] = row /\ \A n \in 1..Len(rows) : rows'[n] = rows[n]
        /\ Grown(rows, rows')
    <3>1. rows \in Seq(RowState) /\ row \in RowState /\ rows' = Append(rows, row)
      BY <1>1, <2>1, <2>2
    <3>2. \A n \in 1..Len(rows) : rows'[n] = rows[n]
      BY ONLY <3>1
    <3>3. /\ rows' \in Seq(RowState) /\ Len(rows') = Len(rows) + 1
          /\ rows'[Len(rows) + 1] = row /\ Grown(rows, rows')
      BY ONLY <3>1, Creating
    <3>4. QED BY <3>2, <3>3
  <2>4. DOMAIN rows' = 1..(Len(rows) + 1) /\ RowsOK'
    BY <2>3 DEF RowsOK
  <2>5. \A n \in DOMAIN rows' \ DOMAIN rows : rows'[n].mail \in Mails =>
          \E j \in 1..Len(Parts[rows'[n].mail]) : rows'[n].file = Parts[rows'[n].mail][j]
    <3>1. \A n \in DOMAIN rows' \ DOMAIN rows : rows'[n] = row
      BY <1>2, <2>3, <2>4
    <3>2. \E j \in 1..Len(Parts[u.key]) : FileFor(u) = Parts[u.key][j]
      BY <1>1, <1>2, CreatedFile
    <3>3. QED BY <2>2, <3>1, <3>2
  <2>6. \A n \in DOMAIN rows' : rows'[n].state = "superseded" =>
          n \in DOMAIN rows /\ rows[n].state = "superseded"
    BY <1>2, <2>2, <2>3, <2>4
  <2>7. \A d \in Controllers : task'[d] = task[d] \/ ParentOK(rows', task'[d])
    <3>1. CASE p = 0
      BY <1>2, <2>1, <3>1, ControllerDone
    <3>2. CASE p # 0
      <4>1. \A d \in Controllers \ {c} : task'[d] = task[d]
        BY <1>1, <2>1, <3>2, Constants DEF Goto
      <4>2. task'[c].at = "superseding" /\ task'[c].parent = p /\ task'[c].key = u.key
        BY <1>1, <2>1, <3>2 DEF Goto, TaskState
      <4>3. rows[p].file = FileFor(u) \/ rows[p].mail = u.key
        BY <1>1, <1>2, <2>1, <3>2 DEF ParentOK
      <4>4. /\ Len(rows) + 1 \in DOMAIN rows' /\ Len(rows) + 1 > p
            /\ Follows(rows', Len(rows) + 1, p)
        BY <1>2, <2>2, <2>3, <2>4, <3>2, <4>3 DEF Follows
      <4>5. ParentOK(rows', task'[c])
        BY <1>2, <4>2, <4>4 DEF ParentOK
      <4>6. QED BY <4>1, <4>5
    <3>3. QED BY <3>1, <3>2
  <2>8. QED BY <2>3, <2>4, <2>5, <2>6, <2>7, SuccessorKept
<1>5. CASE ControllerSupersede(c)
  <2>1. /\ u.at = "superseding" /\ PartDone(c)
        /\ UNCHANGED rows \/ rows' = Superseded(rows, p)
    BY <1>5 DEF ControllerSupersede
  <2>2. \A rs : \A d \in Controllers : task'[d] = task[d] \/ ParentOK(rs, task'[d])
    BY <1>2, <2>1, ControllerDone
  <2>3. CASE UNCHANGED rows
    BY <2>2, <2>3, SuccessorPlain
  <2>4. CASE rows' = Superseded(rows, p)
    <3>1. /\ rows' \in Seq(RowState) /\ Len(rows') = Len(rows) /\ Grown(rows, rows')
          /\ \A k \in 1..Len(rows) :
               rows'[k].state = "superseded" <=> rows[k].state = "superseded" \/ k = p
      BY <1>1, <1>2, <2>4, Superseding
    <3>2. DOMAIN rows' = DOMAIN rows /\ RowsOK'
      BY <1>2, <3>1 DEF RowsOK
    <3>3. p # 0 => \E k \in DOMAIN rows : k > p /\ Follows(rows, k, p)
      BY <1>1, <2>1 DEF ParentOK
    <3>4. \A k, n \in DOMAIN rows : Follows(rows, k, n) => Follows(rows', k, n)
      BY <1>2, <3>1 DEF Follows, Grown
    <3>5. p # 0 => \E k \in DOMAIN rows' : k > p /\ Follows(rows', k, p)
      BY <1>2, <3>2, <3>3, <3>4
    <3>6. \A n \in DOMAIN rows' : rows'[n].state = "superseded" =>
            \/ n \in DOMAIN rows /\ rows[n].state = "superseded"
            \/ \E k \in DOMAIN rows' : k > n /\ Follows(rows', k, n)
      BY <1>2, <3>1, <3>2, <3>5
    <3>7. QED BY <2>2, <3>1, <3>2, <3>6, SuccessorKept
  <2>5. QED BY <2>1, <2>3, <2>4
<1>6. QED BY <1>3, <1>4, <1>5

\* A mail's delivery begins without a parent.
LEMMA PostFollows ==
  ASSUME IntakeInv, SuccessorInv, NEW c \in Controllers, NEW m \in Mails,
         ControllerPost(c, m)
  PROVE  SuccessorInv'
<1> DEFINE t == Begin("received", m)
<1>1. UNCHANGED rows /\ task' = [task EXCEPT ![c] = t]
  BY DEF ControllerPost
<1>2. t.key = m /\ t.parent = 0
  BY DEF Begin
<1> HIDE DEF t
<1>3. \A d \in Controllers : task'[d] = task[d] \/ task'[d] = t
  BY <1>1, Constants DEF IntakeInv, TasksOK
<1>4. ParentOK(rows, t)
  BY <1>2 DEF ParentOK
<1>5. QED BY <1>1, <1>3, <1>4, SuccessorPlain

\* An invoice that is protected is not superseded.
LEMMA ProtectFollows ==
  ASSUME IntakeInv, SuccessorInv, NEW n \in DOMAIN rows, Protect(n)
  PROVE  SuccessorInv'
<1>1. /\ rows[n].state = "live" /\ rows' = [rows EXCEPT ![n].state = "protected"]
      /\ \A rs : \A c \in Controllers : task'[c] = task[c] \/ ParentOK(rs, task'[c])
  BY ControllersRest DEF Protect
<1>2. rows \in Seq(RowState) /\ Len(rows) \in Nat /\ DOMAIN rows = 1..Len(rows)
  BY DEF IntakeInv, RowsOK
<1>3. \A k \in 1..Len(rows) :
        /\ rows[k] \in RowState
        /\ rows'[k] = IF k = n THEN [rows[k] EXCEPT !.state = "protected"] ELSE rows[k]
  BY <1>1, <1>2
<1>4. \A k \in 1..Len(rows) :
        /\ rows'[k].file = rows[k].file /\ rows'[k].mail = rows[k].mail
        /\ rows'[k].locked = rows[k].locked
        /\ rows'[k].state = IF k = n THEN "protected" ELSE rows[k].state
  BY <1>3 DEF RowState, States
<1>5. Len(rows') = Len(rows) /\ DOMAIN rows' = DOMAIN rows
  BY <1>1, <1>2
<1>6. Grown(rows, rows')
  BY <1>1, <1>2, <1>4, <1>5 DEF Grown
<1>7. RowsOK'
  BY EnvironmentSteps DEF IntakeInv
<1>8. \A k \in DOMAIN rows' : rows'[k].state = "superseded" =>
        k \in DOMAIN rows /\ rows[k].state = "superseded"
  BY <1>2, <1>4, <1>5
<1>9. QED BY <1>1, <1>5, <1>6, <1>7, <1>8, SuccessorKept

\* Every step keeps a successor for each superseded row.
LEMMA SuccessorInductive ==
  /\ Init => SuccessorInv
  /\ IntakeInv /\ SuccessorInv /\ [Next]_vars => SuccessorInv'
<1>1. ASSUME Init
      PROVE  SuccessorInv
  BY <1>1, Constants DEF Init, SuccessorInv, MailFilesOK, SuccessorStands, ParentOK, Idle
<1>2. ASSUME IntakeInv, SuccessorInv, Next
      PROVE  SuccessorInv'
  <2>1. CASE \/ \E q \in Requests, i \in Intakes : PowerAutomatePost(q, i)
             \/ \E m \in Inbox : PollMessage(m)
             \/ RememberMessage
             \/ \E r \in Recoveries : Recover(r)
             \/ Age
             \/ Crash
    <3>1. UNCHANGED rows
      BY <2>1 DEF PowerAutomatePost, PollMessage, RememberMessage, Recover, RecoverStart,
                  RecoverNext, RecoverDownload, Age, Crash
    <3>2. QED BY <1>2, <2>1, <3>1, ControllersRest, SuccessorPlain
  <2>2. ASSUME NEW w \in Workers \ Controllers, Attempt(w)
        PROVE  SuccessorInv'
    <3>1. CASE CommitCreation(w)
      BY <1>2, <3>1, CommitFollows
    <3>2. CASE ~CommitCreation(w)
      <4>1. UNCHANGED rows
        BY <2>2, <3>2 DEF Attempt, Store, ExtractAndCheck, LockFile, ReplaceParent,
                          FinishIntake
      <4>2. QED BY <1>2, <2>2, <4>1, ControllersRest, SuccessorPlain
    <3>3. QED BY <3>1, <3>2
  <2>3. ASSUME NEW c \in Controllers, NEW m \in Mails, ControllerPost(c, m)
        PROVE  SuccessorInv'
    BY <1>2, <2>3, PostFollows
  <2>4. ASSUME NEW c \in Controllers, Control(c)
        PROVE  SuccessorInv'
    BY <1>2, <2>4, CheckFollows, WriteFollows DEF Control
  <2>5. ASSUME NEW n \in DOMAIN rows, Protect(n)
        PROVE  SuccessorInv'
    BY <1>2, <2>5, ProtectFollows
  <2>6. QED BY <1>2, <2>1, <2>2, <2>3, <2>4, <2>5 DEF Next
<1>3. ASSUME SuccessorInv, UNCHANGED vars
      PROVE  SuccessorInv'
  BY <1>3 DEF vars, SuccessorInv, MailFilesOK, SuccessorStands, ParentOK, Follows, FileFor
<1>4. QED BY <1>1, <1>2, <1>3

\* Whatever deliveries overlap, fail or are cut by a restart, a superseded row is
\* followed by a newer row of its file or, when the older controller took a row of
\* the same message for the duplicate (emailInvoice.ts), by one of its mail.
THEOREM SupersededIsFollowed == Spec => []SuccessorStands
<1>1. SuccessorInv => SuccessorStands
  BY DEF SuccessorInv
<1>2. QED BY <1>1, IntakeInvariant, SuccessorInductive, PTL DEF Spec
=============================================================================
