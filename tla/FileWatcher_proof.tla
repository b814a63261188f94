-------------------------- MODULE FileWatcher_proof --------------------------
(* Theorems about FileWatcher, for every set of documents and names, every   *)
(* number of retries and every number of faults.                             *)
EXTENDS FileWatcher, FiniteSetTheorems, TLAPS

Steps == {"none", "taken", "read", "diverted", "saved", "recorded", "moved"}
Work == [doc : Docs \cup {None}, file : AllNames \cup {None}, at : Steps,
         kind : {"plain", "retryable", "final"}, logged : BOOLEAN]
Phases == {"idle", "audit", "reconcile", "queue", "scan", "down"}

\* A folder never holds two files of one name, and a document goes by the name
\* it came with or by its own.
OneFileAName ==
  \A d, e \in Docs :
    place[d] = place[e] /\ place[d] \in Places /\ name[d] = name[e] => d = e
FilesOK ==
  /\ place \in [Docs -> Places \cup {"mail", "gone"}]
  /\ name \in [Docs -> AllNames] /\ \A d \in Docs : name[d] \in {NameOf[d], d}
  /\ OneFileAName

RowsOK ==
  /\ age \in [Docs -> 0..2]
  /\ row \in [Docs -> {"none", "open", "protected"}]
  /\ path \in [Docs -> AllNames \cup {Elsewhere}]
EventsOK ==
  /\ upload \in [AllNames -> {"none", "open", "old", "answered"}]
  /\ latest \in [AllNames -> {"plain", "created", "retryable", "final"}]
  /\ retries \in [AllNames -> 0..MaxRetries]

\* The scan works on one document at a time, which has left incoming/; what it
\* has still to take lies there.
PollOK ==
  /\ phase \in Phases /\ work \in Work
  /\ work # NoWork => phase = "scan"
  /\ \A d \in Docs : work.doc = d => place[d] \in Places \ {"incoming"}
  /\ todo \subseteq Docs /\ \A d \in todo : place[d] = "incoming"

\* The run of d is under way and has neither failed nor parked the file.
InHand(d) == work.doc = d /\ work.at \in {"taken", "read", "saved", "recorded"}

\* One more extraction is due to d: it waits, or it was left in processing/.
Due(d) ==
  IF \/ place[d] \in {"mail", "incoming"}
     \/ place[d] = "processing" /\ ~InHand(d)
  THEN 1 ELSE 0

\* What pays for the extractions of d: its arrival, the retries of either of
\* its names, and the faults.
Allowance(d) == 1 + retries[NameOf[d]] + retries[d] + faults
BudgetOK ==
  /\ taken \in [Docs -> Nat] /\ faults \in 0..MaxFaults
  /\ \A d \in Docs : taken[d] + Due(d) <= Allowance(d)

WatcherInv == FilesOK /\ RowsOK /\ EventsOK /\ PollOK /\ BudgetOK

\* What DocumentsKept says of one step.
Kept ==
  \A d \in Docs : place'[d] = "gone" /\ place[d] # "gone" =>
    /\ place[d] = "processing"
    /\ \E o \in Docs : place[o] = "incoming" /\ name[o] = name[d]
                       /\ place'[o] = "processing"

-----------------------------------------------------------------------------
(* Names and renames *)

\* A document's two names are different names of AllNames.
LEMMA TwoNames ==
  /\ \A d \in Docs : NameOf[d] \in Names /\ NameOf[d] \in AllNames /\ d \in AllNames
  /\ \A d, e \in Docs : NameOf[d] # e
  /\ None \notin Docs /\ MaxRetries \in Nat /\ MaxFaults \in Nat
  BY WatcherAssumption DEF AllNames

\* A rename of files to different names leaves no two files of one name.
LEMMA Renamed ==
  ASSUME FilesOK, NEW S \in SUBSET Docs, NEW folder \in Places,
         NEW n, Rename(S, folder, n),
         \A d \in S : n[d] \in {NameOf[d], d},
         \A d, e \in S : n[d] = n[e] => d = e
  PROVE  /\ FilesOK'
         /\ \A d \in S : place'[d] = folder /\ name'[d] = n[d]
         /\ \A d \in Docs \ S : /\ name'[d] = name[d]
                                /\ place'[d] \in {place[d], "gone"}
         /\ \A d \in Docs \ S : (\A m \in S : ~(place[d] = folder /\ name[d] = n[m]))
                                  => place'[d] = place[d]
         /\ \A d \in Docs \ S : (\E m \in S : place[d] = folder /\ name[d] = n[m])
                                  => place'[d] = "gone"
<1>1. /\ \A d \in S : place'[d] = folder /\ name'[d] = n[d]
      /\ \A d \in Docs \ S : /\ name'[d] = name[d]
                             /\ place'[d] \in {place[d], "gone"}
      /\ \A d \in Docs \ S : (\A m \in S : ~(place[d] = folder /\ name[d] = n[m]))
                               => place'[d] = place[d]
      /\ \A d \in Docs \ S : (\E m \in S : place[d] = folder /\ name[d] = n[m])
                               => place'[d] = "gone"
  BY DEF Rename
<1>2. place' \in [Docs -> Places \cup {"mail", "gone"}]
  BY DEF Rename, FilesOK
<1>3. name' \in [Docs -> AllNames] /\ \A d \in Docs : name'[d] \in {NameOf[d], d}
  <2>1. \A d \in Docs : name'[d] \in {NameOf[d], d}
    BY <1>1 DEF FilesOK
  <2>2. name' = [d \in Docs |-> name'[d]]
    BY DEF Rename
  <2>3. QED BY <2>1, <2>2, TwoNames
<1>4. OneFileAName'
  <2>1. ASSUME NEW d \in Docs, NEW e \in Docs, place'[d] = place'[e],
               place'[d] \in Places, name'[d] = name'[e]
        PROVE  d = e
    <3>1. "gone" \notin Places
      BY DEF Places
    <3>2. CASE d \in S /\ e \in S
      BY <1>1, <2>1, <3>2
    <3>3. CASE d \in S /\ e \notin S
      BY <1>1, <2>1, <3>1, <3>3
    <3>4. CASE d \notin S /\ e \in S
      BY <1>1, <2>1, <3>1, <3>4
    <3>5. CASE d \notin S /\ e \notin S
      BY <1>1, <2>1, <3>1, <3>5 DEF FilesOK, OneFileAName
    <3>6. QED BY <3>2, <3>3, <3>4, <3>5
  <2>2. QED BY <2>1 DEF OneFileAName
<1>5. QED
  BY <1>1, <1>2, <1>3, <1>4 DEF FilesOK

\* A rename of one file, under its name, loses at most a namesake that lies there.
LEMMA RenamedOne ==
  ASSUME FilesOK, NEW d \in Docs, NEW folder \in Places, Rename({d}, folder, name)
  PROVE  /\ FilesOK' /\ place'[d] = folder
         /\ \A e \in Docs \ {d} :
              place'[e] = IF place[e] = folder /\ name[e] = name[d] THEN "gone"
                          ELSE place[e]
<1> DEFINE S == {d}
<1>1. /\ S \in SUBSET Docs /\ Rename(S, folder, name)
      /\ \A e \in S : name[e] \in {NameOf[e], e}
      /\ \A e, g \in S : name[e] = name[g] => e = g
  BY DEF FilesOK
<1>2. \A e \in Docs : e \in S <=> e = d
  OBVIOUS
<1> HIDE DEF S
<1>3. /\ FilesOK'
      /\ \A e \in S : place'[e] = folder
      /\ \A e \in Docs \ S : (\A m \in S : ~(place[e] = folder /\ name[e] = name[m]))
                               => place'[e] = place[e]
      /\ \A e \in Docs \ S : (\E m \in S : place[e] = folder /\ name[e] = name[m])
                               => place'[e] = "gone"
  BY <1>1, Renamed
<1>4. d \in S /\ \A m \in S : m = d
  BY <1>1, <1>2
<1>5. QED BY <1>2, <1>3, <1>4

\* safeMove and the recoveries: files of one folder go to another, and no file
\* that is not moved is touched.
LEMMA Moved ==
  ASSUME FilesOK, NEW S \in SUBSET Docs, NEW p \in Places, NEW folder \in Places,
         \A d \in S : place[d] = p, MoveTo(S, folder)
  PROVE  /\ FilesOK'
         /\ \A d \in S : place'[d] = folder
         /\ \A d \in Docs \ S : place'[d] = place[d]
<1> DEFINE n == [d \in S |-> TargetName(d, folder)]
<1>1. Rename(S, folder, n)
  BY DEF MoveTo
<1>2. \A d \in S : \/ n[d] = d
                   \/ n[d] = name[d] /\ ~Exists(folder, name[d])
  BY DEF TargetName, FreeName
<1> HIDE DEF n
<1>3. \A d \in S : n[d] \in {NameOf[d], d}
  BY <1>2 DEF FilesOK
<1>4. \A d, e \in S : n[d] = n[e] => d = e
  <2>1. ASSUME NEW d \in S, NEW e \in S, n[d] = n[e] PROVE d = e
    <3>1. CASE n[d] = d
      BY <1>3, <2>1, <3>1, TwoNames
    <3>2. CASE n[e] = e
      BY <1>3, <2>1, <3>2, TwoNames
    <3>3. CASE n[d] = name[d] /\ n[e] = name[e]
      BY <2>1, <3>3 DEF FilesOK, OneFileAName
    <3>4. QED BY <1>2, <3>1, <3>2, <3>3
  <2>2. QED BY <2>1
<1>5. \A d \in Docs \ S, m \in S : ~(place[d] = folder /\ name[d] = n[m])
  <2>1. ASSUME NEW d \in Docs \ S, NEW m \in S, place[d] = folder, name[d] = n[m]
        PROVE  FALSE
    <3>1. n[m] # m
      BY <2>1, TwoNames DEF FilesOK
    <3>2. ~Exists(folder, name[m]) /\ n[m] = name[m]
      BY <1>2, <3>1
    <3>3. QED BY <2>1, <3>2 DEF Exists
  <2>2. QED BY <2>1
<1>6. QED
  BY <1>1, <1>3, <1>4, <1>5, Renamed

\* The same for one file.
LEMMA MovedOne ==
  ASSUME FilesOK, NEW d \in Docs, place[d] \in Places, NEW folder \in Places,
         MoveTo({d}, folder)
  PROVE  /\ FilesOK' /\ place'[d] = folder
         /\ \A e \in Docs \ {d} : place'[e] = place[e]
<1> DEFINE S == {d}
<1>1. S \in SUBSET Docs /\ MoveTo(S, folder) /\ \A e \in S : place[e] = place[d]
  OBVIOUS
<1>2. \A e \in Docs : e \in S <=> e = d
  OBVIOUS
<1> HIDE DEF S
<1>3. /\ FilesOK'
      /\ \A e \in S : place'[e] = folder
      /\ \A e \in Docs \ S : place'[e] = place[e]
  BY <1>1, Moved
<1>4. QED BY <1>2, <1>3

\* A step that moves no document of its own keeps all of them.
LEMMA NothingGone ==
  ASSUME \A d \in Docs : place'[d] = "gone" => place[d] = "gone"
  PROVE  Kept
  BY DEF Kept

\* A step pays for what it makes due.
LEMMA BudgetKept ==
  ASSUME WatcherInv, UNCHANGED <<taken, retries>>,
         \/ faults' = faults /\ \A d \in Docs : Due(d)' <= Due(d)
         \/ Fault
  PROVE  BudgetOK'
<1>1. \A d \in Docs : Due(d) \in 0..1 /\ Due(d)' \in 0..1
  BY DEF Due
<1>2. \A d \in Docs : retries[NameOf[d]] \in Nat /\ retries[d] \in Nat
  BY TwoNames DEF WatcherInv, EventsOK
<1>3. faults' \in 0..MaxFaults /\ faults \in Nat
  BY TwoNames DEF WatcherInv, BudgetOK, Fault
<1>4. CASE faults' = faults /\ \A d \in Docs : Due(d)' <= Due(d)
  BY <1>1, <1>2, <1>3, <1>4 DEF WatcherInv, BudgetOK, Allowance
<1>5. CASE Fault
  <2>1. faults' = faults + 1
    BY <1>5 DEF Fault
  <2> SUFFICES ASSUME NEW d \in Docs
               PROVE  taken[d] + Due(d)' <= 1 + retries[NameOf[d]] + retries[d] + faults'
    BY <1>3 DEF WatcherInv, BudgetOK, Allowance
  <2>2. taken[d] + Due(d) <= 1 + retries[NameOf[d]] + retries[d] + faults /\ taken[d] \in Nat
    BY DEF WatcherInv, BudgetOK, Allowance
  <2>3. QED BY <1>1, <1>2, <1>3, <2>1, <2>2
<1>6. QED BY <1>4, <1>5

\* Work on another state of the same document, or none.
LEMMA WorkTyped ==
  /\ NoWork \in Work /\ NoWork.doc = None /\ NoWork.at = "none"
  /\ \A t \in Work, at \in Steps, k \in {"plain", "retryable", "final"}, b \in BOOLEAN :
       [t EXCEPT !.at = at, !.kind = k, !.logged = b] \in Work
  BY DEF NoWork, Work, Steps

-----------------------------------------------------------------------------
(* The world around the watcher *)

\* A document arrives where no other of its name lies.
LEMMA DeliverStep ==
  ASSUME WatcherInv, NEW d \in Docs, Deliver(d)
  PROVE  WatcherInv' /\ Kept
<1>1. /\ place[d] = "mail" /\ ~Exists("incoming", name[d])
      /\ place' = [place EXCEPT ![d] = "incoming"]
      /\ UNCHANGED <<name, age, rows, events, phase, todo, work, taken, faults>>
  BY DEF Deliver
<1>2. \A e \in Docs : place'[e] = IF e = d THEN "incoming" ELSE place[e]
  BY <1>1 DEF WatcherInv, FilesOK
<1>3. place' \in [Docs -> Places \cup {"mail", "gone"}]
  BY <1>1 DEF WatcherInv, FilesOK, Places
<1>4. OneFileAName'
  BY <1>1, <1>2 DEF WatcherInv, FilesOK, OneFileAName, Exists, Places
<1>5. FilesOK'
  BY <1>1, <1>3, <1>4 DEF WatcherInv, FilesOK
<1>6. RowsOK' /\ EventsOK'
  BY <1>1 DEF WatcherInv, RowsOK, EventsOK, rows, events
<1>7. PollOK'
  BY <1>1, <1>2 DEF WatcherInv, PollOK, Places
<1>8. \A e \in Docs : Due(e)' <= Due(e)
  BY <1>1, <1>2 DEF Due, InHand
<1>9. BudgetOK'
  BY <1>1, <1>8, BudgetKept DEF events
<1>10. Kept
  BY <1>2, NothingGone
<1>11. QED BY <1>5, <1>6, <1>7, <1>9, <1>10 DEF WatcherInv

\* Steps that move no file and take up or finish no work.
LEMMA SameFilesAndWork ==
  ASSUME WatcherInv, UNCHANGED <<files, work, taken, retries, faults>>
  PROVE  FilesOK' /\ BudgetOK' /\ Kept
<1>1. FilesOK'
  BY DEF WatcherInv, FilesOK, OneFileAName, files
<1>2. \A d \in Docs : Due(d)' <= Due(d)
  BY DEF Due, InHand, files
<1>3. BudgetOK'
  BY <1>2, BudgetKept
<1>4. Kept
  BY NothingGone DEF files
<1>5. QED BY <1>1, <1>3, <1>4

\* Time, the people who work on the rows, the audit, the reconciliation and the
\* bounds of a poll.
LEMMA QuietSteps ==
  ASSUME WatcherInv,
         \/ Tick \/ (\E d \in Docs : Protect(d)) \/ SkipAudit \/ AuditUploadOnlyIntake
         \/ ReconcileStalePdfPaths \/ ListIncoming \/ EndPoll \/ UNCHANGED vars
  PROVE  WatcherInv' /\ Kept
<1>1. UNCHANGED <<files, work, taken, retries, faults>>
  BY DEF Tick, Protect, SkipAudit, AuditUploadOnlyIntake, ReconcileStalePdfPaths,
         ListIncoming, EndPoll, vars, files, events
<1>2. FilesOK' /\ BudgetOK' /\ Kept
  BY <1>1, SameFilesAndWork
<1>3. age' \in [Docs -> 0..2]
  BY DEF WatcherInv, RowsOK, Tick, Protect, SkipAudit, AuditUploadOnlyIntake,
         ReconcileStalePdfPaths, ListIncoming, EndPoll, vars
<1>4. row' \in [Docs -> {"none", "open", "protected"}]
  BY DEF WatcherInv, RowsOK, Tick, Protect, SkipAudit, AuditUploadOnlyIntake,
         ReconcileStalePdfPaths, ListIncoming, EndPoll, vars, rows
<1>5. path' \in [Docs -> AllNames \cup {Elsewhere}]
  BY DEF WatcherInv, RowsOK, Tick, Protect, SkipAudit, AuditUploadOnlyIntake,
         ReconcileStalePdfPaths, ListIncoming, EndPoll, vars, rows
<1>6. upload' \in [AllNames -> {"none", "open", "old", "answered"}]
  BY DEF WatcherInv, EventsOK, Tick, Protect, SkipAudit, AuditUploadOnlyIntake,
         ReconcileStalePdfPaths, ListIncoming, EndPoll, vars, events
<1>7. latest' \in [AllNames -> {"plain", "created", "retryable", "final"}]
  BY DEF WatcherInv, EventsOK, Tick, Protect, SkipAudit, AuditUploadOnlyIntake,
         ReconcileStalePdfPaths, ListIncoming, EndPoll, vars, events
<1>8. PollOK'
  <2>1. phase' \in Phases /\ (work # NoWork => phase' = "scan")
    BY DEF WatcherInv, PollOK, Phases, Tick, Protect, SkipAudit, AuditUploadOnlyIntake,
           ReconcileStalePdfPaths, ListIncoming, EndPoll, vars
  <2>2. todo' \subseteq Docs /\ \A d \in todo' : place[d] = "incoming"
    BY DEF WatcherInv, PollOK, Tick, Protect, SkipAudit, AuditUploadOnlyIntake,
           ReconcileStalePdfPaths, ListIncoming, EndPoll, vars
  <2>3. QED BY <1>1, <2>1, <2>2 DEF WatcherInv, PollOK, files
<1>9. RowsOK' /\ EventsOK'
  BY <1>1, <1>3, <1>4, <1>5, <1>6, <1>7 DEF WatcherInv, RowsOK, EventsOK
<1>10. QED BY <1>2, <1>8, <1>9 DEF WatcherInv

\* A crash forgets the poll; the document in hand may have to be taken again.
LEMMA CrashStep ==
  ASSUME WatcherInv, Crash
  PROVE  WatcherInv' /\ Kept
<1>1. /\ Fault /\ phase' = "down" /\ todo' = {} /\ work' = NoWork
      /\ UNCHANGED <<files, age, rows, events, taken>>
  BY DEF Crash
<1>2. FilesOK' /\ Kept
  BY <1>1, NothingGone DEF WatcherInv, FilesOK, OneFileAName, files
<1>3. RowsOK' /\ EventsOK'
  BY <1>1 DEF WatcherInv, RowsOK, EventsOK, rows, events
<1>4. PollOK'
  BY <1>1, WorkTyped, TwoNames DEF WatcherInv, PollOK, Phases
<1>5. BudgetOK'
  BY <1>1, BudgetKept DEF events
<1>6. QED BY <1>2, <1>3, <1>4, <1>5 DEF WatcherInv

-----------------------------------------------------------------------------
(* The poll *)

\* The recoveries put files of processing/ that nobody has in hand back.
LEMMA RecoveryStep ==
  ASSUME WatcherInv, Boot \/ StartPoll
  PROVE  WatcherInv' /\ Kept
<1>1. /\ phase # "scan" /\ phase' \in {"idle", "audit"}
      /\ UNCHANGED <<age, rows, events, todo, work, taken, faults>>
  BY DEF Boot, StartPoll
<1>2. PICK S \in SUBSET Docs :
        (\A d \in S : place[d] = "processing") /\ MoveTo(S, "incoming")
  BY DEF Boot, StartPoll
<1>3. /\ FilesOK'
      /\ \A d \in S : place'[d] = "incoming"
      /\ \A d \in Docs \ S : place'[d] = place[d]
  BY <1>2, Moved DEF WatcherInv, Places
<1>4. work = NoWork /\ \A d \in Docs : work.doc # d
  BY <1>1, WorkTyped, TwoNames DEF WatcherInv, PollOK
<1>5. RowsOK' /\ EventsOK'
  BY <1>1 DEF WatcherInv, RowsOK, EventsOK, rows, events
<1>6. PollOK'
  BY <1>1, <1>2, <1>3, <1>4 DEF WatcherInv, PollOK, Phases
<1>7. \A d \in Docs : Due(d)' <= Due(d)
  <2>1. ASSUME NEW d \in S PROVE Due(d)' <= Due(d)
    BY <1>2, <1>4, <2>1 DEF Due, InHand
  <2>2. ASSUME NEW d \in Docs \ S PROVE Due(d)' <= Due(d)
    BY <1>1, <1>3, <2>2 DEF Due, InHand
  <2>3. QED BY <2>1, <2>2
<1>8. BudgetOK'
  BY <1>1, <1>7, BudgetKept DEF events
<1>9. Kept
  BY <1>3, NothingGone
<1>10. QED BY <1>3, <1>5, <1>6, <1>8, <1>9 DEF WatcherInv

\* A retry is paid for by its event, or by the fault of recording none.
LEMMA QueueStep ==
  ASSUME WatcherInv, NEW d \in Docs, QueueRetryableFiles(d)
  PROVE  WatcherInv' /\ Kept
<1>1. /\ phase = "queue" /\ Retryable(d) /\ Rename({d}, "incoming", name)
      /\ UNCHANGED <<age, rows, upload, phase, todo, work, taken>>
  BY DEF QueueRetryableFiles
<1>2. /\ place[d] \in {"manual-review", "failed"} /\ ~Exists("incoming", name[d])
      /\ retries[name[d]] < MaxRetries
  BY <1>1 DEF Retryable, MayRetry, WithinBudget
<1>3. work = NoWork /\ \A e \in Docs : work.doc # e
  BY <1>1, WorkTyped, TwoNames DEF WatcherInv, PollOK
<1>4. /\ FilesOK' /\ place'[d] = "incoming"
      /\ \A e \in Docs \ {d} : place'[e] = place[e]
  <2>1. \A e \in Docs : ~(place[e] = "incoming" /\ name[e] = name[d])
    BY <1>2 DEF Exists
  <2>2. FilesOK /\ "incoming" \in Places
    BY DEF WatcherInv, Places
  <2>3. QED BY <1>1, <2>1, <2>2, RenamedOne
<1>5. RowsOK' /\ PollOK'
  <2>1. RowsOK'
    BY <1>1 DEF WatcherInv, RowsOK, rows
  <2>2. d \notin todo
    BY <1>2 DEF WatcherInv, PollOK
  <2>3. QED BY <1>1, <1>3, <1>4, <2>1, <2>2 DEF WatcherInv, PollOK
<1>6. name[d] \in {NameOf[d], d} /\ name[d] \in AllNames
  BY TwoNames DEF WatcherInv, FilesOK
<1>7. \A e \in Docs : Due(e) \in 0..1 /\ Due(e)' \in 0..1
  BY DEF Due
<1>8. \A e \in Docs \ {d} : Due(e)' = Due(e)
  BY <1>1, <1>4 DEF Due, InHand
<1>9. CASE Fault /\ UNCHANGED <<retries, latest>>
  <2>1. EventsOK'
    BY <1>1, <1>9 DEF WatcherInv, EventsOK
  <2>2. BudgetOK'
    BY <1>1, <1>9, BudgetKept
  <2>3. QED BY <1>4, <1>5, <2>1, <2>2, NothingGone DEF WatcherInv
<1>10. CASE /\ retries' = [retries EXCEPT ![name[d]] = @ + 1]
            /\ latest' = [latest EXCEPT ![name[d]] = "plain"]
            /\ UNCHANGED faults
  <2>1. retries[name[d]] \in Nat /\ retries[name[d]] + 1 \in 0..MaxRetries
    BY <1>2, <1>6, TwoNames DEF WatcherInv, EventsOK
  <2>2. EventsOK'
    BY <1>1, <1>10, <2>1 DEF WatcherInv, EventsOK
  <2>3. \A n \in AllNames : /\ retries[n] \in Nat /\ retries'[n] \in Nat
                            /\ retries'[n] >= retries[n]
                            /\ n = name[d] => retries'[n] = retries[n] + 1
    BY <1>10, <2>1, TwoNames DEF WatcherInv, EventsOK
  <2>4. taken' = taken /\ faults' = faults /\ faults \in Nat
        /\ \A e \in Docs : taken[e] \in Nat
    BY <1>1, <1>10, TwoNames DEF WatcherInv, BudgetOK
  <2>5. ASSUME NEW e \in Docs PROVE taken'[e] + Due(e)' <= Allowance(e)'
    <3>1. taken[e] + Due(e) <= 1 + retries[NameOf[e]] + retries[e] + faults
      BY DEF WatcherInv, BudgetOK, Allowance
    <3>2. NameOf[e] \in AllNames /\ e \in AllNames
      BY TwoNames
    <3> DEFINE a == retries[NameOf[e]]
               b == retries[e]
               v == retries'[NameOf[e]]
               w == retries'[e]
               x == Due(e)
               y == Due(e)'
               k == taken[e]
    <3>3. a \in Nat /\ b \in Nat /\ v \in Nat /\ w \in Nat /\ v >= a /\ w >= b
          /\ k \in Nat /\ faults \in Nat
      BY <2>3, <2>4, <3>2
    <3>4. y <= x \/ (x \in 0..1 /\ y \in 0..1 /\ (v = a + 1 \/ w = b + 1))
      BY <1>6, <1>7, <1>8, <2>3, <3>2
    <3>5. x \in 0..1 /\ y \in 0..1
      BY <1>7
    <3>6. k + y <= 1 + v + w + faults
      <4> HIDE DEF a, b, v, w, x, y, k
      <4>1. k + x <= 1 + a + b + faults
        BY <3>1 DEF a, b, x, k
      <4>2. QED BY <3>3, <3>4, <3>5, <4>1
    <3>7. QED BY <2>4, <3>6 DEF Allowance
  <2>6. BudgetOK'
    BY <2>4, <2>5 DEF WatcherInv, BudgetOK
  <2>7. QED BY <1>4, <1>5, <2>2, <2>6, NothingGone DEF WatcherInv
<1>11. QED
  BY <1>9, <1>10 DEF QueueRetryableFiles

-----------------------------------------------------------------------------
(* One document *)

\* A document is taken: what was due is done, and a namesake left lying in
\* processing/ is lost.
LEMMA TakeStep ==
  ASSUME WatcherInv, NEW d \in Docs, Take(d)
  PROVE  WatcherInv' /\ Kept
<1>1. /\ phase = "scan" /\ d \in todo /\ work = NoWork /\ Rename({d}, "processing", name)
      /\ latest' = [latest EXCEPT ![name[d]] = "plain"]
      /\ work' = [NoWork EXCEPT !.doc = d, !.file = name[d], !.at = "taken"]
      /\ todo' = todo \ {d} /\ taken' = [taken EXCEPT ![d] = @ + 1]
      /\ UNCHANGED <<age, rows, upload, retries, phase, faults>>
  BY DEF Take
<1>2. place[d] = "incoming"
  BY <1>1 DEF WatcherInv, PollOK
<1>3. /\ FilesOK' /\ place'[d] = "processing"
      /\ \A e \in Docs \ {d} :
           place'[e] = IF place[e] = "processing" /\ name[e] = name[d] THEN "gone"
                       ELSE place[e]
  BY <1>1, RenamedOne DEF WatcherInv, Places
<1>4. name[d] \in AllNames
  BY DEF WatcherInv, FilesOK
<1>5. work' \in Work /\ work'.doc = d /\ work'.at = "taken"
  BY <1>1, <1>4 DEF NoWork, Work, Steps
<1>6. RowsOK' /\ EventsOK'
  BY <1>1, <1>4 DEF WatcherInv, RowsOK, EventsOK, rows
<1>7. PollOK'
  BY <1>1, <1>2, <1>3, <1>5 DEF WatcherInv, PollOK, Places
<1>8. \A e \in Docs : Due(e) \in 0..1 /\ Due(e)' \in 0..1
  BY DEF Due
<1>9. Due(d) = 1 /\ Due(d)' = 0
  BY <1>2, <1>3, <1>5 DEF Due, InHand
<1>10. \A e \in Docs \ {d} : Due(e)' <= Due(e)
  <2>1. \A e \in Docs \ {d} : ~InHand(e)
    BY <1>1, WorkTyped, TwoNames DEF InHand
  <2>2. \A e \in Docs \ {d} : ~InHand(e)'
    BY <1>5 DEF InHand
  <2>3. \A e \in Docs \ {d} : place'[e] = place[e] \/ place'[e] = "gone"
    BY <1>3
  <2>4. QED BY <1>8, <2>1, <2>2, <2>3 DEF Due
<1>11. BudgetOK'
  <2>1. taken \in [Docs -> Nat] /\ \A e \in Docs : taken[e] + Due(e) <= Allowance(e)
    BY DEF WatcherInv, BudgetOK
  <2>2. \A e \in Docs : Allowance(e)' = Allowance(e)
    BY <1>1 DEF Allowance
  <2>3. \A e \in Docs : Allowance(e) \in Nat
    BY TwoNames DEF Allowance, WatcherInv, BudgetOK, EventsOK
  <2>4. taken' \in [Docs -> Nat] /\ taken'[d] = taken[d] + 1
        /\ \A e \in Docs \ {d} : taken'[e] = taken[e]
    BY <1>1, <2>1
  <2>5. ASSUME NEW e \in Docs PROVE taken'[e] + Due(e)' <= Allowance(e)
    <3>1. CASE e = d
      BY <1>9, <2>1, <2>4, <3>1
    <3>2. CASE e # d
      <4>1. taken'[e] = taken[e] /\ taken[e] \in Nat /\ Due(e)' <= Due(e)
            /\ taken[e] + Due(e) <= Allowance(e)
        BY <1>10, <2>1, <2>4, <3>2
      <4>2. QED BY <1>8, <2>3, <4>1
    <3>3. QED BY <3>1, <3>2
  <2>6. QED BY <1>1, <2>2, <2>4, <2>5 DEF WatcherInv, BudgetOK
<1>12. Kept
  <2>1. \A e \in Docs : place'[e] = "gone" /\ place[e] # "gone" =>
          place[e] = "processing" /\ name[d] = name[e]
    BY <1>3
  <2>2. QED BY <1>2, <1>3, <2>1 DEF Kept
<1>13. QED BY <1>3, <1>6, <1>7, <1>11, <1>12 DEF WatcherInv

\* A document that cannot be taken stays where it is.
LEMMA TakeFailsStep ==
  ASSUME WatcherInv, NEW d \in Docs, TakeFails(d)
  PROVE  WatcherInv' /\ Kept
<1>1. /\ Fault /\ todo' = todo \ {d}
      /\ \E k \in {"retryable", "final"} : latest' = [latest EXCEPT ![name[d]] = k]
      /\ UNCHANGED <<files, age, rows, upload, retries, phase, work, taken>>
  BY DEF TakeFails
<1>2. FilesOK' /\ Kept
  BY <1>1, NothingGone DEF WatcherInv, FilesOK, OneFileAName, files
<1>3. RowsOK' /\ EventsOK'
  BY <1>1 DEF WatcherInv, RowsOK, EventsOK, rows
<1>4. PollOK'
  BY <1>1 DEF WatcherInv, PollOK, files
<1>5. BudgetOK'
  BY <1>1, BudgetKept
<1>6. QED BY <1>2, <1>3, <1>4, <1>5 DEF WatcherInv

\* Work goes on with the same document, or ends, and no file is moved.
LEMMA WorkInPlace ==
  ASSUME WatcherInv, work # NoWork, UNCHANGED <<files, phase, todo, taken, retries>>,
         work' \in Work, work' = NoWork \/ work'.doc = work.doc,
         \/ faults' = faults /\ \A d \in Docs : InHand(d) => InHand(d)'
         \/ Fault
  PROVE  FilesOK' /\ PollOK' /\ BudgetOK' /\ Kept
<1>1. FilesOK' /\ Kept
  BY NothingGone DEF WatcherInv, FilesOK, OneFileAName, files
<1>2. PollOK'
  BY WorkTyped, TwoNames DEF WatcherInv, PollOK, files
<1>3. faults' = faults /\ (\A d \in Docs : InHand(d) => InHand(d)')
        => \A d \in Docs : Due(d)' <= Due(d)
  BY DEF Due, files
<1>4. BudgetOK'
  BY <1>3, BudgetKept
<1>5. QED BY <1>1, <1>2, <1>4

\* The document in hand is parked, and nothing more is due to it.
LEMMA WorkParked ==
  ASSUME WatcherInv, NEW d \in Docs, work.doc = d, work # NoWork, InHand(d),
         NEW folder \in {"failed", "manual-review", "duplicates", "processed"},
         MoveTo({d}, folder), UNCHANGED <<phase, todo, taken, retries>>,
         work' \in Work, work'.doc = d,
         UNCHANGED faults \/ Fault
  PROVE  FilesOK' /\ PollOK' /\ BudgetOK' /\ Kept
<1>1. /\ FilesOK' /\ place'[d] = folder
      /\ \A e \in Docs \ {d} : place'[e] = place[e]
  <2>1. place[d] \in Places /\ folder \in Places
    BY DEF WatcherInv, PollOK, Places
  <2>2. QED BY <2>1, MovedOne DEF WatcherInv
<1>2. PollOK'
  <2>1. d \notin todo
    BY DEF WatcherInv, PollOK
  <2>2. phase = "scan"
    BY DEF WatcherInv, PollOK
  <2>3. folder \in Places \ {"incoming"}
    BY DEF Places
  <2>4. QED BY <1>1, <2>1, <2>2, <2>3 DEF WatcherInv, PollOK
<1>3. \A e \in Docs : Due(e)' <= Due(e)
  <2>1. Due(d)' <= Due(d)
    BY <1>1 DEF Due
  <2>2. \A e \in Docs \ {d} : Due(e)' <= Due(e)
    BY <1>1 DEF Due, InHand
  <2>3. QED BY <2>1, <2>2
<1>4. BudgetOK'
  BY <1>3, BudgetKept
<1>5. Kept
  BY <1>1, NothingGone
<1>6. QED BY <1>1, <1>2, <1>4, <1>5

\* What a step on the document in hand starts from.
LEMMA InWork ==
  ASSUME WatcherInv, work.at # "none"
  PROVE  work # NoWork /\ work \in Work
<1>1. work \in Work
  BY DEF WatcherInv, PollOK
<1>2. work # NoWork
  BY DEF NoWork
<1>3. QED BY <1>1, <1>2

\* The upload is recorded, or cannot be; the run goes on.
LEMMA RecordUploadedStep ==
  ASSUME WatcherInv, NEW d \in Docs, RecordUploaded(d)
  PROVE  WatcherInv' /\ Kept
<1>1. /\ work.doc = d /\ work.at = "taken"
      /\ UNCHANGED <<files, age, rows, latest, retries, phase, todo, taken>>
  BY DEF RecordUploaded
<1>2. work \in Work /\ work # NoWork
  BY <1>1, InWork
<1>3. /\ work' \in Work /\ work'.doc = d /\ work'.at = "read"
      /\ faults' = faults \/ Fault
      /\ upload' = upload \/ upload' = [upload EXCEPT ![work.file] = "open"]
  BY <1>1, <1>2 DEF RecordUploaded, Work, Steps
<1>4. RowsOK' /\ EventsOK'
  BY <1>1, <1>3 DEF WatcherInv, RowsOK, EventsOK, rows
<1>5. \A e \in Docs : InHand(e) => InHand(e)'
  BY <1>1, <1>3 DEF InHand
<1>6. FilesOK' /\ PollOK' /\ BudgetOK' /\ Kept
  BY <1>1, <1>2, <1>3, <1>5, WorkInPlace
<1>7. QED BY <1>4, <1>6 DEF WatcherInv

\* The run is diverted: parked elsewhere, or left in processing/ for a fault.
LEMMA DivertStep ==
  ASSUME WatcherInv, NEW d \in Docs, work.doc = d, work.at \in {"taken", "read"},
         NEW folder \in {"failed", "manual-review", "duplicates"},
         NEW k \in {"retryable", "final"}, DivertAs(d, folder, k)
  PROVE  WatcherInv' /\ Kept
<1>1. /\ SafeMove(d, folder) /\ work' = [work EXCEPT !.at = "diverted", !.kind = k]
      /\ UNCHANGED <<age, rows, events, phase, todo, taken>>
  BY DEF DivertAs
<1>2. work \in Work /\ work # NoWork /\ InHand(d)
  BY InWork DEF InHand
<1>3. work' \in Work /\ work'.doc = d
  BY <1>1, <1>2 DEF Work, Steps
<1>4. RowsOK' /\ EventsOK'
  BY <1>1 DEF WatcherInv, RowsOK, EventsOK, rows, events
<1>5. CASE MoveTo({d}, folder) /\ UNCHANGED faults
  BY <1>1, <1>2, <1>3, <1>4, <1>5, WorkParked DEF WatcherInv, events
<1>6. CASE Fault /\ UNCHANGED files
  BY <1>1, <1>2, <1>3, <1>4, <1>6, WorkInPlace DEF WatcherInv, events
<1>7. QED BY <1>1, <1>5, <1>6 DEF SafeMove

\* A row that cannot be written leaves the file in processing/, for a fault.
LEMMA SaveFailsStep ==
  ASSUME WatcherInv, NEW d \in Docs, SaveFails(d)
  PROVE  WatcherInv' /\ Kept
<1>1. /\ work.doc = d /\ work.at = "read" /\ Fault
      /\ UNCHANGED <<files, age, rows, events, phase, todo, taken>>
  BY DEF SaveFails
<1>2. work \in Work /\ work # NoWork
  BY <1>1, InWork
<1>3. work' \in Work /\ work'.doc = d
  BY <1>1, <1>2 DEF SaveFails, Work, Steps
<1>4. RowsOK' /\ EventsOK'
  BY <1>1 DEF WatcherInv, RowsOK, EventsOK, rows, events
<1>5. QED BY <1>1, <1>2, <1>3, <1>4, WorkInPlace DEF WatcherInv, events

\* The terminal event of a run, if it is recorded.
LEMMA Answered ==
  ASSUME WatcherInv, NEW k \in {"retryable", "final", "plain", "created"}, Answer(k),
         UNCHANGED <<rows, age, retries>>
  PROVE  RowsOK' /\ EventsOK' /\ (faults' = faults \/ Fault)
<1>1. /\ upload' = upload \/ upload' = [upload EXCEPT ![work.file] = "answered"]
      /\ latest' = latest \/ latest' = [latest EXCEPT ![work.file] = k]
      /\ faults' = faults \/ Fault
  BY DEF Answer
<1>2. QED BY <1>1 DEF WatcherInv, RowsOK, EventsOK, rows

\* The event of a diverted run ends the work.
LEMMA RecordDivertedStep ==
  ASSUME WatcherInv, RecordDiverted
  PROVE  WatcherInv' /\ Kept
<1>1. /\ work.at = "diverted" /\ Answer(work.kind) /\ work' = NoWork
      /\ UNCHANGED <<files, age, rows, retries, phase, todo, taken>>
  BY DEF RecordDiverted
<1>2. work \in Work /\ work # NoWork /\ work.kind \in {"plain", "retryable", "final"}
  BY <1>1, InWork DEF Work
<1>3. RowsOK' /\ EventsOK' /\ (faults' = faults \/ Fault)
  BY <1>1, <1>2, Answered
<1>4. \A e \in Docs : ~InHand(e)
  BY <1>1 DEF InHand
<1>5. work' \in Work
  BY <1>1, WorkTyped
<1>6. FilesOK' /\ PollOK' /\ BudgetOK' /\ Kept
  BY <1>1, <1>2, <1>3, <1>4, <1>5, WorkInPlace
<1>7. QED BY <1>3, <1>6 DEF WatcherInv

\* The row is written, then its event: the run goes on.
LEMMA CreateSteps ==
  ASSUME WatcherInv, RecordCreated \/ \E d \in Docs : CreateRow(d)
  PROVE  WatcherInv' /\ Kept
<1>1. /\ work.at \in {"read", "saved"}
      /\ UNCHANGED <<files, retries, phase, todo, taken>>
      /\ \E at \in {"saved", "recorded"} : work' = [work EXCEPT !.at = at]
  BY DEF RecordCreated, CreateRow, events
<1>2. work \in Work /\ work # NoWork
  BY <1>1, InWork
<1>3. work' \in Work /\ work'.doc = work.doc /\ work'.at \in {"saved", "recorded"}
  BY <1>1, <1>2 DEF Work, Steps
<1>4. RowsOK' /\ EventsOK' /\ (faults' = faults \/ Fault)
  <2>1. CASE RecordCreated
    BY <2>1, Answered DEF RecordCreated
  <2>2. ASSUME NEW d \in Docs, CreateRow(d)
        PROVE  RowsOK' /\ EventsOK' /\ faults' = faults
    <3>1. work.file \in AllNames \cup {Elsewhere}
      BY <1>2 DEF Work, Elsewhere
    <3>2. QED BY <2>2, <3>1 DEF CreateRow, WatcherInv, RowsOK, EventsOK, events
  <2>3. QED BY <2>1, <2>2
<1>5. \A e \in Docs : InHand(e) => InHand(e)'
  BY <1>3 DEF InHand
<1>6. FilesOK' /\ PollOK' /\ BudgetOK' /\ Kept
  BY <1>1, <1>2, <1>3, <1>4, <1>5, WorkInPlace
<1>7. QED BY <1>4, <1>6 DEF WatcherInv

\* After the row: the file is parked, or stays in processing/ for a fault.
LEMMA ParkSteps ==
  ASSUME WatcherInv, NEW d \in Docs, Park(d) \/ AfterSaveFails(d)
  PROVE  WatcherInv' /\ Kept
<1>1. /\ work.doc = d /\ work.at \in {"saved", "recorded"}
      /\ UNCHANGED <<age, rows, events, phase, todo, taken>>
  BY DEF Park, AfterSaveFails
<1>2. work \in Work /\ work # NoWork /\ InHand(d)
  BY <1>1, InWork DEF InHand
<1>3. RowsOK' /\ EventsOK'
  BY <1>1 DEF WatcherInv, RowsOK, EventsOK, rows, events
<1>4. \/ /\ Fault /\ UNCHANGED files /\ work' = NoWork
      \/ /\ \E folder \in {"processed", "manual-review", "failed"} : MoveTo({d}, folder)
         /\ work' = [work EXCEPT !.at = "moved"]
         /\ UNCHANGED faults \/ Fault
  BY DEF Park, AfterSaveFails
<1>5. CASE Fault /\ UNCHANGED files /\ work' = NoWork
  BY <1>1, <1>2, <1>3, <1>5, WorkInPlace, WorkTyped DEF WatcherInv, events
<1>6. ASSUME NEW folder \in {"processed", "manual-review", "failed"},
             MoveTo({d}, folder), work' = [work EXCEPT !.at = "moved"],
             UNCHANGED faults \/ Fault
      PROVE  WatcherInv' /\ Kept
  <2>1. work' \in Work /\ work'.doc = d
    BY <1>1, <1>2, <1>6 DEF Work, Steps
  <2>2. UNCHANGED <<phase, todo, taken, retries>>
    BY <1>1 DEF events
  <2>3. QED BY <1>1, <1>2, <1>3, <1>6, <2>1, <2>2, WorkParked DEF WatcherInv
<1>7. QED BY <1>4, <1>5, <1>6

\* The path is updated, or cannot be, and the work ends.
LEMMA UpdatePathStep ==
  ASSUME WatcherInv, NEW d \in Docs, UpdatePdfPath(d)
  PROVE  WatcherInv' /\ Kept
<1>1. /\ work.doc = d /\ work.at = "moved" /\ work' = NoWork
      /\ path' = path \/ path' = [path EXCEPT ![d] = Elsewhere]
      /\ faults' = faults \/ Fault
      /\ UNCHANGED <<files, age, row, events, phase, todo, taken>>
  BY DEF UpdatePdfPath
<1>2. work \in Work /\ work # NoWork /\ work' \in Work
  BY <1>1, InWork, WorkTyped
<1>3. RowsOK' /\ EventsOK'
  BY <1>1 DEF WatcherInv, RowsOK, EventsOK, events
<1>4. \A e \in Docs : ~InHand(e)
  BY <1>1 DEF InHand
<1>5. FilesOK' /\ PollOK' /\ BudgetOK' /\ Kept
  BY <1>1, <1>2, <1>4, WorkInPlace DEF events
<1>6. QED BY <1>3, <1>5 DEF WatcherInv

\* The first state: every document is in the mail, and one extraction is due.
LEMMA WatcherInit == Init => WatcherInv
<1> SUFFICES ASSUME Init PROVE WatcherInv
  OBVIOUS
<1>1. place \in [Docs -> Places \cup {"mail", "gone"}]
      /\ \A d \in Docs : place[d] = "mail" /\ name[d] = NameOf[d]
  BY DEF Init
<1>2. FilesOK
  <2>1. name \in [Docs -> AllNames]
    BY WatcherAssumption DEF Init, AllNames
  <2>2. QED BY <1>1, <2>1 DEF FilesOK, OneFileAName, Places
<1>3. RowsOK /\ EventsOK
  BY TwoNames DEF Init, RowsOK, EventsOK, Elsewhere
<1>4. PollOK
  BY WorkTyped, TwoNames DEF Init, PollOK, Phases
<1>5. BudgetOK
  <2>1. \A d \in Docs : retries[NameOf[d]] = 0 /\ retries[d] = 0
    BY TwoNames DEF Init
  <2>2. faults = 0 /\ taken = [d \in Docs |-> 0]
    BY DEF Init
  <2>3. \A d \in Docs : Due(d) \in 0..1
    BY DEF Due
  <2>4. QED BY <2>1, <2>2, <2>3, TwoNames DEF BudgetOK, Allowance
<1>6. QED BY <1>2, <1>3, <1>4, <1>5 DEF WatcherInv

-----------------------------------------------------------------------------
(* Theorems *)

\* Every step keeps the invariant, and loses no document but to a namesake.
LEMMA WatcherStep ==
  ASSUME WatcherInv, [Next]_vars
  PROVE  WatcherInv' /\ Kept
<1>1. CASE Poll
  BY <1>1, RecoveryStep, QuietSteps, QueueStep DEF Poll
<1>2. CASE ProcessFile
  <2>1. ASSUME NEW d \in Docs, ReadFails(d) \/ Divert(d) \/ BlockDuplicate(d)
        PROVE  WatcherInv' /\ Kept
    BY <2>1, DivertStep DEF ReadFails, Divert, BlockDuplicate
  <2>2. QED
    BY <1>2, <2>1, TakeStep, TakeFailsStep, RecordUploadedStep, SaveFailsStep,
       RecordDivertedStep, CreateSteps, ParkSteps, UpdatePathStep DEF ProcessFile
<1>3. QED
  BY <1>1, <1>2, CrashStep, RecoveryStep, QuietSteps, DeliverStep DEF Next

\* Files, events, the poll and the budgets agree in every reachable state.
THEOREM WatcherInvariant == Spec => []WatcherInv
<1>1. QED
  BY WatcherInit, WatcherStep, PTL DEF Spec

\* Types: in particular the retries of a name never exceed MaxRetries.
THEOREM WatcherTypes == Spec => []TypeOK
<1>1. WatcherInv => TypeOK
  BY DEF WatcherInv, FilesOK, RowsOK, EventsOK, PollOK, BudgetOK, Phases, Work, Steps,
         TypeOK
<1>2. QED
  BY WatcherInvariant, <1>1, PTL

\* No document is extracted again and again, however often names collide, for
\* any number of documents, retries and faults.
THEOREM ExtractionIsBounded == Spec => []RunsBounded
<1>1. ASSUME WatcherInv PROVE RunsBounded
  <2> SUFFICES ASSUME NEW d \in Docs
               PROVE  taken[d] <= 1 + 2 * MaxRetries + faults
    BY DEF RunsBounded
  <2>1. taken[d] \in Nat /\ faults \in Nat /\ MaxRetries \in Nat
    BY <1>1, TwoNames DEF WatcherInv, BudgetOK
  <2>2. retries[NameOf[d]] \in 0..MaxRetries /\ retries[d] \in 0..MaxRetries
    BY <1>1, TwoNames DEF WatcherInv, EventsOK
  <2>3. Due(d) \in 0..1
    BY DEF Due
  <2>4. taken[d] + Due(d) <= 1 + retries[NameOf[d]] + retries[d] + faults
    BY <1>1 DEF WatcherInv, BudgetOK, Allowance
  <2>5. QED BY <2>1, <2>2, <2>3, <2>4
<1>2. QED
  BY WatcherInvariant, <1>1, PTL

\* No step of the watcher overwrites a document, except by taking a namesake of
\* one that was left in processing/.
THEOREM NoDocumentOverwritten == Spec => DocumentsKept
<1>1. ASSUME WatcherInv, [Next]_vars PROVE [Kept]_vars
  BY <1>1, WatcherStep
<1>2. QED
  BY WatcherInvariant, <1>1, PTL DEF Spec, DocumentsKept, Kept

\* No two files of one name ever lie in one folder: a rename of the model, which
\* would replace the second of them, never meets both.
THEOREM FoldersHoldNamesOnce == Spec => []OneFileAName
<1>1. WatcherInv => OneFileAName
  BY DEF WatcherInv, FilesOK
<1>2. QED
  BY WatcherInvariant, <1>1, PTL

-----------------------------------------------------------------------------
(* How many documents can be lost *)

\* A document that is overwritten, or left in processing/ with no run at work
\* on it, where the next file of its name would overwrite it.
Lost == {d \in Docs : \/ place[d] = "gone"
                      \/ place[d] = "processing" /\ ~InHand(d)}

\* Each of them stands for a fault of its own: without a failed write, a failed
\* move or a crash nothing is lost, and no single one of them loses two.
LossesPaid == IsFiniteSet(Lost) /\ Cardinality(Lost) <= faults

\* What a step may add to the lost.
Paid == \/ Lost' \subseteq Lost /\ faults' = faults
        \/ Fault /\ \E d : Lost' \subseteq Lost \cup {d}

\* A step that pays for what it loses.
LEMMA LossesKept ==
  ASSUME LossesPaid, Paid, faults \in Nat
  PROVE  LossesPaid'
<1>1. IsFiniteSet(Lost) /\ Cardinality(Lost) \in Nat /\ Cardinality(Lost) <= faults
  BY FS_CardinalityType DEF LossesPaid
<1>2. CASE Lost' \subseteq Lost /\ faults' = faults
  <2>1. IsFiniteSet(Lost') /\ Cardinality(Lost') <= Cardinality(Lost)
    BY <1>1, <1>2, FS_Subset
  <2>2. Cardinality(Lost') \in Nat
    BY <2>1, FS_CardinalityType
  <2>3. QED BY <1>1, <1>2, <2>1, <2>2 DEF LossesPaid
<1>3. ASSUME Fault, NEW d, Lost' \subseteq Lost \cup {d}
      PROVE  LossesPaid'
  <2>1. /\ IsFiniteSet(Lost \cup {d})
        /\ Cardinality(Lost \cup {d}) \in {Cardinality(Lost), Cardinality(Lost) + 1}
    BY <1>1, FS_AddElement
  <2>2. /\ IsFiniteSet(Lost') /\ Cardinality(Lost') \in Nat
        /\ Cardinality(Lost') <= Cardinality(Lost \cup {d})
    BY <1>3, <2>1, FS_Subset, FS_CardinalityType
  <2>3. QED BY <1>1, <1>3, <2>1, <2>2 DEF LossesPaid, Fault
<1>4. QED BY <1>2, <1>3 DEF Paid

\* Steps that leave the files where they are lose at most the one in hand, and
\* for a fault only.
LEMMA NoneMoved ==
  ASSUME UNCHANGED files,
         \/ faults' = faults /\ \A d \in Docs : InHand(d) => InHand(d)'
         \/ Fault
  PROVE  Paid
<1>1. Lost' \subseteq Lost \cup {work.doc}
  BY DEF Lost, InHand, files
<1>2. (\A d \in Docs : InHand(d) => InHand(d)') => Lost' \subseteq Lost
  BY DEF Lost, files
<1>3. QED BY <1>1, <1>2 DEF Paid

\* Steps that move files out of the way of others, and not into processing/.
LEMMA MovedAside ==
  ASSUME WatcherInv, NEW S \in SUBSET Docs,
         \A d \in S : place'[d] \notin {"gone", "processing"},
         \A d \in Docs \ S : place'[d] = place[d] /\ ~InHand(d),
         faults' = faults \/ Fault
  PROVE  Paid
<1>1. Lost' \subseteq Lost
  BY DEF Lost
<1>2. QED BY <1>1 DEF Paid

\* The world and the poll.
LEMMA PollLosses ==
  ASSUME WatcherInv, Poll \/ Boot \/ Crash \/ Tick \/ \E d \in Docs : Deliver(d) \/ Protect(d)
  PROVE  Paid
<1>1. CASE UNCHANGED <<files, work, faults>>
  BY <1>1, NoneMoved DEF InHand
<1>2. CASE Crash
  BY <1>2, NoneMoved DEF Crash
<1>3. ASSUME Boot \/ StartPoll
      PROVE  Paid
  <2>1. PICK S \in SUBSET Docs :
          (\A d \in S : place[d] = "processing") /\ MoveTo(S, "incoming")
    BY <1>3 DEF Boot, StartPoll
  <2>2. /\ \A d \in S : place'[d] = "incoming"
        /\ \A d \in Docs \ S : place'[d] = place[d]
    BY <2>1, Moved DEF WatcherInv, Places
  <2>3. \A d \in Docs : ~InHand(d)
    BY <1>3, WorkTyped DEF WatcherInv, PollOK, Boot, StartPoll, InHand
  <2>4. QED BY <1>3, <2>2, <2>3, MovedAside DEF Boot, StartPoll
<1>4. ASSUME NEW d \in Docs, QueueRetryableFiles(d)
      PROVE  Paid
  <2>1. /\ phase = "queue" /\ Rename({d}, "incoming", name)
        /\ ~Exists("incoming", name[d]) /\ (faults' = faults \/ Fault)
    BY <1>4 DEF QueueRetryableFiles, Retryable
  <2>2. /\ place'[d] = "incoming"
        /\ \A e \in Docs \ {d} : place'[e] = place[e]
    BY <2>1, RenamedOne DEF WatcherInv, Places, Exists
  <2>3. \A e \in Docs : ~InHand(e)
    BY <2>1, WorkTyped DEF WatcherInv, PollOK, InHand
  <2>4. QED BY <2>1, <2>2, <2>3, MovedAside
<1>5. ASSUME NEW d \in Docs, Deliver(d)
      PROVE  Paid
  <2>1. \A e \in Docs : place'[e] = IF e = d THEN "incoming" ELSE place[e]
    BY <1>5 DEF Deliver, WatcherInv, FilesOK
  <2>2. \A e \in Docs : InHand(e)' <=> InHand(e)
    BY <1>5 DEF Deliver, InHand
  <2>3. Lost' \subseteq Lost
    BY <2>1, <2>2 DEF Lost
  <2>4. QED BY <1>5, <2>3 DEF Paid, Deliver
<1>6. QED
  BY <1>1, <1>2, <1>3, <1>4, <1>5
     DEF Poll, SkipAudit, AuditUploadOnlyIntake, ReconcileStalePdfPaths, ListIncoming,
         EndPoll, Tick, Protect

\* A file that is taken replaces only a namesake that was counted already.
LEMMA TakeLosses ==
  ASSUME WatcherInv, NEW d \in Docs, Take(d)
  PROVE  Paid
<1>1. /\ work = NoWork /\ Rename({d}, "processing", name) /\ faults' = faults
      /\ work'.doc = d /\ work'.at = "taken"
  BY DEF Take, NoWork
<1>2. /\ place'[d] = "processing"
      /\ \A e \in Docs \ {d} :
           place'[e] = IF place[e] = "processing" /\ name[e] = name[d] THEN "gone"
                       ELSE place[e]
  BY <1>1, RenamedOne DEF WatcherInv, Places
<1>3. \A e \in Docs : ~InHand(e)
  BY <1>1, WorkTyped DEF InHand
<1>4. InHand(d)'
  BY <1>1 DEF InHand
<1>5. Lost' \subseteq Lost
  BY <1>2, <1>3, <1>4 DEF Lost
<1>6. QED BY <1>1, <1>5 DEF Paid

\* The rest of a run: what is in hand is parked, or left for a fault.
LEMMA RunLosses ==
  ASSUME WatcherInv, ProcessFile, \A d \in Docs : ~Take(d)
  PROVE  Paid
<1>1. ASSUME NEW d \in Docs, work.doc = d, work.at # "none", MoveTo({d}, "failed")
             \/ MoveTo({d}, "manual-review") \/ MoveTo({d}, "duplicates")
             \/ MoveTo({d}, "processed"),
             faults' = faults \/ Fault
      PROVE  Paid
  <2>1. place[d] \in Places
    BY <1>1, InWork DEF WatcherInv, PollOK
  <2>2. /\ place'[d] \notin {"gone", "processing"}
        /\ \A e \in Docs \ {d} : place'[e] = place[e]
    BY <1>1, <2>1, MovedOne DEF WatcherInv, Places
  <2>3. \A e \in Docs \ {d} : ~InHand(e)
    BY <1>1 DEF InHand
  <2>4. QED BY <1>1, <2>2, <2>3, MovedAside
<1>2. ASSUME UNCHANGED files, Fault
      PROVE  Paid
  BY <1>2, NoneMoved
<1>3. ASSUME NEW d \in Docs, ReadFails(d) \/ Divert(d) \/ BlockDuplicate(d)
      PROVE  Paid
  BY <1>1, <1>2, <1>3 DEF ReadFails, Divert, BlockDuplicate, DivertAs, SafeMove
<1>4. ASSUME NEW d \in Docs, Park(d) \/ AfterSaveFails(d)
      PROVE  Paid
  BY <1>1, <1>2, <1>4 DEF Park, AfterSaveFails
<1>5. ASSUME NEW d \in Docs, TakeFails(d) \/ SaveFails(d)
      PROVE  Paid
  BY <1>2, <1>5 DEF TakeFails, SaveFails
<1>6. ASSUME RecordCreated \/ \E d \in Docs : RecordUploaded(d) \/ CreateRow(d)
      PROVE  Paid
  <2>1. work \in Work
    BY DEF WatcherInv, PollOK
  <2>2. \A e \in Docs : InHand(e) => InHand(e)'
    BY <1>6, <2>1 DEF RecordUploaded, CreateRow, RecordCreated, InHand, Work
  <2>3. UNCHANGED files /\ (faults' = faults \/ Fault)
    BY <1>6 DEF RecordUploaded, CreateRow, RecordCreated, Answer
  <2>4. QED BY <2>2, <2>3, NoneMoved
<1>7. ASSUME RecordDiverted \/ \E d \in Docs : UpdatePdfPath(d)
      PROVE  Paid
  <2>1. \A e \in Docs : ~InHand(e)
    BY <1>7 DEF RecordDiverted, UpdatePdfPath, InHand
  <2>2. UNCHANGED files /\ (faults' = faults \/ Fault)
    BY <1>7 DEF RecordDiverted, UpdatePdfPath, Answer
  <2>3. QED BY <2>1, <2>2, NoneMoved
<1>8. QED
  BY <1>3, <1>4, <1>5, <1>6, <1>7 DEF ProcessFile

\* At most as many documents are lost as faults have occurred, for any number
\* of documents and in any order of retries, recoveries and crashes.
THEOREM LossesNeedFaults == Spec => []LossesPaid
<1>1. Init => LossesPaid
  <2>1. Init => Lost = {} /\ faults = 0
    BY DEF Init, Lost
  <2>2. QED BY <2>1, FS_EmptySet DEF LossesPaid
<1>2. ASSUME WatcherInv, LossesPaid, [Next]_vars
      PROVE  LossesPaid'
  <2>1. faults \in Nat
    BY <1>2, TwoNames DEF WatcherInv, BudgetOK
  <2>2. CASE UNCHANGED vars
    <3>1. Lost' = Lost /\ faults' = faults
      BY <2>2 DEF vars, files, Lost, InHand
    <3>2. QED BY <1>2, <3>1 DEF LossesPaid
  <2>3. CASE Next
    <3>1. Paid
      BY <1>2, <2>3, PollLosses, TakeLosses, RunLosses DEF Next
    <3>2. QED BY <1>2, <2>1, <3>1, LossesKept
  <2>4. QED BY <1>2, <2>2, <2>3
<1>3. QED
  BY <1>1, <1>2, WatcherInvariant, PTL DEF Spec
=============================================================================
