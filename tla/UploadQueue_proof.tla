-------------------------- MODULE UploadQueue_proof --------------------------
(* Theorems about UploadQueue, for every set of jobs, every number of slots, *)
(* retries and crashes.                                                      *)
EXTENDS UploadQueue, FiniteSetTheorems, TLAPS

\* What is left of a stretch of code: of an upload, of a run that starts, of
\* one that ends and gives its slot back, and of the start of the process.
Uploading == {<<"queued", "bin", "meta", "push">>, <<"bin", "meta", "push">>,
              <<"meta", "push">>, <<"push">>}
Starting == {<<"count", "processing", "start">>, <<"processing", "start">>, <<"start">>}
Ending == {<<"count", "dead_letter", "unmeta", "unbin", "settle">>,
           <<"meta", "dead_letter", "unmeta", "unbin", "settle">>,
           <<"dead_letter", "unmeta", "unbin", "settle">>,
           <<"completed", "unmeta", "unbin", "settle">>,
           <<"unmeta", "unbin", "settle">>, <<"unbin", "settle">>,
           <<"meta", "retrying", "settle">>, <<"retrying", "settle">>, <<"settle">>}
Sweeping == {<<"dead_letter", "unmeta", "unbin">>, <<"unmeta", "unbin">>, <<"unbin">>}

Waits(j) == \E k \in 1..Len(pending) : pending[k] = j

\* A job is in one place: found by the start, waiting, being processed, or the
\* subject of the turn.  A stopped process has none of them, and one that is
\* starting processes nothing.
PlaceOK ==
  /\ turn \in {<<>>} \cup Uploading \cup Starting \cup Ending \cup Sweeping
  /\ subject \in Jobs \cup {NoJob} /\ (turn = <<>> <=> subject = NoJob)
  /\ found \subseteq Jobs /\ pending \in Seq(Jobs) /\ running \subseteq Jobs
  /\ \A k, l \in 1..Len(pending) : pending[k] = pending[l] => k = l
  /\ \A j \in Jobs : Waits(j) => j \notin running \cup found \cup {subject}
  /\ subject \notin running \cup found
  /\ up \in BOOLEAN /\ (~up => turn = <<>> /\ found = {} /\ pending = <<>>)
  /\ ~up \/ found # {} \/ turn \in Sweeping => running = {}
  /\ found # {} => turn \in {<<>>} \cup Sweeping

\* A slot is taken for each run, from its turn at the start to that at its end.
SlotsOK ==
  /\ IsFiniteSet(running) /\ active <= Concurrency
  /\ active = Cardinality(running) + (IF turn \in Starting \cup Ending THEN 1 ELSE 0)

FilesTyped ==
  /\ status \in [Jobs -> Status]
  /\ meta \in [Jobs -> {"none", "ok", "torn"}]
  /\ bin \subseteq Jobs /\ aged \subseteq Jobs /\ accepted \subseteq Jobs

\* An id that was not given out yet has left no trace.
UnusedOK ==
  /\ \A j \in Jobs : status[j] = "none" =>
       /\ attempts[j] = 0 /\ meta[j] = "none" /\ j \notin bin
       /\ ~Waits(j) /\ j \notin running \cup found \cup accepted
       /\ subject = j => turn = <<"queued", "bin", "meta", "push">>
  /\ turn = <<"queued", "bin", "meta", "push">> => status[subject] = "none"

\* Every start was counted before; what waits, or is about to be counted, has
\* an attempt left.
BudgetOK ==
  /\ attempts \in [Jobs -> Nat] /\ starts \in [Jobs -> Nat]
  /\ \A j \in Jobs :
       /\ starts[j] <= attempts[j] /\ attempts[j] <= Budget
       /\ Waits(j) => attempts[j] < Budget
  /\ turn \in Uploading => attempts[subject] = 0
  /\ turn # <<>> /\ Head(turn) = "count" => attempts[subject] < Budget
  /\ turn \in {<<"processing", "start">>, <<"start">>} => starts[subject] < attempts[subject]

\* The files of j may go: its upload was not answered, or has an outcome.
Removable(j) == j \in FaultyDisk \/ j \notin accepted \/ status[j] \notin Waiting

KeptOK ==
  /\ AcceptedUploadKept
  /\ \A j \in aged : status[j] = "expired"
  /\ \A j \in running : status[j] \in {"processing", "expired"}
  /\ turn \in {<<"start">>, <<"meta", "retrying", "settle">>, <<"retrying", "settle">>} =>
       status[subject] \in {"processing", "expired"}
  /\ turn \in {<<"count", "processing", "start">>, <<"processing", "start">>} =>
       meta[subject] # "none" /\ subject \in bin
  /\ turn \in Uploading => subject \notin accepted
  /\ turn \in {<<"meta", "push">>, <<"push">>} => subject \in bin
  /\ turn = <<"push">> => meta[subject] # "none"
  /\ turn # <<>> /\ Head(turn) \in {"unmeta", "unbin"} => Removable(subject)

\* What is reported as processing is, or the turn is about to report its end.
Closing == {<<"start">>, <<"completed", "unmeta", "unbin", "settle">>,
            <<"meta", "dead_letter", "unmeta", "unbin", "settle">>,
            <<"dead_letter", "unmeta", "unbin", "settle">>,
            <<"meta", "retrying", "settle">>, <<"retrying", "settle">>}
ReportOK ==
  up => \A j \in Jobs : status[j] = "processing" =>
          j \in running \/ (subject = j /\ turn \in Closing)

QueueInv == PlaceOK /\ SlotsOK /\ FilesTyped /\ UnusedOK /\ BudgetOK /\ KeptOK /\ ReportOK

-----------------------------------------------------------------------------
(* Turns. *)

\* What is left of each stretch after its first write.
LEMMA Tails ==
  /\ Tail(<<"queued", "bin", "meta", "push">>) = <<"bin", "meta", "push">>
  /\ Tail(<<"bin", "meta", "push">>) = <<"meta", "push">>
  /\ Tail(<<"meta", "push">>) = <<"push">>
  /\ Tail(<<"push">>) = <<>>
  /\ Tail(<<"count", "processing", "start">>) = <<"processing", "start">>
  /\ Tail(<<"processing", "start">>) = <<"start">>
  /\ Tail(<<"start">>) = <<>>
  /\ Tail(<<"count", "dead_letter", "unmeta", "unbin", "settle">>) = <<"dead_letter", "unmeta", "unbin", "settle">>
  /\ Tail(<<"meta", "dead_letter", "unmeta", "unbin", "settle">>) = <<"dead_letter", "unmeta", "unbin", "settle">>
  /\ Tail(<<"dead_letter", "unmeta", "unbin", "settle">>) = <<"unmeta", "unbin", "settle">>
  /\ Tail(<<"completed", "unmeta", "unbin", "settle">>) = <<"unmeta", "unbin", "settle">>
  /\ Tail(<<"unmeta", "unbin", "settle">>) = <<"unbin", "settle">>
  /\ Tail(<<"unbin", "settle">>) = <<"settle">>
  /\ Tail(<<"meta", "retrying", "settle">>) = <<"retrying", "settle">>
  /\ Tail(<<"retrying", "settle">>) = <<"settle">>
  /\ Tail(<<"settle">>) = <<>>
  /\ Tail(<<"dead_letter", "unmeta", "unbin">>) = <<"unmeta", "unbin">>
  /\ Tail(<<"unmeta", "unbin">>) = <<"unbin">>
  /\ Tail(<<"unbin">>) = <<>>
  OBVIOUS

\* The first write of each stretch.
LEMMA Heads ==
  /\ Head(<<"queued", "bin", "meta", "push">>) = "queued"
  /\ Head(<<"bin", "meta", "push">>) = "bin"
  /\ Head(<<"meta", "push">>) = "meta"
  /\ Head(<<"push">>) = "push"
  /\ Head(<<"count", "processing", "start">>) = "count"
  /\ Head(<<"processing", "start">>) = "processing"
  /\ Head(<<"start">>) = "start"
  /\ Head(<<"count", "dead_letter", "unmeta", "unbin", "settle">>) = "count"
  /\ Head(<<"meta", "dead_letter", "unmeta", "unbin", "settle">>) = "meta"
  /\ Head(<<"dead_letter", "unmeta", "unbin", "settle">>) = "dead_letter"
  /\ Head(<<"completed", "unmeta", "unbin", "settle">>) = "completed"
  /\ Head(<<"unmeta", "unbin", "settle">>) = "unmeta"
  /\ Head(<<"unbin", "settle">>) = "unbin"
  /\ Head(<<"meta", "retrying", "settle">>) = "meta"
  /\ Head(<<"retrying", "settle">>) = "retrying"
  /\ Head(<<"settle">>) = "settle"
  /\ Head(<<"dead_letter", "unmeta", "unbin">>) = "dead_letter"
  /\ Head(<<"unmeta", "unbin">>) = "unmeta"
  /\ Head(<<"unbin">>) = "unbin"
  OBVIOUS

\* What follows a write is of the same kind, and a turn is never shared by two kinds.
LEMMA Remainder ==
  /\ \A t \in Uploading : t = <<"push">> \/ Tail(t) \in Uploading
  /\ \A t \in Starting : t = <<"start">> \/ Tail(t) \in Starting
  /\ \A t \in Ending : t = <<"settle">> \/ Tail(t) \in Ending
  /\ \A t \in Sweeping : t = <<"unbin">> \/ Tail(t) \in Sweeping
  /\ \A x \in {"push", "start", "settle", "unbin"} : Tail(<<x>>) = <<>>
<1>1. \A t \in Uploading : t = <<"push">> \/ Tail(t) \in Uploading
  BY Tails DEF Uploading
<1>2. \A t \in Starting : t = <<"start">> \/ Tail(t) \in Starting
  BY Tails DEF Starting
<1>3. \A t \in Ending : t = <<"settle">> \/ Tail(t) \in Ending
  BY Tails DEF Ending
<1>4. \A t \in Sweeping : t = <<"unbin">> \/ Tail(t) \in Sweeping
  BY Tails DEF Sweeping
<1> QED
  BY <1>1, <1>2, <1>3, <1>4, Tails

\* The kinds of stretches have nothing in common.
LEMMA Kinds ==
  /\ \A t \in Uploading : t \notin Starting \cup Ending \cup Sweeping /\ t # <<>>
  /\ \A t \in Starting : t \notin Ending \cup Sweeping /\ t # <<>>
  /\ \A t \in Ending : t \notin Sweeping /\ t # <<>>
  /\ <<>> \notin Sweeping
  BY DEF Uploading, Starting, Ending, Sweeping

-----------------------------------------------------------------------------
(* Writes. *)

\* A write to the job store or to a file keeps every job in its place.
LEMMA FileWrites ==
  ASSUME QueueInv, turn # <<>>, Head(turn) \notin {"push", "start", "settle"},
         up, turn' = Tail(turn),
         subject' = IF Tail(turn) = <<>> THEN NoJob ELSE subject,
         UNCHANGED <<up, found, memory>>
  PROVE  PlaceOK' /\ SlotsOK'
<1> USE DEF QueueInv
<1>1. turn \in Uploading \cup Starting \cup Ending \cup Sweeping
  BY DEF PlaceOK
<1>2. turn \notin {<<"push">>, <<"start">>, <<"settle">>}
  BY Heads
<1>3. /\ turn' \in {<<>>} \cup Uploading \cup Starting \cup Ending \cup Sweeping
      /\ turn' \in Starting \cup Ending <=> turn \in Starting \cup Ending
      /\ turn' \in Sweeping => turn \in Sweeping
      /\ turn \in Sweeping => turn' \in {<<>>} \cup Sweeping
      /\ turn' = <<>> => subject' = NoJob
      /\ turn' # <<>> => subject' = subject
  BY <1>1, <1>2, Remainder, Kinds
<1>4. PlaceOK'
  BY <1>1, <1>3, QueueAssumption DEF PlaceOK, Waits, memory
<1>5. SlotsOK'
  BY <1>3 DEF SlotsOK, memory
<1> QED
  BY <1>4, <1>5

\* A write leaves the rest of its stretch to the same job.
LEMMA TurnAdvances ==
  ASSUME PlaceOK, Write
  PROVE  /\ up /\ turn # <<>> /\ subject \in Jobs /\ turn' = Tail(turn)
         /\ turn' = <<>> => subject' = NoJob
         /\ turn' # <<>> => subject' = subject
         /\ UNCHANGED <<up, found, aged, crashes>>
         /\ Head(turn) = "queued" => /\ turn = <<"queued", "bin", "meta", "push">>
                                     /\ turn' = <<"bin", "meta", "push">>
         /\ Head(turn) = "bin" => /\ turn = <<"bin", "meta", "push">>
                                  /\ turn' = <<"meta", "push">>
         /\ Head(turn) = "meta" =>
              \/ turn = <<"meta", "push">> /\ turn' = <<"push">>
              \/ /\ turn = <<"meta", "dead_letter", "unmeta", "unbin", "settle">>
                 /\ turn' = <<"dead_letter", "unmeta", "unbin", "settle">>
              \/ turn = <<"meta", "retrying", "settle">> /\ turn' = <<"retrying", "settle">>
         /\ Head(turn) = "push" => turn = <<"push">> /\ turn' = <<>>
         /\ Head(turn) = "count" =>
              \/ /\ turn = <<"count", "processing", "start">>
                 /\ turn' = <<"processing", "start">>
              \/ /\ turn = <<"count", "dead_letter", "unmeta", "unbin", "settle">>
                 /\ turn' = <<"dead_letter", "unmeta", "unbin", "settle">>
         /\ Head(turn) = "processing" => turn = <<"processing", "start">> /\ turn' = <<"start">>
         /\ Head(turn) = "start" => turn = <<"start">> /\ turn' = <<>>
         /\ Head(turn) = "dead_letter" =>
              \/ turn = <<"dead_letter", "unmeta", "unbin">> /\ turn' = <<"unmeta", "unbin">>
              \/ /\ turn = <<"dead_letter", "unmeta", "unbin", "settle">>
                 /\ turn' = <<"unmeta", "unbin", "settle">>
         /\ Head(turn) = "completed" => /\ turn = <<"completed", "unmeta", "unbin", "settle">>
                                        /\ turn' = <<"unmeta", "unbin", "settle">>
         /\ Head(turn) = "retrying" => turn = <<"retrying", "settle">> /\ turn' = <<"settle">>
         /\ Head(turn) = "unmeta" =>
              \/ turn = <<"unmeta", "unbin">> /\ turn' = <<"unbin">>
              \/ turn = <<"unmeta", "unbin", "settle">> /\ turn' = <<"unbin", "settle">>
         /\ Head(turn) = "unbin" =>
              \/ turn = <<"unbin">> /\ turn' = <<>>
              \/ turn = <<"unbin", "settle">> /\ turn' = <<"settle">>
         /\ Head(turn) = "settle" => turn = <<"settle">> /\ turn' = <<>>
         /\ Head(turn) \in Operation
<1>1. /\ up /\ turn # <<>> /\ subject \in Jobs /\ turn' = Tail(turn)
      /\ turn' = <<>> => subject' = NoJob
      /\ turn' # <<>> => subject' = subject
      /\ UNCHANGED <<up, found, aged, crashes>>
  BY DEF PlaceOK, Write
<1>2. turn \in Uploading \cup Starting \cup Ending \cup Sweeping
  BY <1>1 DEF PlaceOK
<1>3. CASE turn \in Uploading
  <2>1. \/ /\ Head(turn) = "queued" /\ turn = <<"queued", "bin", "meta", "push">>
           /\ turn' = <<"bin", "meta", "push">>
        \/ Head(turn) = "bin" /\ turn = <<"bin", "meta", "push">> /\ turn' = <<"meta", "push">>
        \/ Head(turn) = "meta" /\ turn = <<"meta", "push">> /\ turn' = <<"push">>
        \/ Head(turn) = "push" /\ turn = <<"push">> /\ turn' = <<>>
    BY <1>1, <1>3, Heads, Tails DEF Uploading
  <2> QED
    BY <1>1, <2>1 DEF Operation
<1>4. CASE turn \in Starting
  <2>1. \/ /\ Head(turn) = "count" /\ turn = <<"count", "processing", "start">>
           /\ turn' = <<"processing", "start">>
        \/ Head(turn) = "processing" /\ turn = <<"processing", "start">> /\ turn' = <<"start">>
        \/ Head(turn) = "start" /\ turn = <<"start">> /\ turn' = <<>>
    BY <1>1, <1>4, Heads, Tails DEF Starting
  <2> QED
    BY <1>1, <2>1 DEF Operation
<1>5. CASE turn \in Ending
  <2>1. ASSUME turn \in {<<"count", "dead_letter", "unmeta", "unbin", "settle">>,
                         <<"meta", "dead_letter", "unmeta", "unbin", "settle">>,
                         <<"dead_letter", "unmeta", "unbin", "settle">>,
                         <<"completed", "unmeta", "unbin", "settle">>,
                         <<"meta", "retrying", "settle">>}
        PROVE
        \/ /\ Head(turn) = "count" /\ turn = <<"count", "dead_letter", "unmeta", "unbin", "settle">>
           /\ turn' = <<"dead_letter", "unmeta", "unbin", "settle">>
        \/ /\ Head(turn) = "meta" /\ turn = <<"meta", "dead_letter", "unmeta", "unbin", "settle">>
           /\ turn' = <<"dead_letter", "unmeta", "unbin", "settle">>
        \/ /\ Head(turn) = "dead_letter" /\ turn = <<"dead_letter", "unmeta", "unbin", "settle">>
           /\ turn' = <<"unmeta", "unbin", "settle">>
        \/ /\ Head(turn) = "completed" /\ turn = <<"completed", "unmeta", "unbin", "settle">>
           /\ turn' = <<"unmeta", "unbin", "settle">>
        \/ /\ Head(turn) = "meta" /\ turn = <<"meta", "retrying", "settle">>
           /\ turn' = <<"retrying", "settle">>
    BY <1>1, <2>1, Heads, Tails
  <2>2. ASSUME turn \in {<<"unmeta", "unbin", "settle">>, <<"unbin", "settle">>,
                         <<"retrying", "settle">>, <<"settle">>}
        PROVE
        \/ /\ Head(turn) = "unmeta" /\ turn = <<"unmeta", "unbin", "settle">>
           /\ turn' = <<"unbin", "settle">>
        \/ Head(turn) = "unbin" /\ turn = <<"unbin", "settle">> /\ turn' = <<"settle">>
        \/ Head(turn) = "retrying" /\ turn = <<"retrying", "settle">> /\ turn' = <<"settle">>
        \/ Head(turn) = "settle" /\ turn = <<"settle">> /\ turn' = <<>>
    BY <1>1, <2>2, Heads, Tails
  <2>3. \/ turn \in {<<"count", "dead_letter", "unmeta", "unbin", "settle">>,
                     <<"meta", "dead_letter", "unmeta", "unbin", "settle">>,
                     <<"dead_letter", "unmeta", "unbin", "settle">>,
                     <<"completed", "unmeta", "unbin", "settle">>,
                     <<"meta", "retrying", "settle">>}
        \/ turn \in {<<"unmeta", "unbin", "settle">>, <<"unbin", "settle">>,
                     <<"retrying", "settle">>, <<"settle">>}
    BY <1>5 DEF Ending
  <2>4. CASE turn \in {<<"count", "dead_letter", "unmeta", "unbin", "settle">>,
                       <<"meta", "dead_letter", "unmeta", "unbin", "settle">>,
                       <<"dead_letter", "unmeta", "unbin", "settle">>,
                       <<"completed", "unmeta", "unbin", "settle">>,
                       <<"meta", "retrying", "settle">>}
    BY <1>1, <2>1, <2>4 DEF Operation
  <2>5. CASE turn \in {<<"unmeta", "unbin", "settle">>, <<"unbin", "settle">>,
                       <<"retrying", "settle">>, <<"settle">>}
    BY <1>1, <2>2, <2>5 DEF Operation
  <2> QED
    BY <2>3, <2>4, <2>5
<1>6. CASE turn \in Sweeping
  <2>1. \/ /\ Head(turn) = "dead_letter" /\ turn = <<"dead_letter", "unmeta", "unbin">>
           /\ turn' = <<"unmeta", "unbin">>
        \/ Head(turn) = "unmeta" /\ turn = <<"unmeta", "unbin">> /\ turn' = <<"unbin">>
        \/ Head(turn) = "unbin" /\ turn = <<"unbin">> /\ turn' = <<>>
    BY <1>1, <1>6, Heads, Tails DEF Sweeping
  <2> QED
    BY <1>1, <2>1 DEF Operation
<1> QED
  BY <1>2, <1>3, <1>4, <1>5, <1>6

\* What each write does.
LEMMA Effects ==
  ASSUME Write
  PROVE  /\ Head(turn) \in {"queued", "processing", "retrying", "completed", "dead_letter"} =>
              /\ status' = [status EXCEPT ![subject] =
                              IF status[subject] = "expired" THEN "expired" ELSE Head(turn)]
              /\ UNCHANGED <<memory, meta, attempts, bin, history>>
         /\ Head(turn) \in {"meta", "count"} =>
              /\ meta' = [meta EXCEPT ![subject] = "ok"]
              /\ attempts' = [attempts EXCEPT ![subject] =
                                IF Head(turn) = "count" THEN attempts[subject] + 1
                                ELSE attempts[subject]]
              /\ UNCHANGED <<memory, status, bin, history>>
         /\ Head(turn) = "unmeta" =>
              /\ meta' = [meta EXCEPT ![subject] = "none"]
              /\ UNCHANGED <<memory, status, attempts, bin, history>>
         /\ Head(turn) \in {"bin", "unbin"} =>
              /\ bin' = IF Head(turn) = "bin" THEN bin \cup {subject} ELSE bin \ {subject}
              /\ UNCHANGED <<memory, status, meta, attempts, history>>
         /\ Head(turn) \in {"push", "start", "settle"} => EndStretch(Head(turn), subject)
<1>1. WriteStatus(Head(turn), subject) \/ WriteFile(Head(turn), subject)
        \/ EndStretch(Head(turn), subject)
  BY DEF Write
<1>2. CASE WriteStatus(Head(turn), subject)
  BY <1>2 DEF WriteStatus
<1>3. CASE WriteFile(Head(turn), subject)
  BY <1>3 DEF WriteFile
<1>4. CASE EndStretch(Head(turn), subject)
  BY <1>4 DEF EndStretch
<1> QED
  BY <1>1, <1>2, <1>3, <1>4

\* createJob writes the record of an upload.
LEMMA QueuedWritten ==
  ASSUME QueueInv, Write, Head(turn) = "queued"
  PROVE  QueueInv'
<1> USE DEF QueueInv
<1>1. /\ status' = [status EXCEPT ![subject] = "queued"]
      /\ turn = <<"queued", "bin", "meta", "push">> /\ turn' = <<"bin", "meta", "push">>
      /\ subject' = subject /\ subject \in Jobs /\ status[subject] = "none"
      /\ UNCHANGED <<up, found, memory, meta, attempts, bin, aged, history, crashes>>
  BY TurnAdvances, Effects DEF UnusedOK
<1>2. PlaceOK' /\ SlotsOK'
  BY <1>1, FileWrites DEF Write
<1>3. FilesTyped'
  BY <1>1 DEF FilesTyped, Status, history
<1>4. UnusedOK'
  BY <1>1 DEF UnusedOK, memory, history, Waits, FilesTyped
<1>5. BudgetOK'
  BY <1>1, Heads DEF BudgetOK, memory, history, Waits, Uploading, UnusedOK
<1>6. KeptOK'
  BY <1>1, Heads DEF KeptOK, memory, history, Uploading, UnusedOK, AcceptedUploadKept, PlaceOK, FilesTyped
<1>7. ReportOK'
  BY <1>1 DEF ReportOK, memory, Closing, FilesTyped
<1> QED
  BY <1>2, <1>3, <1>4, <1>5, <1>6, <1>7

\* The payload is written before its metadata.
LEMMA BinWritten ==
  ASSUME QueueInv, Write, Head(turn) = "bin"
  PROVE  QueueInv'
<1> USE DEF QueueInv
<1>1. /\ bin' = bin \cup {subject}
      /\ turn = <<"bin", "meta", "push">> /\ turn' = <<"meta", "push">>
      /\ subject' = subject /\ subject \in Jobs
      /\ UNCHANGED <<up, found, memory, status, meta, attempts, aged, history, crashes>>
  BY TurnAdvances, Effects
<1>2. PlaceOK' /\ SlotsOK'
  BY <1>1, FileWrites DEF Write
<1>3. FilesTyped'
  BY <1>1 DEF FilesTyped, Status, history, files
<1>4. UnusedOK'
  BY <1>1 DEF UnusedOK, memory, history, Waits, FilesTyped
<1>5. BudgetOK'
  BY <1>1, Heads DEF BudgetOK, memory, history, Waits, Uploading, FilesTyped
<1>6. KeptOK'
  BY <1>1, Heads DEF KeptOK, Removable, memory, history, Uploading, AcceptedUploadKept, PlaceOK, FilesTyped, Waiting
<1>7. ReportOK'
  BY <1>1 DEF ReportOK, memory, Closing, FilesTyped
<1> QED
  BY <1>2, <1>3, <1>4, <1>5, <1>6, <1>7

\* Metadata is written whole, with the attempts it had.
LEMMA MetaWritten ==
  ASSUME QueueInv, Write, Head(turn) = "meta"
  PROVE  QueueInv'
<1> USE DEF QueueInv
<1>1. /\ meta' = [meta EXCEPT ![subject] = "ok"]
      /\ attempts' = [attempts EXCEPT ![subject] = attempts[subject]]
      /\ \/ turn = <<"meta", "push">> /\ turn' = <<"push">>
         \/ /\ turn = <<"meta", "dead_letter", "unmeta", "unbin", "settle">>
            /\ turn' = <<"dead_letter", "unmeta", "unbin", "settle">>
         \/ turn = <<"meta", "retrying", "settle">> /\ turn' = <<"retrying", "settle">>
      /\ subject' = subject /\ subject \in Jobs
      /\ UNCHANGED <<up, found, memory, status, bin, aged, history, crashes>>
  BY TurnAdvances, Effects
<1>2. PlaceOK' /\ SlotsOK'
  BY <1>1, FileWrites DEF Write
<1>3. FilesTyped'
  BY <1>1 DEF FilesTyped, Status, history, files
<1>4. UnusedOK'
  BY <1>1 DEF UnusedOK, memory, history, Waits, FilesTyped
<1>5. BudgetOK'
  BY <1>1, Heads DEF BudgetOK, memory, history, Waits, Uploading, FilesTyped
<1>6. KeptOK'
  BY <1>1, Heads DEF KeptOK, Removable, memory, history, Uploading, AcceptedUploadKept, PlaceOK, FilesTyped, Waiting
<1>7. ReportOK'
  BY <1>1 DEF ReportOK, memory, Closing, FilesTyped
<1> QED
  BY <1>2, <1>3, <1>4, <1>5, <1>6, <1>7

\* The attempt is counted before the work; the job had one left, and waits no more.
LEMMA CountWritten ==
  ASSUME QueueInv, Write, Head(turn) = "count"
  PROVE  QueueInv'
<1> USE DEF QueueInv
<1>1. /\ meta' = [meta EXCEPT ![subject] = "ok"]
      /\ attempts' = [attempts EXCEPT ![subject] = attempts[subject] + 1]
      /\ \/ turn = <<"count", "processing", "start">> /\ turn' = <<"processing", "start">>
         \/ /\ turn = <<"count", "dead_letter", "unmeta", "unbin", "settle">>
            /\ turn' = <<"dead_letter", "unmeta", "unbin", "settle">>
      /\ subject' = subject /\ subject \in Jobs
      /\ UNCHANGED <<up, found, memory, status, bin, aged, history, crashes>>
  BY TurnAdvances, Effects
<1>2. PlaceOK' /\ SlotsOK'
  BY <1>1, FileWrites DEF Write
<1>3. FilesTyped'
  BY <1>1 DEF FilesTyped, Status, history, files
<1>4. UnusedOK'
  BY <1>1 DEF UnusedOK, memory, history, Waits, FilesTyped
<1>5. BudgetOK'
  <2>1. attempts[subject] < Budget /\ ~Waits(subject) /\ Budget \in Nat
    BY <1>1, QueueAssumption DEF BudgetOK, PlaceOK, Write, Budget
  <2>2. /\ attempts' \in [Jobs -> Nat] /\ starts' \in [Jobs -> Nat]
        /\ \A j \in Jobs :
             /\ starts'[j] <= attempts'[j] /\ attempts'[j] <= Budget
             /\ Waits(j)' => attempts'[j] < Budget
        /\ starts'[subject] < attempts'[subject]
    BY <1>1, <2>1 DEF BudgetOK, Waits, memory, history
  <2>3. ~(turn' # <<>> /\ Head(turn') = "count") /\ turn' \notin Uploading
    BY <1>1, Heads DEF Uploading
  <2> QED
    BY <1>1, <2>2, <2>3 DEF BudgetOK
<1>6. KeptOK'
  BY <1>1, Heads DEF KeptOK, Removable, memory, history, Uploading, AcceptedUploadKept, PlaceOK, FilesTyped, Waiting
<1>7. ReportOK'
  BY <1>1 DEF ReportOK, memory, Closing, FilesTyped
<1> QED
  BY <1>2, <1>3, <1>4, <1>5, <1>6, <1>7

\* The status of a run that starts; both files of its job are there.
LEMMA ProcessingWritten ==
  ASSUME QueueInv, Write, Head(turn) = "processing"
  PROVE  QueueInv'
<1> USE DEF QueueInv
<1>1. /\ status' = [status EXCEPT ![subject] =
                      IF status[subject] = "expired" THEN "expired" ELSE "processing"]
      /\ turn = <<"processing", "start">> /\ turn' = <<"start">>
      /\ subject' = subject /\ subject \in Jobs
      /\ UNCHANGED <<up, found, memory, meta, attempts, bin, aged, history, crashes>>
  BY TurnAdvances, Effects
<1>2. PlaceOK' /\ SlotsOK'
  BY <1>1, FileWrites DEF Write
<1>3. FilesTyped'
  BY <1>1 DEF FilesTyped, Status, history, files
<1>4. UnusedOK'
  BY <1>1 DEF UnusedOK, memory, history, Waits, FilesTyped
<1>5. BudgetOK'
  BY <1>1, Heads DEF BudgetOK, memory, history, Waits, Uploading, FilesTyped
<1>6. KeptOK'
  BY <1>1, Heads DEF KeptOK, Removable, memory, history, Uploading, AcceptedUploadKept, PlaceOK, FilesTyped, Waiting
<1>7. ReportOK'
  BY <1>1 DEF ReportOK, memory, Closing, FilesTyped
<1> QED
  BY <1>2, <1>3, <1>4, <1>5, <1>6, <1>7

\* The job is given up: from here its files may go.
LEMMA DeadLetterWritten ==
  ASSUME QueueInv, Write, Head(turn) = "dead_letter"
  PROVE  QueueInv'
<1> USE DEF QueueInv
<1>1. /\ status' = [status EXCEPT ![subject] =
                      IF status[subject] = "expired" THEN "expired" ELSE "dead_letter"]
      /\ \/ /\ turn = <<"dead_letter", "unmeta", "unbin">> /\ turn' = <<"unmeta", "unbin">>
         \/ /\ turn = <<"dead_letter", "unmeta", "unbin", "settle">>
            /\ turn' = <<"unmeta", "unbin", "settle">>
      /\ subject' = subject /\ subject \in Jobs
      /\ UNCHANGED <<up, found, memory, meta, attempts, bin, aged, history, crashes>>
  BY TurnAdvances, Effects
<1>2. PlaceOK' /\ SlotsOK'
  BY <1>1, FileWrites DEF Write
<1>3. FilesTyped'
  BY <1>1 DEF FilesTyped, Status, history, files
<1>4. UnusedOK'
  BY <1>1 DEF UnusedOK, memory, history, Waits, FilesTyped
<1>5. BudgetOK'
  BY <1>1, Heads DEF BudgetOK, memory, history, Waits, Uploading, FilesTyped
<1>6. KeptOK'
  BY <1>1, Heads DEF KeptOK, Removable, memory, history, Uploading, AcceptedUploadKept, PlaceOK, FilesTyped, Waiting
<1>7. ReportOK'
  BY <1>1 DEF ReportOK, memory, Closing, FilesTyped
<1> QED
  BY <1>2, <1>3, <1>4, <1>5, <1>6, <1>7

\* The result is recorded: from here the files may go.
LEMMA CompletedWritten ==
  ASSUME QueueInv, Write, Head(turn) = "completed"
  PROVE  QueueInv'
<1> USE DEF QueueInv
<1>1. /\ status' = [status EXCEPT ![subject] =
                      IF status[subject] = "expired" THEN "expired" ELSE "completed"]
      /\ turn = <<"completed", "unmeta", "unbin", "settle">>
      /\ turn' = <<"unmeta", "unbin", "settle">>
      /\ subject' = subject /\ subject \in Jobs
      /\ UNCHANGED <<up, found, memory, meta, attempts, bin, aged, history, crashes>>
  BY TurnAdvances, Effects
<1>2. PlaceOK' /\ SlotsOK'
  BY <1>1, FileWrites DEF Write
<1>3. FilesTyped'
  BY <1>1 DEF FilesTyped, Status, history, files
<1>4. UnusedOK'
  BY <1>1 DEF UnusedOK, memory, history, Waits, FilesTyped
<1>5. BudgetOK'
  BY <1>1, Heads DEF BudgetOK, memory, history, Waits, Uploading, FilesTyped
<1>6. KeptOK'
  BY <1>1, Heads DEF KeptOK, Removable, memory, history, Uploading, AcceptedUploadKept, PlaceOK, FilesTyped, Waiting
<1>7. ReportOK'
  BY <1>1 DEF ReportOK, memory, Closing, FilesTyped
<1> QED
  BY <1>2, <1>3, <1>4, <1>5, <1>6, <1>7

\* The job failed and keeps its files for the next start.
LEMMA RetryingWritten ==
  ASSUME QueueInv, Write, Head(turn) = "retrying"
  PROVE  QueueInv'
<1> USE DEF QueueInv
<1>1. /\ status' = [status EXCEPT ![subject] =
                      IF status[subject] = "expired" THEN "expired" ELSE "retrying"]
      /\ turn = <<"retrying", "settle">> /\ turn' = <<"settle">>
      /\ subject' = subject /\ subject \in Jobs
      /\ UNCHANGED <<up, found, memory, meta, attempts, bin, aged, history, crashes>>
  BY TurnAdvances, Effects
<1>2. PlaceOK' /\ SlotsOK'
  BY <1>1, FileWrites DEF Write
<1>3. FilesTyped'
  BY <1>1 DEF FilesTyped, Status, history, files
<1>4. UnusedOK'
  BY <1>1 DEF UnusedOK, memory, history, Waits, FilesTyped
<1>5. BudgetOK'
  BY <1>1, Heads DEF BudgetOK, memory, history, Waits, Uploading, FilesTyped
<1>6. KeptOK'
  BY <1>1, Heads DEF KeptOK, Removable, memory, history, Uploading, AcceptedUploadKept, PlaceOK, FilesTyped, Waiting
<1>7. ReportOK'
  BY <1>1 DEF ReportOK, memory, Closing, FilesTyped
<1> QED
  BY <1>2, <1>3, <1>4, <1>5, <1>6, <1>7

\* removePayload removes the metadata first.
LEMMA MetaRemoved ==
  ASSUME QueueInv, Write, Head(turn) = "unmeta"
  PROVE  QueueInv'
<1> USE DEF QueueInv
<1>1. /\ meta' = [meta EXCEPT ![subject] = "none"]
      /\ \/ turn = <<"unmeta", "unbin">> /\ turn' = <<"unbin">>
         \/ turn = <<"unmeta", "unbin", "settle">> /\ turn' = <<"unbin", "settle">>
      /\ subject' = subject /\ subject \in Jobs
      /\ UNCHANGED <<up, found, memory, status, attempts, bin, aged, history, crashes>>
  BY TurnAdvances, Effects
<1>2. PlaceOK' /\ SlotsOK'
  BY <1>1, FileWrites DEF Write
<1>3. FilesTyped'
  BY <1>1 DEF FilesTyped, Status, history, files
<1>4. UnusedOK'
  BY <1>1 DEF UnusedOK, memory, history, Waits, FilesTyped
<1>5. BudgetOK'
  BY <1>1, Heads DEF BudgetOK, memory, history, Waits, Uploading, FilesTyped
<1>6. KeptOK'
  BY <1>1, Heads DEF KeptOK, Removable, memory, history, Uploading, AcceptedUploadKept, PlaceOK, FilesTyped, Waiting
<1>7. ReportOK'
  BY <1>1 DEF ReportOK, memory, Closing, FilesTyped
<1> QED
  BY <1>2, <1>3, <1>4, <1>5, <1>6, <1>7

\* The payload goes last.
LEMMA BinRemoved ==
  ASSUME QueueInv, Write, Head(turn) = "unbin"
  PROVE  QueueInv'
<1> USE DEF QueueInv
<1>1. /\ bin' = bin \ {subject}
      /\ \/ turn = <<"unbin">> /\ turn' = <<>> /\ subject' = NoJob
         \/ turn = <<"unbin", "settle">> /\ turn' = <<"settle">> /\ subject' = subject
      /\ subject \in Jobs
      /\ UNCHANGED <<up, found, memory, status, meta, attempts, aged, history, crashes>>
  BY TurnAdvances, Effects
<1>2. PlaceOK' /\ SlotsOK'
  BY <1>1, FileWrites DEF Write
<1>3. FilesTyped'
  BY <1>1 DEF FilesTyped, Status, history, files
<1>4. UnusedOK'
  BY <1>1, QueueAssumption DEF UnusedOK, memory, history, Waits, FilesTyped
<1>5. BudgetOK'
  BY <1>1, Heads DEF BudgetOK, memory, history, Waits, Uploading, FilesTyped
<1>6. KeptOK'
  BY <1>1, Heads DEF KeptOK, Removable, memory, history, Uploading, AcceptedUploadKept, PlaceOK, FilesTyped, Waiting
<1>7. ReportOK'
  BY <1>1 DEF ReportOK, memory, Closing, FilesTyped
<1> QED
  BY <1>2, <1>3, <1>4, <1>5, <1>6, <1>7

\* A job that is pushed waits behind the others.
LEMMA Pushed ==
  ASSUME NEW i \in Jobs, pending \in Seq(Jobs), ~Waits(i), pending' = Append(pending, i),
         \A k, l \in 1..Len(pending) : pending[k] = pending[l] => k = l
  PROVE  /\ pending' \in Seq(Jobs)
         /\ (\A k, l \in 1..Len(pending) : pending[k] = pending[l] => k = l)'
         /\ \A j : Waits(j)' <=> Waits(j) \/ j = i
<1>1. /\ pending' \in Seq(Jobs) /\ Len(pending') = Len(pending) + 1 /\ Len(pending) \in Nat
      /\ pending'[Len(pending) + 1] = i
      /\ \A k \in 1..Len(pending) : pending'[k] = pending[k]
  OBVIOUS
<1>2. \A k \in 1..Len(pending') : k \in 1..Len(pending) \/ k = Len(pending) + 1
  BY <1>1
<1>3. \A j : Waits(j)' <=> Waits(j) \/ j = i
  BY <1>1, <1>2 DEF Waits
<1>4. (\A k, l \in 1..Len(pending) : pending[k] = pending[l] => k = l)'
  BY <1>1, <1>2 DEF Waits
<1> QED
  BY <1>1, <1>3, <1>4

\* A job that is taken out of the queue waits no more.
LEMMA Taken ==
  ASSUME pending \in Seq(Jobs), pending # <<>>, pending' = Tail(pending),
         \A k, l \in 1..Len(pending) : pending[k] = pending[l] => k = l
  PROVE  /\ pending' \in Seq(Jobs) /\ Head(pending) \in Jobs /\ Waits(Head(pending))
         /\ (\A k, l \in 1..Len(pending) : pending[k] = pending[l] => k = l)'
         /\ \A j : Waits(j)' <=> Waits(j) /\ j # Head(pending)
<1>1. /\ pending' \in Seq(Jobs) /\ Len(pending') = Len(pending) - 1 /\ Len(pending) \in Nat
      /\ Len(pending) > 0 /\ Head(pending) = pending[1] /\ Head(pending) \in Jobs
      /\ \A k \in 1..Len(pending') : pending'[k] = pending[k + 1]
  OBVIOUS
<1>2. \A k \in 1..Len(pending') : k + 1 \in 1..Len(pending) /\ k + 1 # 1
  BY <1>1
<1>3. \A k \in 1..Len(pending) : k = 1 \/ (k - 1 \in 1..Len(pending') /\ k = (k - 1) + 1)
  BY <1>1
<1>4. (\A k, l \in 1..Len(pending) : pending[k] = pending[l] => k = l)'
  BY <1>1, <1>2
<1>5. ASSUME NEW j PROVE Waits(j)' => Waits(j) /\ j # Head(pending)
  BY <1>1, <1>2 DEF Waits
<1>6. ASSUME NEW j, Waits(j), j # Head(pending) PROVE Waits(j)'
  BY <1>1, <1>3, <1>6 DEF Waits
<1>7. Waits(Head(pending))
  BY <1>1 DEF Waits
<1> QED
  BY <1>1, <1>4, <1>5, <1>6, <1>7

\* The upload is answered once both its files are written.
LEMMA PushWritten ==
  ASSUME QueueInv, Write, Head(turn) = "push"
  PROVE  QueueInv'
<1> USE DEF QueueInv
<1>1. /\ pending' = Append(pending, subject) /\ accepted' = accepted \cup {subject}
      /\ turn = <<"push">> /\ turn' = <<>> /\ subject' = NoJob
      /\ subject \in Jobs /\ up
      /\ UNCHANGED <<up, found, active, running, files, aged, starts, crashes>>
  BY TurnAdvances, Effects DEF EndStretch
<1>2. /\ pending' \in Seq(Jobs)
      /\ (\A k, l \in 1..Len(pending) : pending[k] = pending[l] => k = l)'
      /\ \A j : Waits(j)' <=> Waits(j) \/ j = subject
  BY <1>1, Pushed DEF PlaceOK
<1>3. turn \in Uploading /\ turn \notin Starting \cup Ending \cup Sweeping
  BY <1>1 DEF Uploading, Starting, Ending, Sweeping
<1>4. <<>> \notin Starting \cup Ending \cup Sweeping \cup Uploading
  BY Kinds
<1>5. PlaceOK'
  BY <1>1, <1>2, <1>3, <1>4, QueueAssumption DEF PlaceOK
<1>6. SlotsOK'
  BY <1>1, <1>3, <1>4 DEF SlotsOK
<1>7. FilesTyped'
  BY <1>1 DEF FilesTyped, files
<1>8. UnusedOK'
  BY <1>1, <1>2, QueueAssumption DEF UnusedOK, files
<1>9. BudgetOK'
  BY <1>1, <1>2, <1>3, <1>4, QueueAssumption DEF BudgetOK, Budget, files
<1>10. KeptOK'
  BY <1>1, <1>4 DEF KeptOK, Removable, AcceptedUploadKept, files
<1>11. ReportOK'
  BY <1>1 DEF ReportOK, Closing, files
<1> QED
  BY <1>5, <1>6, <1>7, <1>8, <1>9, <1>10, <1>11

\* The processor is called: the run of the turn becomes one that is awaited.
LEMMA StartWritten ==
  ASSUME QueueInv, Write, Head(turn) = "start"
  PROVE  QueueInv'
<1> USE DEF QueueInv
<1>1. /\ running' = running \cup {subject}
      /\ starts' = [starts EXCEPT ![subject] = starts[subject] + 1]
      /\ turn = <<"start">> /\ turn' = <<>> /\ subject' = NoJob
      /\ subject \in Jobs /\ up
      /\ UNCHANGED <<up, found, pending, active, files, aged, accepted, crashes>>
  BY TurnAdvances, Effects DEF EndStretch
<1>2. turn \in Starting /\ turn \notin Uploading \cup Sweeping
  BY <1>1 DEF Uploading, Starting, Ending, Sweeping
<1>3. <<>> \notin Starting \cup Ending \cup Sweeping \cup Uploading
  BY Kinds
<1>4. found = {}
  BY <1>1, <1>2 DEF PlaceOK
<1>5. PlaceOK'
  BY <1>1, <1>2, <1>3, <1>4, QueueAssumption DEF PlaceOK, Waits
<1>6. subject \notin running /\ IsFiniteSet(running)
  BY DEF PlaceOK, SlotsOK
<1>7. /\ IsFiniteSet(running') /\ Cardinality(running') = Cardinality(running) + 1
  BY <1>1, <1>6, FS_AddElement
<1>8. SlotsOK'
  BY <1>1, <1>2, <1>3, <1>7 DEF SlotsOK
<1>9. FilesTyped'
  BY <1>1 DEF FilesTyped, files
<1>10. UnusedOK'
  BY <1>1, QueueAssumption DEF UnusedOK, files, Waits
<1>11. BudgetOK'
  BY <1>1, <1>2, <1>3, QueueAssumption DEF BudgetOK, files, Waits
<1>12. KeptOK'
  BY <1>1, <1>3 DEF KeptOK, Removable, AcceptedUploadKept, files
<1>13. ReportOK'
  BY <1>1 DEF ReportOK, Closing, files
<1> QED
  BY <1>5, <1>8, <1>9, <1>10, <1>11, <1>12, <1>13

\* The run gives its slot back.
LEMMA SettleWritten ==
  ASSUME QueueInv, Write, Head(turn) = "settle"
  PROVE  QueueInv'
<1> USE DEF QueueInv
<1>1. /\ active' = active - 1
      /\ turn = <<"settle">> /\ turn' = <<>> /\ subject' = NoJob
      /\ subject \in Jobs /\ up
      /\ UNCHANGED <<up, found, pending, running, files, history, aged, crashes>>
  BY TurnAdvances, Effects DEF EndStretch
<1>2. turn \in Ending /\ turn \notin Uploading \cup Sweeping
  BY <1>1 DEF Uploading, Starting, Ending, Sweeping
<1>3. <<>> \notin Starting \cup Ending \cup Sweeping \cup Uploading
  BY Kinds
<1>4. found = {}
  BY <1>1, <1>2, Kinds DEF PlaceOK
<1>5. PlaceOK'
  BY <1>1, <1>2, <1>3, <1>4, QueueAssumption DEF PlaceOK, Waits
<1>6. Cardinality(running) \in Nat
  BY FS_CardinalityType DEF SlotsOK
<1>7. SlotsOK'
  BY <1>1, <1>2, <1>3, <1>6, QueueAssumption DEF SlotsOK
<1>8. FilesTyped'
  BY <1>1 DEF FilesTyped, files, history
<1>9. UnusedOK'
  BY <1>1, QueueAssumption DEF UnusedOK, files, Waits, history
<1>10. BudgetOK'
  BY <1>1, <1>2, <1>3, QueueAssumption DEF BudgetOK, files, Waits, history
<1>11. KeptOK'
  BY <1>1, <1>3 DEF KeptOK, Removable, AcceptedUploadKept, files, history
<1>12. ReportOK'
  BY <1>1 DEF ReportOK, Closing, files
<1> QED
  BY <1>5, <1>7, <1>8, <1>9, <1>10, <1>11, <1>12

\* Every write of a stretch keeps the invariant.
LEMMA WriteStep ==
  ASSUME QueueInv, Write
  PROVE  QueueInv'
<1>1. Head(turn) \in Operation
  BY TurnAdvances DEF QueueInv
<1> QED
  BY <1>1, QueuedWritten, BinWritten, MetaWritten, PushWritten, CountWritten,
     ProcessingWritten, StartWritten, DeadLetterWritten, CompletedWritten,
     RetryingWritten, MetaRemoved, BinRemoved, SettleWritten DEF Operation
-----------------------------------------------------------------------------
(* Events. *)

\* Nothing of an empty turn is of any kind.
LEMMA EmptyTurn ==
  <<>> \notin Uploading \cup Starting \cup Ending \cup Sweeping \cup Closing
  BY DEF Uploading, Starting, Ending, Sweeping, Closing

\* An upload starts with an id that has left no trace.
LEMMA UploadStep ==
  ASSUME QueueInv, NEW j \in Jobs, Upload(j)
  PROVE  QueueInv'
<1> USE DEF QueueInv
<1>1. /\ up /\ turn = <<>> /\ found = {} /\ subject = NoJob /\ status[j] = "none"
      /\ turn' = <<"queued", "bin", "meta", "push">> /\ subject' = j
      /\ UNCHANGED <<up, found, memory, files, aged, history, crashes>>
  BY DEF Upload, Quiet, Begin, PlaceOK
<1>2. /\ turn' \in Uploading /\ turn' \notin Starting \cup Ending \cup Sweeping
      /\ turn' # <<>> /\ Head(turn') = "queued"
  BY <1>1, Heads DEF Uploading, Starting, Ending, Sweeping
<1>3. attempts[j] = 0 /\ j \notin accepted \cup running /\ ~Waits(j)
  BY <1>1 DEF UnusedOK
<1>4. PlaceOK'
  BY <1>1, <1>2, <1>3, QueueAssumption DEF PlaceOK, memory, Waits
<1>5. SlotsOK'
  BY <1>1, <1>2, EmptyTurn DEF SlotsOK, memory
<1>6. FilesTyped'
  BY <1>1 DEF FilesTyped, files, history
<1>7. UnusedOK'
  BY <1>1 DEF UnusedOK, memory, files, history, Waits
<1>8. BudgetOK'
  BY <1>1, <1>2, <1>3 DEF BudgetOK, memory, files, history, Waits
<1>9. KeptOK'
  BY <1>1, <1>2, <1>3 DEF KeptOK, AcceptedUploadKept, memory, files, history
<1>10. ReportOK'
  BY <1>1, QueueAssumption DEF ReportOK, memory, files
<1> QED
  BY <1>4, <1>5, <1>6, <1>7, <1>8, <1>9, <1>10

\* A run starts with a job that waited, and takes a slot.
LEMMA DrainStep ==
  ASSUME QueueInv, Drain
  PROVE  QueueInv'
<1> USE DEF QueueInv
<1> DEFINE j == Head(pending)
<1>1. /\ up /\ turn = <<>> /\ found = {} /\ subject = NoJob
      /\ pending # <<>> /\ active < Concurrency
      /\ pending' = Tail(pending) /\ active' = active + 1
      /\ turn' = Run(j) /\ subject' = j
      /\ UNCHANGED <<up, found, running, files, aged, history, crashes>>
  BY DEF Drain, CanDrain, Begin, PlaceOK
<1>2. /\ pending' \in Seq(Jobs) /\ j \in Jobs /\ Waits(j)
      /\ (\A k, l \in 1..Len(pending) : pending[k] = pending[l] => k = l)'
      /\ \A i : Waits(i)' <=> Waits(i) /\ i # j
  BY <1>1, Taken DEF PlaceOK
<1>3. \/ turn' = <<"dead_letter", "unmeta", "unbin", "settle">>
      \/ /\ turn' = <<"count", "processing", "start">>
         /\ meta[j] = "ok" /\ j \in bin
      \/ turn' = <<"count", "dead_letter", "unmeta", "unbin", "settle">>
  BY <1>1 DEF Run
<1>4. /\ turn' \in Starting \cup Ending /\ turn' \notin Uploading \cup Sweeping
      /\ turn' # <<>> /\ Head(turn') \in {"dead_letter", "count"}
      /\ turn' \notin {<<"processing", "start">>, <<"start">>,
                       <<"meta", "retrying", "settle">>, <<"retrying", "settle">>}
  BY <1>3, Heads DEF Uploading, Starting, Ending, Sweeping
<1>5. status[j] # "none" /\ attempts[j] < Budget /\ j \notin running
  BY <1>2 DEF UnusedOK, BudgetOK, PlaceOK
<1>6. turn' # <<"queued", "bin", "meta", "push">>
  BY <1>4 DEF Uploading
<1>7. Cardinality(running) \in Nat
  BY FS_CardinalityType DEF SlotsOK
<1> HIDE DEF j
<1>8. PlaceOK'
  BY <1>1, <1>2, <1>4, <1>5, QueueAssumption DEF PlaceOK
<1>9. SlotsOK'
  BY <1>1, <1>4, <1>7, EmptyTurn, QueueAssumption DEF SlotsOK
<1>10. FilesTyped'
  BY <1>1 DEF FilesTyped, files, history
<1>11. UnusedOK'
  BY <1>1, <1>2, <1>5, <1>6 DEF UnusedOK, files, history
<1>12. BudgetOK'
  BY <1>1, <1>2, <1>4, <1>5 DEF BudgetOK, files, history
<1>13. KeptOK'
  BY <1>1, <1>2, <1>3, <1>4 DEF KeptOK, AcceptedUploadKept, files, history, Uploading
<1>14. ReportOK'
  BY <1>1, QueueAssumption DEF ReportOK, files
<1> QED
  BY <1>8, <1>9, <1>10, <1>11, <1>12, <1>13, <1>14

\* A run ends: its job is the subject of a turn that gives the slot back.
LEMMA EndStep ==
  ASSUME QueueInv, NEW j \in Jobs, Succeed(j) \/ Fail(j)
  PROVE  QueueInv'
<1> USE DEF QueueInv
<1>1. /\ up /\ turn = <<>> /\ found = {} /\ subject = NoJob /\ j \in running
      /\ running' = running \ {j} /\ subject' = j
      /\ turn' \in {<<"completed", "unmeta", "unbin", "settle">>,
                    <<"meta", "dead_letter", "unmeta", "unbin", "settle">>,
                    <<"meta", "retrying", "settle">>}
      /\ UNCHANGED <<up, found, pending, active, files, aged, history, crashes>>
  BY DEF Succeed, Fail, Finished, Quiet, Begin, PlaceOK
<1>2. /\ turn' \in Ending /\ turn' \notin Uploading \cup Starting \cup Sweeping
      /\ turn' # <<>> /\ Head(turn') \in {"completed", "meta"} /\ turn' \in Closing
      /\ turn' # <<"start">>
  BY <1>1, Heads DEF Uploading, Starting, Ending, Sweeping, Closing
<1>3. status[j] \in {"processing", "expired"} /\ ~Waits(j)
  BY <1>1 DEF KeptOK, PlaceOK
<1>4. turn' # <<"queued", "bin", "meta", "push">>
  BY <1>2 DEF Uploading
<1>5. turn' \notin {<<"count", "processing", "start">>, <<"processing", "start">>}
  BY <1>2 DEF Starting
<1>6. /\ IsFiniteSet(running') /\ Cardinality(running') = Cardinality(running) - 1
      /\ Cardinality(running) \in Nat
  BY <1>1, FS_RemoveElement, FS_CardinalityType DEF SlotsOK
<1>7. PlaceOK'
  BY <1>1, <1>2, <1>3, QueueAssumption DEF PlaceOK, Waits
<1>8. SlotsOK'
  BY <1>1, <1>2, <1>6, EmptyTurn, QueueAssumption DEF SlotsOK
<1>9. FilesTyped'
  BY <1>1 DEF FilesTyped, files, history
<1>10. UnusedOK'
  BY <1>1, <1>3, <1>4 DEF UnusedOK, files, history, Waits
<1>11. BudgetOK'
  BY <1>1, <1>2, <1>5 DEF BudgetOK, files, history, Waits, Starting
<1>12. KeptOK'
  BY <1>1, <1>2, <1>3, <1>5 DEF KeptOK, AcceptedUploadKept, files, history, Uploading
<1>13. ReportOK'
  BY <1>1, <1>2, QueueAssumption DEF ReportOK, files
<1> QED
  BY <1>7, <1>8, <1>9, <1>10, <1>11, <1>12, <1>13

\* Time passes, or the disk loses a file.
LEMMA DecayStep ==
  ASSUME QueueInv, NEW j \in Jobs, ExpireJob(j) \/ AgePayload(j) \/ LoseBin(j)
  PROVE  QueueInv'
<1> USE DEF QueueInv
<1>1. turn = <<>> /\ subject = NoJob
  BY DEF ExpireJob, AgePayload, LoseBin, Quiet, PlaceOK
<1>2. /\ turn \notin Uploading /\ turn \notin {<<"processing", "start">>, <<"start">>}
      /\ UNCHANGED <<up, turn, subject, found, memory, meta, attempts, history, crashes>>
  BY <1>1, EmptyTurn DEF ExpireJob, AgePayload, LoseBin, files
<1>3. \/ /\ status[j] # "none" /\ status' = [status EXCEPT ![j] = "expired"]
         /\ aged' = aged /\ bin' = bin
      \/ /\ status[j] = "expired" /\ aged' = aged \cup {j}
         /\ status' = status /\ bin' = bin
      \/ /\ j \in FaultyDisk /\ bin' = bin \ {j}
         /\ status' = status /\ aged' = aged
  BY DEF ExpireJob, AgePayload, LoseBin, files
<1>4. /\ turn \notin {<<"start">>, <<"meta", "retrying", "settle">>, <<"retrying", "settle">>,
                     <<"count", "processing", "start">>, <<"processing", "start">>,
                     <<"meta", "push">>, <<"push">>}
  BY <1>1, EmptyTurn DEF Uploading, Starting, Ending
<1>5. PlaceOK'
  BY <1>2 DEF PlaceOK, memory, Waits
<1>6. SlotsOK'
  BY <1>2 DEF SlotsOK, memory
<1>7. FilesTyped'
  BY <1>2, <1>3 DEF FilesTyped, Status, history
<1>8. UnusedOK'
  BY <1>1, <1>2, <1>3 DEF UnusedOK, memory, history, Waits, FilesTyped
<1>9. BudgetOK'
  BY <1>1, <1>2, <1>3 DEF BudgetOK, memory, history, Waits
<1>10. KeptOK'
  <2>1. AcceptedUploadKept'
    BY <1>2, <1>3 DEF KeptOK, AcceptedUploadKept, history, FilesTyped, Waiting
  <2>2. /\ (\A i \in aged : status[i] = "expired")'
        /\ (\A i \in running : status[i] \in {"processing", "expired"})'
    BY <1>2, <1>3 DEF KeptOK, FilesTyped, PlaceOK, memory
  <2> QED
    BY <1>1, <1>2, <1>4, <2>1, <2>2 DEF KeptOK
<1>11. ReportOK'
  BY <1>1, <1>2, <1>3 DEF ReportOK, memory, FilesTyped
<1> QED
  BY <1>5, <1>6, <1>7, <1>8, <1>9, <1>10, <1>11

\* A crash empties the memory; what the turn was about may be torn.
LEMMA CrashStep ==
  ASSUME QueueInv, Crash
  PROVE  QueueInv'
<1> USE DEF QueueInv
<1>1. /\ ~up' /\ turn' = <<>> /\ subject' = NoJob /\ found' = {}
      /\ pending' = <<>> /\ active' = 0 /\ running' = {}
      /\ UNCHANGED <<status, attempts, bin, aged, history>>
      /\ up' \in BOOLEAN
  BY DEF Crash, Begin
<1>2. \/ meta' = meta
      \/ /\ subject \in Jobs /\ meta' = [meta EXCEPT ![subject] = "torn"]
         /\ status[subject] # "none"
  <2>1. CASE /\ turn # <<>> /\ Head(turn) \in {"meta", "count"}
             /\ meta' = [meta EXCEPT ![subject] = "torn"]
    BY <2>1, Heads DEF PlaceOK, UnusedOK
  <2> QED
    BY <2>1 DEF Crash
<1>3. ~(\E k \in 1..Len(pending') : TRUE) /\ pending' \in Seq(Jobs)
  BY <1>1
<1>4. \A j : ~Waits(j)'
  BY <1>3 DEF Waits
<1>5. PlaceOK'
  BY <1>1, <1>3, <1>4, QueueAssumption, EmptyTurn DEF PlaceOK
<1>6. SlotsOK'
  BY <1>1, EmptyTurn, FS_EmptySet, QueueAssumption DEF SlotsOK
<1>7. FilesTyped'
  BY <1>1, <1>2 DEF FilesTyped, history
<1>8. UnusedOK'
  BY <1>1, <1>2, <1>4, QueueAssumption DEF UnusedOK, history, FilesTyped
<1>9. BudgetOK'
  BY <1>1, <1>4, EmptyTurn DEF BudgetOK, history
<1>10. KeptOK'
  BY <1>1, <1>2, EmptyTurn DEF KeptOK, AcceptedUploadKept, history, FilesTyped
<1>11. ReportOK'
  BY <1>1 DEF ReportOK
<1> QED
  BY <1>5, <1>6, <1>7, <1>8, <1>9, <1>10, <1>11

\* A start loads the store and finds files of jobs that nothing works on.
LEMMA BootStep ==
  ASSUME QueueInv, Boot
  PROVE  QueueInv'
<1> USE DEF QueueInv
<1>1. /\ ~up /\ up' /\ turn = <<>> /\ subject = NoJob /\ pending = <<>> /\ running = {}
      /\ status' = LoadJobs /\ found' = {j \in Jobs : meta[j] # "none" \/ j \in bin}
      /\ UNCHANGED <<turn, subject, memory, meta, attempts, bin, aged, history, crashes>>
      /\ up' \in BOOLEAN
  BY DEF Boot, PlaceOK
<1>2. \A j \in Jobs : /\ status'[j] = IF status[j] = "processing" THEN "failed" ELSE status[j]
                      /\ status[j] \in Status
  BY <1>1 DEF LoadJobs, FilesTyped
<1>3. \A j : ~Waits(j) /\ ~Waits(j)'
  BY <1>1 DEF Waits, memory
<1>4. PlaceOK'
  BY <1>1, <1>3, QueueAssumption DEF PlaceOK, memory
<1>5. SlotsOK'
  BY <1>1 DEF SlotsOK, memory
<1>6. FilesTyped'
  BY <1>1 DEF FilesTyped, history, LoadJobs, Status
<1>7. UnusedOK'
  BY <1>1, <1>2, <1>3, QueueAssumption DEF UnusedOK, memory, history
<1>8. BudgetOK'
  BY <1>1, <1>3, EmptyTurn DEF BudgetOK, history
<1>9. KeptOK'
  BY <1>1, <1>2, EmptyTurn DEF KeptOK, AcceptedUploadKept, memory, history, FilesTyped, Waiting
<1>10. ReportOK'
  BY <1>1, <1>2 DEF ReportOK
<1> QED
  BY <1>4, <1>5, <1>6, <1>7, <1>8, <1>9, <1>10

\* Files that the start may remove are those of no upload that is under way.
LEMMA CleanupStep ==
  ASSUME QueueInv, NEW j \in Jobs, CleanupStalePayload(j)
  PROVE  QueueInv'
<1> USE DEF QueueInv
<1>1. /\ up /\ turn = <<>> /\ subject = NoJob /\ j \in Stale /\ j \in found
      /\ found' = found \ {j} /\ turn' = <<"unmeta", "unbin">> /\ subject' = j
      /\ UNCHANGED <<up, memory, files, aged, history, crashes>>
  BY DEF CleanupStalePayload, Begin, RemovePayload, PlaceOK, Stale
<1>2. /\ turn' \in Sweeping /\ turn' \notin Uploading \cup Starting \cup Ending
      /\ turn' # <<>> /\ Head(turn') = "unmeta"
  BY <1>1, Heads DEF Uploading, Starting, Ending, Sweeping
<1>3. Removable(j) /\ ~Waits(j) /\ j \notin running /\ status[j] # "none" /\ running = {}
  BY <1>1 DEF Stale, KeptOK, AcceptedUploadKept, Removable, Waiting, PlaceOK, UnusedOK
<1>4. /\ turn' # <<"queued", "bin", "meta", "push">>
      /\ turn' \notin {<<"count", "processing", "start">>, <<"processing", "start">>,
                       <<"start">>, <<"meta", "retrying", "settle">>,
                       <<"retrying", "settle">>}
  BY <1>1, <1>2 DEF Uploading, Starting, Ending
<1>5. PlaceOK'
  BY <1>1, <1>2, <1>3, QueueAssumption DEF PlaceOK, memory, Waits
<1>6. SlotsOK'
  BY <1>1, <1>2, EmptyTurn DEF SlotsOK, memory
<1>7. FilesTyped'
  BY <1>1 DEF FilesTyped, files, history
<1>8. UnusedOK'
  BY <1>1, <1>3, <1>4 DEF UnusedOK, memory, files, history, Waits
<1>9. BudgetOK'
  BY <1>1, <1>2, <1>4 DEF BudgetOK, memory, files, history, Waits
<1>10. KeptOK'
  BY <1>1, <1>2, <1>3, <1>4 DEF KeptOK, AcceptedUploadKept, Removable, memory, files, history, Uploading
<1>11. ReportOK'
  BY <1>1, QueueAssumption DEF ReportOK, memory, files
<1> QED
  BY <1>5, <1>6, <1>7, <1>8, <1>9, <1>10, <1>11

\* A payload that is recovered has an attempt left, or is failed for good.
LEMMA RecoverStep ==
  ASSUME QueueInv, NEW j \in Jobs, RecoverPayload(j)
  PROVE  QueueInv'
<1> USE DEF QueueInv
<1>1. /\ up /\ turn = <<>> /\ subject = NoJob /\ j \in found /\ found' = found \ {j}
      /\ running = {} /\ ~Waits(j) /\ status[j] # "none"
      /\ UNCHANGED <<up, active, running, files, aged, history, crashes>>
  BY DEF RecoverPayload, PlaceOK, UnusedOK
<1>2. CASE j \in Hopeless
  <2>1. turn' = <<"dead_letter", "unmeta", "unbin">> /\ subject' = j /\ pending' = pending
    BY <1>2 DEF RecoverPayload, Begin, FailPermanently
  <2>2. /\ turn' \in Sweeping /\ turn' \notin Uploading \cup Starting \cup Ending
        /\ turn' # <<>> /\ Head(turn') = "dead_letter"
    BY <2>1, Heads DEF Uploading, Starting, Ending, Sweeping
  <2>3. /\ turn' # <<"queued", "bin", "meta", "push">>
        /\ turn' \notin {<<"count", "processing", "start">>, <<"processing", "start">>,
                         <<"start">>, <<"meta", "retrying", "settle">>,
                         <<"retrying", "settle">>}
    BY <2>2 DEF Uploading, Starting, Ending
  <2>4. PlaceOK'
    BY <1>1, <2>1, <2>2, QueueAssumption DEF PlaceOK, Waits
  <2>5. SlotsOK'
    BY <1>1, <2>1, <2>2, EmptyTurn DEF SlotsOK
  <2>6. FilesTyped'
    BY <1>1 DEF FilesTyped, files, history
  <2>7. UnusedOK'
    BY <1>1, <2>1, <2>3 DEF UnusedOK, files, history, Waits
  <2>8. BudgetOK'
    BY <1>1, <2>1, <2>2, <2>3 DEF BudgetOK, files, history, Waits
  <2>9. KeptOK'
    BY <1>1, <2>1, <2>2, <2>3 DEF KeptOK, AcceptedUploadKept, files, history, Uploading
  <2>10. ReportOK'
    BY <1>1, <2>1, QueueAssumption DEF ReportOK, files
  <2> QED
    BY <2>4, <2>5, <2>6, <2>7, <2>8, <2>9, <2>10
<1>3. CASE j \notin Hopeless
  <2>1. pending' = Append(pending, j) /\ turn' = turn /\ subject' = subject
    BY <1>3 DEF RecoverPayload
  <2>2. /\ pending' \in Seq(Jobs)
        /\ (\A k, l \in 1..Len(pending) : pending[k] = pending[l] => k = l)'
        /\ \A i : Waits(i)' <=> Waits(i) \/ i = j
    BY <1>1, <2>1, Pushed DEF PlaceOK
  <2>3. attempts[j] < Budget
    BY <1>1, <1>3, QueueAssumption DEF Hopeless, BudgetOK, Budget
  <2>4. PlaceOK'
    BY <1>1, <2>1, <2>2, QueueAssumption DEF PlaceOK
  <2>5. SlotsOK'
    BY <1>1, <2>1 DEF SlotsOK
  <2>6. FilesTyped'
    BY <1>1 DEF FilesTyped, files, history
  <2>7. UnusedOK'
    BY <1>1, <2>1, <2>2 DEF UnusedOK, files, history
  <2>8. BudgetOK'
    BY <1>1, <2>1, <2>2, <2>3 DEF BudgetOK, files, history
  <2>9. KeptOK'
    BY <1>1, <2>1, EmptyTurn DEF KeptOK, AcceptedUploadKept, Removable, files, history
  <2>10. ReportOK'
    BY <1>1, <2>1 DEF ReportOK, files
  <2> QED
    BY <2>4, <2>5, <2>6, <2>7, <2>8, <2>9, <2>10
<1> QED
  BY <1>2, <1>3

-----------------------------------------------------------------------------
(* Theorems. *)

\* The invariant holds in every state the queue reaches.
THEOREM QueueInvariant == Spec => []QueueInv
<1>1. Init => QueueInv
  <2>1. Init => \A j : ~Waits(j)
    BY DEF Init, Waits
  <2> QED
    BY <2>1, EmptyTurn, FS_EmptySet, QueueAssumption
       DEF Init, QueueInv, PlaceOK, SlotsOK, FilesTyped, UnusedOK, BudgetOK, KeptOK,
           AcceptedUploadKept, ReportOK, Status, Budget
<1>2. QueueInv /\ [Next]_vars => QueueInv'
  <2> SUFFICES ASSUME QueueInv, [Next]_vars PROVE QueueInv'
    OBVIOUS
  <2>1. CASE Write
    BY <2>1, WriteStep
  <2>2. CASE Drain
    BY <2>2, DrainStep
  <2>3. CASE Crash
    BY <2>3, CrashStep
  <2>4. CASE Boot
    BY <2>4, BootStep
  <2>5. ASSUME NEW j \in Jobs,
               \/ CleanupStalePayload(j) \/ RecoverPayload(j)
               \/ Upload(j) \/ Succeed(j) \/ Fail(j)
               \/ ExpireJob(j) \/ AgePayload(j) \/ LoseBin(j)
        PROVE  QueueInv'
    BY <2>5, CleanupStep, RecoverStep, UploadStep, EndStep, DecayStep
  <2>6. CASE UNCHANGED vars
    BY <2>6 DEF vars, QueueInv, PlaceOK, SlotsOK, FilesTyped, UnusedOK, BudgetOK, KeptOK,
                AcceptedUploadKept, Removable, ReportOK, Waits
  <2> QED
    BY <2>1, <2>2, <2>3, <2>4, <2>5, <2>6 DEF Next
<1> QED
  BY <1>1, <1>2, PTL DEF Spec

\* Every variable holds a value of its type; no more runs are awaited than the
\* queue has slots (InvoiceUploadQueue.active), whatever ends in which order.
THEOREM QueueTypes == Spec => []TypeOK
<1>1. QueueInv => TypeOK
  <2> SUFFICES ASSUME QueueInv PROVE TypeOK
    OBVIOUS
  <2> USE DEF QueueInv
  <2>1. turn \in Seq(Operation)
    <3>1. Uploading \cup Starting \cup Ending \cup Sweeping \subseteq Seq(Operation)
      BY DEF Uploading, Starting, Ending, Sweeping, Operation
    <3>2. <<>> \in Seq(Operation)
      OBVIOUS
    <3> QED
      BY <3>1, <3>2 DEF PlaceOK
  <2>2. active \in 0..Concurrency /\ Cardinality(running) <= active
    BY FS_CardinalityType, QueueAssumption DEF SlotsOK
  <2> QED
    BY <2>1, <2>2 DEF TypeOK, PlaceOK, FilesTyped, BudgetOK
<1> QED
  BY <1>1, QueueInvariant, PTL

\* The attempt that readMeta finds was written before the work began, so a file
\* is processed at most Budget times however often the process dies.
THEOREM FilesStartWithinBudget == Spec => []StartsWithinBudget
<1>1. QueueInv => StartsWithinBudget
  BY QueueAssumption DEF QueueInv, BudgetOK, StartsWithinBudget, Budget
<1> QED
  BY <1>1, QueueInvariant, PTL

\* No order of writes, crashes and retention periods loses the files of an
\* upload that was answered 202 and is still reported as under way.
THEOREM UploadsAreKept == Spec => []AcceptedUploadKept
<1>1. QueueInv => AcceptedUploadKept
  BY DEF QueueInv, KeptOK
<1> QED
  BY <1>1, QueueInvariant, PTL

\* Between two events, a job that is reported as processing is being processed
\* by this process.
THEOREM ProcessingIsTrue == Spec => []ProcessingIsRunning
<1>1. QueueInv => ProcessingIsRunning
  BY EmptyTurn DEF QueueInv, ReportOK, ProcessingIsRunning, Quiet
<1> QED
  BY <1>1, QueueInvariant, PTL

-----------------------------------------------------------------------------
(* Nothing accepted is forgotten: what QueuedIsTakenUp rests on. *)

\* Turns that are about to report a job as processing or as failed.
Reporting == {<<"dead_letter", "unmeta", "unbin", "settle">>, <<"dead_letter", "unmeta", "unbin">>,
              <<"count", "processing", "start">>, <<"processing", "start">>}

\* An accepted upload that is still queued waits, or is found by the start, or
\* is about to be reported otherwise.
InLine(j) == Waits(j) \/ j \in found \/ (subject = j /\ turn \in Reporting)
LineOK == up => \A j \in accepted \ FaultyDisk : status[j] = "queued" => InLine(j)

\* Between two events an accepted upload that is reported as queued really
\* waits, and does so only because every slot has a run that is at work: no slot
\* leaks and no waiting file is dropped, along any failure, crash and restart.
QueuedIsInLine ==
  Quiet => \A j \in accepted \ FaultyDisk : status[j] = "queued" =>
             Waits(j) /\ Cardinality(running) = Concurrency

\* What a write leaves of a turn that is about to report.
LEMMA ReportingTurns ==
  /\ \A t \in Reporting : Head(t) \in {"dead_letter", "processing"} \/ Tail(t) \in Reporting
  /\ \A t \in Reporting : Head(t) \notin {"push", "queued"}
  /\ <<>> \notin Reporting
  BY Heads, Tails DEF Reporting

\* A write takes a job out of line only by reporting something else of it.
LEMMA WriteInLine ==
  ASSUME QueueInv, LineOK, Write
  PROVE  LineOK'
<1>1. /\ up /\ turn # <<>> /\ subject \in Jobs /\ found' = found
      /\ turn' = Tail(turn)
      /\ subject' = IF Tail(turn) = <<>> THEN NoJob ELSE subject
  BY DEF Write, QueueInv, PlaceOK
<1>2. WriteStatus(Head(turn), subject) \/ WriteFile(Head(turn), subject)
        \/ EndStretch(Head(turn), subject)
  BY DEF Write
<1> SUFFICES ASSUME NEW j \in accepted' \ FaultyDisk, status'[j] = "queued"
             PROVE  InLine(j)'
  BY DEF LineOK
<1>3. j \in Jobs /\ status \in [Jobs -> Status] /\ pending \in Seq(Jobs)
  BY <1>1, <1>2 DEF QueueInv, FilesTyped, PlaceOK, WriteStatus, WriteFile, EndStretch, history
<1>4. CASE Head(turn) = "push"
  <2>1. pending' = Append(pending, subject) /\ accepted' = accepted \cup {subject}
        /\ status' = status
    BY <1>2, <1>4 DEF WriteStatus, WriteFile, EndStretch, files
  <2>2. \A i : Waits(i)' <=> Waits(i) \/ i = subject
    BY <1>1, <1>3, <2>1, Pushed DEF QueueInv, PlaceOK, BudgetOK, UnusedOK
  <2>3. j = subject \/ InLine(j)
    BY <1>1, <2>1 DEF LineOK
  <2>4. turn \notin Reporting
    BY <1>4, ReportingTurns
  <2> QED
    BY <1>1, <2>2, <2>3, <2>4 DEF InLine
<1>5. CASE Head(turn) # "push"
  <2>1. pending' = pending /\ accepted' = accepted
    BY <1>2, <1>5 DEF WriteStatus, WriteFile, EndStretch, memory, history
  <2>2. \A i : Waits(i)' <=> Waits(i)
    BY <2>1 DEF Waits
  <2>3. j # subject => status[j] = "queued"
    BY <1>2, <1>3 DEF WriteStatus, WriteFile, EndStretch, files
  <2>4. CASE Head(turn) = "queued"
    <3>1. turn \in Uploading
      BY <1>1, <2>4, Heads DEF QueueInv, PlaceOK, Starting, Ending, Sweeping
    <3>2. j # subject
      BY <2>1, <3>1 DEF QueueInv, KeptOK
    <3> QED
      BY <1>1, <2>1, <2>2, <2>3, <3>2 DEF LineOK, InLine
  <2>5. CASE Head(turn) # "queued"
    <3>1. status[j] = "queued"
      BY <1>2, <1>3, <2>3, <2>5 DEF WriteStatus, WriteFile, EndStretch, files
    <3>2. InLine(j)
      BY <1>1, <2>1, <3>1 DEF LineOK
    <3>3. CASE subject = j /\ turn \in Reporting
      <4>1. Head(turn) \notin {"dead_letter", "processing"}
        BY <1>2, <1>3, <3>1, <3>3 DEF WriteStatus, WriteFile, EndStretch
      <4>2. turn' \in Reporting /\ turn' # <<>>
        BY <1>1, <3>3, <4>1, ReportingTurns
      <4> QED
        BY <1>1, <3>3, <4>2 DEF InLine
    <3>4. CASE ~(subject = j /\ turn \in Reporting)
      BY <1>1, <2>2, <3>2, <3>4 DEF InLine
    <3> QED
      BY <3>3, <3>4
  <2> QED
    BY <2>4, <2>5
<1> QED
  BY <1>4, <1>5

\* A run that starts, and a start that goes through the files, keep the line.
LEMMA TakenInLine ==
  ASSUME QueueInv, LineOK,
         Drain \/ \E j \in Jobs : CleanupStalePayload(j) \/ RecoverPayload(j)
  PROVE  LineOK'
<1> SUFFICES ASSUME NEW i \in accepted' \ FaultyDisk, status'[i] = "queued"
             PROVE  InLine(i)'
  BY DEF LineOK
<1>1. /\ up /\ turn = <<>> /\ UNCHANGED <<files, history>> /\ i \in Jobs
      /\ i \in accepted \ FaultyDisk /\ status[i] = "queued"
  BY DEF Drain, CleanupStalePayload, RecoverPayload, QueueInv, FilesTyped, files, history
<1>2. meta[i] # "none" /\ i \in bin /\ i \notin aged
  BY <1>1 DEF QueueInv, KeptOK, AcceptedUploadKept, Waiting
<1>3. Waits(i) \/ i \in found
  BY <1>1, ReportingTurns DEF LineOK, InLine
<1>4. CASE Drain
  <2> DEFINE j == Head(pending)
  <2>1. /\ pending # <<>> /\ pending' = Tail(pending) /\ found' = found
        /\ turn' = Run(j) /\ subject' = j
    BY <1>4 DEF Drain, CanDrain, Begin
  <2>2. \A k : Waits(k)' <=> Waits(k) /\ k # j
    BY <2>1, Taken DEF QueueInv, PlaceOK
  <2>3. i = j => turn' \in Reporting
    BY <1>2, <2>1 DEF Run, Reporting
  <2> HIDE DEF j
  <2> QED
    BY <1>3, <2>1, <2>2, <2>3 DEF InLine
<1>5. ASSUME NEW j \in Jobs, CleanupStalePayload(j)
      PROVE  InLine(i)'
  <2>1. i # j
    BY <1>2, <1>5 DEF CleanupStalePayload, Stale
  <2> QED
    BY <1>3, <1>5, <2>1 DEF CleanupStalePayload, InLine, memory, Waits
<1>6. ASSUME NEW j \in Jobs, RecoverPayload(j)
      PROVE  InLine(i)'
  <2>1. found' = found \ {j}
    BY <1>6 DEF RecoverPayload
  <2>2. CASE j \in Hopeless
    <3>1. /\ turn' = <<"dead_letter", "unmeta", "unbin">> /\ subject' = j
          /\ pending' = pending
      BY <1>6, <2>2 DEF RecoverPayload, Begin, FailPermanently
    <3> QED
      BY <1>3, <2>1, <3>1 DEF InLine, Waits, Reporting
  <2>3. CASE j \notin Hopeless
    <3>1. pending' = Append(pending, j)
      BY <1>6, <2>3 DEF RecoverPayload
    <3>2. ~Waits(j)
      BY <1>6 DEF RecoverPayload, QueueInv, PlaceOK
    <3>3. \A k : Waits(k)' <=> Waits(k) \/ k = j
      BY <3>1, <3>2, Pushed DEF QueueInv, PlaceOK
    <3> QED
      BY <1>3, <2>1, <3>3 DEF InLine
  <2> QED
    BY <2>2, <2>3
<1> QED
  BY <1>4, <1>5, <1>6

\* Events that begin a stretch, or that happen outside the process.
LEMMA EventInLine ==
  ASSUME QueueInv, LineOK, NEW j \in Jobs,
         Upload(j) \/ Succeed(j) \/ Fail(j) \/ ExpireJob(j) \/ AgePayload(j) \/ LoseBin(j)
  PROVE  LineOK'
<1> SUFFICES ASSUME up', NEW i \in accepted' \ FaultyDisk, status'[i] = "queued"
             PROVE  InLine(i)'
  BY DEF LineOK
<1>1. turn = <<>> /\ UNCHANGED <<up, pending, found, accepted>>
  BY DEF Upload, Succeed, Fail, ExpireJob, AgePayload, LoseBin, Quiet, memory, history,
     QueueInv, PlaceOK
<1>2. status[i] = "queued"
  <2>1. status' = status \/ status' = [status EXCEPT ![j] = "expired"]
    BY DEF Upload, Succeed, Fail, ExpireJob, AgePayload, LoseBin, files
  <2>2. i \in Jobs /\ status \in [Jobs -> Status]
    BY <1>1 DEF QueueInv, FilesTyped
  <2> QED
    BY <2>1, <2>2
<1>3. Waits(i) \/ i \in found
  BY <1>1, <1>2, ReportingTurns DEF LineOK, InLine
<1> QED
  BY <1>1, <1>3 DEF InLine, Waits

\* A start of the process finds every upload that is queued.
LEMMA BootInLine ==
  ASSUME QueueInv, LineOK, Boot
  PROVE  LineOK'
<1> SUFFICES ASSUME NEW i \in accepted' \ FaultyDisk, status'[i] = "queued"
             PROVE  i \in found'
  BY DEF LineOK, InLine
<1>1. i \in accepted \ FaultyDisk /\ i \in Jobs /\ status[i] = "queued"
  BY DEF Boot, LoadJobs, QueueInv, FilesTyped, history
<1>2. i \in bin
  BY <1>1 DEF QueueInv, KeptOK, AcceptedUploadKept, Waiting
<1> QED
  BY <1>1, <1>2 DEF Boot

\* A queued upload waits only behind runs that are at work (INVOICE_WORKER_CONCURRENCY
\* of them): the drain loop of InvoiceUploadQueue is never short of a call.
THEOREM QueueNeverStalls == Spec => []QueuedIsInLine
<1>1. Init => LineOK
  BY DEF Init, LineOK
<1>2. ASSUME QueueInv, LineOK, [Next]_vars
      PROVE  LineOK'
  <2>1. CASE Write
    BY <1>2, <2>1, WriteInLine
  <2>2. CASE Drain \/ \E j \in Jobs : CleanupStalePayload(j) \/ RecoverPayload(j)
    BY <1>2, <2>2, TakenInLine
  <2>3. ASSUME NEW j \in Jobs,
               Upload(j) \/ Succeed(j) \/ Fail(j) \/ ExpireJob(j) \/ AgePayload(j) \/ LoseBin(j)
        PROVE  LineOK'
    BY <1>2, <2>3, EventInLine
  <2>4. CASE Boot
    BY <1>2, <2>4, BootInLine
  <2>5. CASE Crash
    BY <2>5 DEF Crash, LineOK
  <2>6. CASE UNCHANGED vars
    BY <1>2, <2>6 DEF vars, LineOK, InLine, Waits
  <2> QED
    BY <1>2, <2>1, <2>2, <2>3, <2>4, <2>5, <2>6 DEF Next
<1>3. QueueInv /\ LineOK => QueuedIsInLine
  <2> SUFFICES ASSUME QueueInv, LineOK, Quiet, NEW j \in accepted \ FaultyDisk,
                      status[j] = "queued"
               PROVE  Waits(j) /\ Cardinality(running) = Concurrency
    BY DEF QueuedIsInLine
  <2>1. Waits(j)
    BY ReportingTurns DEF Quiet, LineOK, InLine
  <2>2. pending # <<>>
    BY <2>1 DEF Waits
  <2>3. ~(active < Concurrency) /\ turn = <<>>
    BY <2>2 DEF Quiet, CanDrain
  <2> QED
    BY <2>1, <2>3, EmptyTurn, FS_CardinalityType, QueueAssumption DEF QueueInv, SlotsOK
<1> QED
  BY <1>1, <1>2, <1>3, QueueInvariant, PTL DEF Spec
=============================================================================
