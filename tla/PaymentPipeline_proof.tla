----------------------- MODULE PaymentPipeline_proof -----------------------
(* Theorems about PaymentPipeline, for every number of invoices, payments,     *)
(* batches and users and every amount and threshold: the rows by themselves,   *)
(* and then PaymentPipeline as an implementation of BatchControl with what     *)
(* follows from it for the batches (the CFO gate, released batches that do not *)
(* change, evidence for payments under review, cancelled batches kept empty).  *)
EXTENDS PaymentPipeline, FiniteSetTheorems, WellFoundedInduction, TLAPS

-----------------------------------------------------------------------------
(* Sums over finite sets: what Subtotal and ChargeTotal compute, by a smallest *)
(* counterexample in place of an induction on the set.                         *)

\* The element SumFunctionOnSet takes first, and what its recursion computes.
Pick(s) == CHOOSE x \in s : TRUE
Sums(f, S, g) ==
    g = [s \in SUBSET S |-> IF s = {} THEN 0 ELSE f[Pick(s)] + g[s \ {Pick(s)}]]

\* SumFunctionOnSet of the community modules, with its recursion named.
LEMMA SumIsChosen ==
  ASSUME NEW f, NEW S
  PROVE  SumFunctionOnSet(f, S) = (CHOOSE g : Sums(f, S, g))[S]
BY DEF SumFunctionOnSet, FoldFunctionOnSet, MapThenFoldSet, Sums, Pick

\* A non-empty family of subsets of a finite set has a smallest member: the
\* form in which the lemmas below use induction.
LEMMA Smallest ==
  ASSUME NEW S, IsFiniteSet(S), NEW Bad, Bad \subseteq SUBSET S, Bad # {}
  PROVE  \E T \in Bad : \A U \in Bad : ~(U \subseteq T /\ U # T)
<1> DEFINE R == StrictSubsetOrdering(S)
<1>1. IsWellFoundedOn(R, SUBSET S)
  BY FS_StrictSubsetOrderingWellFounded, FS_FiniteSubsetsOfFinite
<1> HIDE DEF R
<1>2. PICK T \in Bad : \A U \in Bad : ~(<<U, T>> \in R)
  BY <1>1, WFMin, Zenon
<1>3. ASSUME NEW U \in Bad, U \subseteq T, U # T PROVE <<U, T>> \in R
  <2>1. <<U, T>> \in (SUBSET S) \X (SUBSET S)
    OBVIOUS
  <2> QED
    BY <1>3, <2>1 DEF R, StrictSubsetOrdering
<1>4. \A U \in Bad : ~(U \subseteq T /\ U # T)
  BY <1>2, <1>3
<1> QED
  BY <1>4

\* The element taken first is one of the set.
LEMMA PickIn == ASSUME NEW s, s # {} PROVE Pick(s) \in s
BY DEF Pick

\* The recursion applied to one set.
LEMMA SumsApplied ==
  ASSUME NEW f, NEW S, NEW g, Sums(f, S, g), NEW s \in SUBSET S
  PROVE  /\ s = {} => g[s] = 0
         /\ s # {} => g[s] = f[Pick(s)] + g[s \ {Pick(s)}]
<1>1. g[s] = IF s = {} THEN 0 ELSE f[Pick(s)] + g[s \ {Pick(s)}]
  BY Zenon DEF Sums
<1> QED
  BY <1>1

\* Two solutions of the recursion agree on every finite set both cover.
LEMMA SumsAgree ==
  ASSUME NEW f, NEW A, NEW B, NEW g, NEW h, Sums(f, A, g), Sums(f, B, h),
         NEW s, IsFiniteSet(s), s \subseteq A, s \subseteq B
  PROVE  g[s] = h[s]
<1> DEFINE Bad == {t \in SUBSET s : g[t] # h[t]}
<1>1. ASSUME NEW t \in SUBSET s
      PROVE  /\ t = {} => g[t] = 0 /\ h[t] = 0
             /\ t # {} => /\ g[t] = f[Pick(t)] + g[t \ {Pick(t)}]
                         /\ h[t] = f[Pick(t)] + h[t \ {Pick(t)}]
  <2>1. \A u \in SUBSET A : /\ u = {} => g[u] = 0
                            /\ u # {} => g[u] = f[Pick(u)] + g[u \ {Pick(u)}]
    BY SumsApplied
  <2>2. \A u \in SUBSET B : /\ u = {} => h[u] = 0
                            /\ u # {} => h[u] = f[Pick(u)] + h[u \ {Pick(u)}]
    BY SumsApplied
  <2>3. t \in SUBSET A /\ t \in SUBSET B
    OBVIOUS
  <2> QED
    BY <2>1, <2>2, <2>3, Zenon
<1>2. SUFFICES ASSUME Bad # {} PROVE FALSE
  OBVIOUS
<1>3. PICK t \in Bad : \A u \in Bad : ~(u \subseteq t /\ u # t)
  <2> HIDE DEF Bad
  <2>1. Bad \subseteq SUBSET s
    BY DEF Bad
  <2> QED
    BY <1>2, <2>1, Smallest
<1>4. t # {}
  BY <1>1
<1>5. Pick(t) \in t
  BY <1>4, PickIn
<1>6. g[t \ {Pick(t)}] = h[t \ {Pick(t)}]
  BY <1>3, <1>5
<1> QED
  BY <1>1, <1>4, <1>6

\* The recursion has a solution over every finite set.
LEMMA SumsExist ==
  ASSUME NEW f, NEW S, IsFiniteSet(S)
  PROVE  \E g : Sums(f, S, g)
<1> DEFINE Bad == {t \in SUBSET S : ~ \E g : Sums(f, t, g)}
<1>1. SUFFICES ASSUME Bad # {} PROVE FALSE
  OBVIOUS
<1>2. PICK T \in Bad : \A u \in Bad : ~(u \subseteq T /\ u # T)
  <2> HIDE DEF Bad
  <2>1. Bad \subseteq SUBSET S
    BY DEF Bad
  <2> QED
    BY <1>1, <2>1, Smallest
<1>3. ASSUME NEW t \in SUBSET T, t # T PROVE \E g : Sums(f, t, g)
  BY <1>2, <1>3
<1> DEFINE Of(t) == CHOOSE g : Sums(f, t, g)
           h == [s \in SUBSET T |->
                   IF s = {} THEN 0 ELSE f[Pick(s)] + Of(s \ {Pick(s)})[s \ {Pick(s)}]]
<1>4. ASSUME NEW t \in SUBSET T, t # T PROVE Sums(f, t, Of(t))
  BY <1>3, <1>4, Zenon
<1>5. ASSUME NEW t \in SUBSET T, t # T PROVE h[t] = Of(t)[t]
  <2>1. CASE t = {}
    <3>1. Of(t)[{}] = 0
      <4> HIDE DEF Of
      <4> QED
        BY <1>4, <1>5, <2>1, SumsApplied
    <3> QED
      BY <2>1, <3>1
  <2>2. CASE t # {}
    <3> DEFINE u == t \ {Pick(t)}
    <3>1. Pick(t) \in t
      BY <2>2, PickIn
    <3>2. u \in SUBSET T /\ u # T /\ u \subseteq t
      BY <3>1
    <3>3. Of(t)[t] = f[Pick(t)] + Of(t)[u]
      <4> HIDE DEF Of
      <4> QED
        BY <1>4, <1>5, <2>2, SumsApplied
    <3>4. IsFiniteSet(u)
      BY FS_Subset
    <3>5. Of(t)[u] = Of(u)[u]
      <4>1. Sums(f, t, Of(t)) /\ Sums(f, u, Of(u))
        BY <1>4, <1>5, <3>2
      <4> HIDE DEF Of, u
      <4> QED
        BY <4>1, <3>2, <3>4, SumsAgree
    <3> QED
      BY <2>2, <3>3, <3>5
  <2> QED
    BY <2>1, <2>2
<1>6. Sums(f, T, h)
  <2>1. ASSUME NEW s \in SUBSET T, s # {}
        PROVE  h[s \ {Pick(s)}] = Of(s \ {Pick(s)})[s \ {Pick(s)}]
    <3>1. Pick(s) \in s
      BY <2>1, PickIn
    <3>2. s \ {Pick(s)} \in SUBSET T /\ s \ {Pick(s)} # T
      BY <3>1
    <3> HIDE DEF h, Of
    <3> QED
      BY <1>5, <3>2
  <2>2. ASSUME NEW s \in SUBSET T
        PROVE  h[s] = IF s = {} THEN 0 ELSE f[Pick(s)] + h[s \ {Pick(s)}]
    <3>1. CASE s = {}
      BY <3>1
    <3>2. CASE s # {}
      <4>1. h[s] = f[Pick(s)] + Of(s \ {Pick(s)})[s \ {Pick(s)}]
        BY <3>2
      <4> HIDE DEF h, Of
      <4> QED
        BY <2>1, <3>2, <4>1
    <3> QED
      BY <3>1, <3>2
  <2>3. h = [s \in SUBSET T |-> IF s = {} THEN 0 ELSE f[Pick(s)] + h[s \ {Pick(s)}]]
    <3> HIDE DEF Of
    <3>1. h = [s \in SUBSET T |-> h[s]]
      BY Zenon
    <3> HIDE DEF h
    <3> QED
      BY <2>2, <3>1, Zenon
  <2> HIDE DEF h
  <2> QED
    BY <2>3 DEF Sums
<1>7. \E g : Sums(f, T, g)
  <2> HIDE DEF h
  <2> QED
    BY <1>6
<1> QED
  BY <1>7

\* The sum over no element is 0.
LEMMA SumOfNone == ASSUME NEW f PROVE SumFunctionOnSet(f, {}) = 0
<1>1. PICK h : Sums(f, {}, h)
  BY SumsExist, FS_EmptySet
<1>2. Sums(f, {}, CHOOSE g : Sums(f, {}, g))
  BY <1>1, Zenon
<1> QED
  BY <1>2, SumIsChosen DEF Sums

\* The sum over a set is its first element and the sum over the others.
LEMMA SumUnfolds ==
  ASSUME NEW f, NEW S, IsFiniteSet(S), S # {}
  PROVE  /\ Pick(S) \in S
         /\ SumFunctionOnSet(f, S) = f[Pick(S)] + SumFunctionOnSet(f, S \ {Pick(S)})
<1> DEFINE U == S \ {Pick(S)}
           G(t) == CHOOSE g : Sums(f, t, g)
<1>1. IsFiniteSet(U)
  BY FS_Subset
<1>2. Sums(f, S, G(S)) /\ Sums(f, U, G(U))
  <2>1. (\E g : Sums(f, S, g)) /\ (\E g : Sums(f, U, g))
    BY <1>1, SumsExist
  <2> QED
    BY <2>1, Zenon
<1>3. G(S)[S] = f[Pick(S)] + G(S)[U]
  BY <1>2 DEF Sums
<1>4. G(S)[U] = G(U)[U]
  <2> HIDE DEF G
  <2> QED
    BY <1>1, <1>2, SumsAgree
<1>5. SumFunctionOnSet(f, S) = G(S)[S] /\ SumFunctionOnSet(f, U) = G(U)[U]
  BY SumIsChosen, Zenon
<1> QED
  BY <1>3, <1>4, <1>5, PickIn

\* A sum of natural numbers is one.
LEMMA SumIsNat ==
  ASSUME NEW f, NEW S, IsFiniteSet(S), \A x \in S : f[x] \in Nat
  PROVE  SumFunctionOnSet(f, S) \in Nat
<1> DEFINE Bad == {t \in SUBSET S : SumFunctionOnSet(f, t) \notin Nat}
<1>1. SUFFICES ASSUME Bad # {} PROVE FALSE
  BY Zenon
<1>2. PICK t \in Bad : \A u \in Bad : ~(u \subseteq t /\ u # t)
  <2> HIDE DEF Bad
  <2>1. Bad \subseteq SUBSET S
    BY DEF Bad
  <2> QED
    BY <1>1, <2>1, Smallest
<1>3. t # {} /\ IsFiniteSet(t)
  <2>1. t \in SUBSET S /\ SumFunctionOnSet(f, t) \notin Nat
    OBVIOUS
  <2>2. SumFunctionOnSet(f, {}) \in Nat
    BY SumOfNone
  <2> QED
    BY <2>1, <2>2, FS_Subset
<1>4. /\ Pick(t) \in t
      /\ SumFunctionOnSet(f, t) = f[Pick(t)] + SumFunctionOnSet(f, t \ {Pick(t)})
  BY <1>3, SumUnfolds
<1>5. SumFunctionOnSet(f, t \ {Pick(t)}) \in Nat
  BY <1>2, <1>4
<1> QED
  BY <1>4, <1>5

\* Any element may be taken out of a sum of natural numbers, not only the
\* one the recursion takes first.
LEMMA SumSplits ==
  ASSUME NEW f, NEW S, IsFiniteSet(S), \A x \in S : f[x] \in Nat, NEW x \in S
  PROVE  SumFunctionOnSet(f, S) = f[x] + SumFunctionOnSet(f, S \ {x})
<1> DEFINE Bad == {t \in SUBSET S :
                     \E y \in t : SumFunctionOnSet(f, t) # f[y] + SumFunctionOnSet(f, t \ {y})}
<1>1. SUFFICES ASSUME Bad # {} PROVE FALSE
  <2>1. S \in SUBSET S
    OBVIOUS
  <2> QED
    BY <2>1, Zenon
<1>2. PICK t \in Bad : \A u \in Bad : ~(u \subseteq t /\ u # t)
  <2> HIDE DEF Bad
  <2>1. Bad \subseteq SUBSET S
    BY DEF Bad
  <2> QED
    BY <1>1, <2>1, Smallest
<1>3. PICK y \in t : SumFunctionOnSet(f, t) # f[y] + SumFunctionOnSet(f, t \ {y})
  OBVIOUS
<1>4. \A u \in SUBSET S : IsFiniteSet(u) /\ SumFunctionOnSet(f, u) \in Nat
  BY FS_Subset, SumIsNat
<1> DEFINE z == Pick(t)
<1>5. z \in t /\ SumFunctionOnSet(f, t) = f[z] + SumFunctionOnSet(f, t \ {z})
  BY <1>3, <1>4, SumUnfolds
<1>6. z # y
  BY <1>3, <1>5
<1> HIDE DEF z
<1>7. \A u \in SUBSET S : u \subseteq t /\ u # t =>
         \A v \in u : SumFunctionOnSet(f, u) = f[v] + SumFunctionOnSet(f, u \ {v})
  BY <1>2
<1>8. SumFunctionOnSet(f, t \ {z}) = f[y] + SumFunctionOnSet(f, (t \ {z}) \ {y})
  BY <1>5, <1>6, <1>7
<1>9. SumFunctionOnSet(f, t \ {y}) = f[z] + SumFunctionOnSet(f, (t \ {y}) \ {z})
  BY <1>5, <1>6, <1>7
<1>10. (t \ {z}) \ {y} = (t \ {y}) \ {z}
  OBVIOUS
<1>11. f[z] \in Nat /\ f[y] \in Nat /\ SumFunctionOnSet(f, (t \ {y}) \ {z}) \in Nat
  BY <1>4, <1>5
<1> QED
  BY <1>3, <1>5, <1>8, <1>9, <1>10, <1>11

\* A sum of natural numbers over part of a set is at most that over all of it.
LEMMA SumGrows ==
  ASSUME NEW f, NEW S, IsFiniteSet(S), \A x \in S : f[x] \in Nat, NEW T \in SUBSET S
  PROVE  SumFunctionOnSet(f, T) <= SumFunctionOnSet(f, S)
<1> DEFINE Bad == {u \in SUBSET S :
                     T \subseteq u /\ ~(SumFunctionOnSet(f, T) <= SumFunctionOnSet(f, u))}
<1>1. SUFFICES ASSUME Bad # {} PROVE FALSE
  <2>1. S \in SUBSET S
    OBVIOUS
  <2> QED
    BY <2>1, Zenon
<1>2. PICK u \in Bad : \A v \in Bad : ~(v \subseteq u /\ v # u)
  <2> HIDE DEF Bad
  <2>1. Bad \subseteq SUBSET S
    BY DEF Bad
  <2> QED
    BY <1>1, <2>1, Smallest
<1>3. \A v \in SUBSET S : IsFiniteSet(v) /\ SumFunctionOnSet(f, v) \in Nat
  BY FS_Subset, SumIsNat
<1>4. u # T
  BY <1>3
<1>5. PICK x \in u : x \notin T
  BY <1>4
<1>6. SumFunctionOnSet(f, u) = f[x] + SumFunctionOnSet(f, u \ {x})
  BY <1>3, <1>5, SumSplits
<1>7. SumFunctionOnSet(f, T) <= SumFunctionOnSet(f, u \ {x})
  BY <1>2, <1>5
<1> QED
  BY <1>3, <1>6, <1>7

\* The sum depends on the values at the elements of the set only.
LEMMA SumOfEqual ==
  ASSUME NEW f, NEW g, NEW S, IsFiniteSet(S), \A x \in S : f[x] = g[x]
  PROVE  SumFunctionOnSet(f, S) = SumFunctionOnSet(g, S)
<1> DEFINE Bad == {t \in SUBSET S : SumFunctionOnSet(f, t) # SumFunctionOnSet(g, t)}
<1>1. SUFFICES ASSUME Bad # {} PROVE FALSE
  <2>1. S \in SUBSET S
    OBVIOUS
  <2> QED
    BY <2>1, Zenon
<1>2. PICK t \in Bad : \A u \in Bad : ~(u \subseteq t /\ u # t)
  <2> HIDE DEF Bad
  <2>1. Bad \subseteq SUBSET S
    BY DEF Bad
  <2> QED
    BY <1>1, <2>1, Smallest
<1>3. t # {} /\ IsFiniteSet(t)
  BY SumOfNone, FS_Subset
<1>4. /\ Pick(t) \in t
      /\ SumFunctionOnSet(f, t) = f[Pick(t)] + SumFunctionOnSet(f, t \ {Pick(t)})
      /\ SumFunctionOnSet(g, t) = g[Pick(t)] + SumFunctionOnSet(g, t \ {Pick(t)})
  BY <1>3, SumUnfolds
<1>5. SumFunctionOnSet(f, t \ {Pick(t)}) = SumFunctionOnSet(g, t \ {Pick(t)})
  BY <1>2, <1>4
<1> QED
  BY <1>4, <1>5

-----------------------------------------------------------------------------
(* Types. *)

\* The initial rows have their types.
LEMMA InitType == Init => StateOK
  BY RevisionAssumption
  DEF Init, StateOK, Revisions, InvoiceStatus, PaymentStatus, Decision,
      BatchStatus, OpenBatch, ReleasedBatch

\* Invoice operations keep every column in its type.
LEMMA InvoiceStepType == StateOK /\ InvoiceStep => StateOK'
<1> SUFFICES ASSUME StateOK, NEW i \in Invoices,
                    \/ ApproveLast(i)
                    \/ RejectFromAccounting(i)
                    \/ \E p \in Payments : SchedulePayment(i, p)
                    \/ \E p \in Payments : PostInvoice(i, p)
                    \/ PostInvoiceUnscheduled(i)
                    \/ PostInvoiceBlocked(i)
                    \/ ReleaseFromHold(i)
                    \/ HoldInvoiceForBatchThreshold(i)
                    \/ UpdateInvoice(i)
                    \/ \E s \in PatchedStatuses : UpdateInvoiceStatus(i, s)
                    \/ ReprocessInvoice(i)
                    \/ CancelInvoice(i)
             PROVE  StateOK'
  BY DEF InvoiceStep
<1> USE DEF StateOK, payVars, batchVars
<1>1. CASE ApproveLast(i)
  BY <1>1 DEF ApproveLast, InvoiceStatus
<1>2. CASE RejectFromAccounting(i)
  BY <1>2 DEF RejectFromAccounting, InvoiceStatus
<1>3. ASSUME NEW p \in Payments, NewPayment(i, p)
      PROVE  StateOK'
  BY <1>3 DEF NewPayment, InvoiceStatus, PaymentStatus
<1>4. CASE \E p \in Payments : SchedulePayment(i, p)
  BY <1>3, <1>4 DEF SchedulePayment
<1>5. CASE \E p \in Payments : PostInvoice(i, p)
  BY <1>3, <1>5 DEF PostInvoice
<1>6. CASE PostInvoiceUnscheduled(i)
  BY <1>6 DEF PostInvoiceUnscheduled, InvoiceStatus
<1>7. CASE PostInvoiceBlocked(i)
  BY <1>7 DEF PostInvoiceBlocked, InvoiceStatus
<1>8. CASE ReleaseFromHold(i)
  BY <1>8 DEF ReleaseFromHold, InvoiceStatus
<1>9. CASE HoldInvoiceForBatchThreshold(i)
  BY <1>9 DEF HoldInvoiceForBatchThreshold, InvoiceStatus
<1>10. CASE UpdateInvoice(i)
  BY <1>10, RevisionAssumption DEF UpdateInvoice, InvoiceStatus, Revisions
<1>11. CASE \E s \in PatchedStatuses : UpdateInvoiceStatus(i, s)
  BY <1>11, InputAssumption DEF UpdateInvoiceStatus
<1>12. CASE ReprocessInvoice(i)
  BY <1>12 DEF ReprocessInvoice, InvoiceStatus, PaymentStatus
<1>13. CASE CancelInvoice(i)
  BY <1>13 DEF CancelInvoice, Unlink, InvoiceStatus, PaymentStatus
<1> QED
  BY <1>1, <1>2, <1>4, <1>5, <1>6, <1>7, <1>8, <1>9, <1>10, <1>11, <1>12, <1>13

\* Selecting, holding, deciding and batching payments keep every type.
LEMMA QueueStepType == StateOK /\ QueueStep => StateOK'
<1> SUFFICES ASSUME StateOK, QueueStep
             PROVE  StateOK'
  OBVIOUS
<1> USE DEF StateOK, batchVars
<1>1. ASSUME NEW u \in Users, NEW p \in Payments, SelectPaymentForBatch(u, p)
      PROVE  StateOK'
  BY <1>1 DEF SelectPaymentForBatch
<1>2. ASSUME NEW u \in Users, NEW p \in Payments, DeselectPaymentForBatch(u, p)
      PROVE  StateOK'
  BY <1>2 DEF DeselectPaymentForBatch
<1>3. ASSUME NEW p \in Payments, MarkPaymentForPayment(p)
      PROVE  StateOK'
  BY <1>3 DEF MarkPaymentForPayment
<1>4. ASSUME NEW p \in Payments, HoldScheduledPayment(p)
      PROVE  StateOK'
  BY <1>4 DEF HoldScheduledPayment, PaymentStatus
<1>5. ASSUME NEW p \in Payments, ApproveHeldPayment(p)
      PROVE  StateOK'
  BY <1>5 DEF ApproveHeldPayment, PaymentStatus
<1>6. ASSUME NEW p \in Payments, NEW d \in Decisions, SetBelowThresholdDecision(p, d)
      PROVE  StateOK'
  BY <1>6, InputAssumption DEF SetBelowThresholdDecision, PaymentStatus
<1>7. ASSUME NEW p \in Payments, ExpireBelowThresholdHold(p)
      PROVE  StateOK'
  BY <1>7 DEF ExpireBelowThresholdHold, Decision
<1>8. ASSUME NEW G \in SUBSET Payments, HoldGroupBelowThreshold(G)
      PROVE  StateOK'
  BY <1>8 DEF HoldGroupBelowThreshold, PaymentStatus, Decision
<1>9. ASSUME NEW u \in Users, NEW G \in SUBSET Payments, NEW b \in Batches,
             CreatePaymentBatch(u, G, b)
      PROVE  StateOK'
  BY <1>9 DEF CreatePaymentBatch, BatchStatus, OpenBatch
<1> QED
  BY <1>1, <1>2, <1>3, <1>4, <1>5, <1>6, <1>7, <1>8, <1>9 DEF QueueStep

\* Preparing, reviewing and releasing a batch keep every type.
LEMMA BatchStepType == StateOK /\ BatchStep => StateOK'
<1> SUFFICES ASSUME StateOK, BatchStep
             PROVE  StateOK'
  OBVIOUS
<1> USE DEF StateOK, payVars, batchVars
<1>1. ASSUME NEW b \in Batches, NEW p \in Payments, NEW c \in Charges,
             ApplyBankCharge(b, p, c)
      PROVE  StateOK'
  BY <1>1 DEF ApplyBankCharge
<1>2. ASSUME NEW b \in Batches, NEW p \in Payments, RemoveBankCharge(b, p)
      PROVE  StateOK'
  BY <1>2 DEF RemoveBankCharge
<1>3. ASSUME NEW b \in Batches, NEW p \in Payments, EndorseBillStub(b, p)
      PROVE  StateOK'
  BY <1>3 DEF EndorseBillStub, PaymentStatus
<1>4. ASSUME NEW b \in Batches, UpdatePaymentBillsSetup(b)
      PROVE  StateOK'
  BY <1>4 DEF UpdatePaymentBillsSetup
<1>5. ASSUME NEW b \in Batches,
             \/ SubmitPaymentBatchForReview(b)
             \/ ReviewPaymentBatch(b)
             \/ ReturnPaymentBatch(b)
             \/ ApproveCfoPaymentBatch(b)
             \/ RejectCfoPaymentBatch(b)
             \/ MarkPaymentBatchExported(b)
      PROVE  StateOK'
  BY <1>5 DEF SubmitPaymentBatchForReview, ReviewPaymentBatch, ReturnPaymentBatch,
              ApproveCfoPaymentBatch, RejectCfoPaymentBatch, MarkPaymentBatchExported,
              BatchStatus, OpenBatch, ReleasedBatch
<1>6. ASSUME NEW b \in Batches, CancelPaymentBatch(b)
      PROVE  StateOK'
  BY <1>6 DEF CancelPaymentBatch, Unlink, BatchStatus
<1>7. ASSUME NEW b \in Batches, NEW R \in SUBSET Payments, ReturnInvoicesFromBatch(b, R)
      PROVE  StateOK'
  BY <1>7 DEF ReturnInvoicesFromBatch, Unlinked, Unlink, SentBack, InvoiceStatus,
              PaymentStatus, BatchStatus
<1>8. ASSUME NEW b \in Batches, NEW R \in SUBSET Payments, NEW D \in SUBSET Payments,
             ReturnInvoicesInterrupted(b, R, D)
      PROVE  StateOK'
  BY <1>8 DEF ReturnInvoicesInterrupted, Unlinked, Unlink, SentBack, InvoiceStatus,
              PaymentStatus
<1> QED
  BY <1>1, <1>2, <1>3, <1>4, <1>5, <1>6, <1>7, <1>8 DEF BatchStep

\* Confirmed amounts are natural numbers.
LEMMA PaidAfterType ==
  ASSUME StateOK, NEW p \in Payments, NEW S, NEW c \in Confirmations
  PROVE  PaidAfter(p, S, c) \in Nat
<1>1. PaymentAmount(p) \in Nat
  BY OwnerAssumption, AmountAssumption DEF StateOK, PaymentAmount
<1>2. c \in Nat /\ paid[p] \in Nat
  BY MoneyAssumption DEF StateOK
<1> QED
  BY <1>1, <1>2 DEF PaidAfter, Least

\* Paying and confirming keep every type.
LEMMA ExecutionStepType == StateOK /\ ExecutionStep => StateOK'
<1> SUFFICES ASSUME StateOK, ExecutionStep
             PROVE  StateOK'
  OBVIOUS
<1>1. ASSUME NEW p \in Payments, ProcessPayment(p)
      PROVE  StateOK'
  BY <1>1 DEF ProcessPayment, InvoicesPaid, StateOK, batchVars, InvoiceStatus, PaymentStatus
<1>2. ASSUME NEW b \in Batches, NEW D \in SUBSET Payments, ProcessPaymentBatch(b, D)
      PROVE  StateOK'
  BY <1>2 DEF ProcessPaymentBatch, InvoicesPaid, StateOK, InvoiceStatus, PaymentStatus,
              BatchStatus, ReleasedBatch
<1>3. ASSUME NEW b \in Batches, NEW S \in SUBSET Payments, NEW D \in SUBSET Payments,
             NEW c \in Confirmations, NEW r \in Refs,
             MatchPaymentConfirmation(b, S, D, c, r)
      PROVE  StateOK'
  <2>1. \A p \in Payments : PaidAfter(p, S, c) \in Nat
    BY PaidAfterType
  <2> QED
    BY <1>3, <2>1 DEF MatchPaymentConfirmation, InvoicesPaid, StateOK, InvoiceStatus,
                      PaymentStatus, BatchStatus, ReleasedBatch
<1> QED
  BY <1>1, <1>2, <1>3 DEF ExecutionStep

\* Every step of the program, or none, keeps every type.
LEMMA NextType == StateOK /\ [Next]_vars => StateOK'
<1>1. StateOK /\ UNCHANGED vars => StateOK'
  BY DEF StateOK, vars
<1> QED
  BY <1>1, InvoiceStepType, QueueStepType, BatchStepType, ExecutionStepType DEF Next

\* Every column of an invoice, a payment and a batch always holds a value of
\* its type: no handler writes a status the schema does not have.
LEMMA StateTypes == Spec => []StateOK
  BY InitType, NextType, PTL DEF Spec

-----------------------------------------------------------------------------
\* A step leaves the payments' statuses and batches, and the batches' statuses,
\* as they are.
Still == UNCHANGED <<pstatus, inBatch, bstatus>>

\* No invoice operation but cancelling and reprocessing moves a payment to a
\* batch or a status other than SCHEDULED.
LEMMA EndorsedInvoiceStep ==
  StateOK /\ EndorsedOnlyInReleasedBatch /\ InvoiceStep => EndorsedOnlyInReleasedBatch'
<1> SUFFICES ASSUME StateOK, EndorsedOnlyInReleasedBatch, NEW i \in Invoices,
                    \/ ApproveLast(i)
                    \/ RejectFromAccounting(i)
                    \/ \E p \in Payments : SchedulePayment(i, p)
                    \/ \E p \in Payments : PostInvoice(i, p)
                    \/ PostInvoiceUnscheduled(i)
                    \/ PostInvoiceBlocked(i)
                    \/ ReleaseFromHold(i)
                    \/ HoldInvoiceForBatchThreshold(i)
                    \/ UpdateInvoice(i)
                    \/ \E s \in PatchedStatuses : UpdateInvoiceStatus(i, s)
                    \/ ReprocessInvoice(i)
                    \/ CancelInvoice(i)
             PROVE  EndorsedOnlyInReleasedBatch'
  BY DEF InvoiceStep
<1> USE DEF StateOK, EndorsedOnlyInReleasedBatch, payVars, batchVars
<1>1. CASE Still
  BY <1>1 DEF Still
<1>2. ASSUME NEW p \in Payments, NewPayment(i, p)
      PROVE  EndorsedOnlyInReleasedBatch'
  BY <1>2 DEF NewPayment
<1>3. CASE \E p \in Payments : SchedulePayment(i, p) \/ PostInvoice(i, p)
  BY <1>2, <1>3 DEF SchedulePayment, PostInvoice
<1>4. CASE ReprocessInvoice(i)
  BY <1>4 DEF ReprocessInvoice
<1>5. CASE CancelInvoice(i)
  BY <1>5 DEF CancelInvoice, Unlink
<1>6. CASE \/ ApproveLast(i)
           \/ RejectFromAccounting(i)
           \/ PostInvoiceUnscheduled(i)
           \/ PostInvoiceBlocked(i)
           \/ ReleaseFromHold(i)
           \/ HoldInvoiceForBatchThreshold(i)
           \/ UpdateInvoice(i)
           \/ \E s \in PatchedStatuses : UpdateInvoiceStatus(i, s)
  <2>1. Still
    BY <1>6 DEF Still, ApproveLast, RejectFromAccounting, PostInvoiceUnscheduled,
                PostInvoiceBlocked, ReleaseFromHold, HoldInvoiceForBatchThreshold,
                UpdateInvoice, UpdateInvoiceStatus
  <2> QED
    BY <1>1, <2>1
<1> QED
  BY <1>3, <1>4, <1>5, <1>6

\* The queue touches no endorsed payment except to hold it, and a new batch
\* takes SCHEDULED payments only.
LEMMA EndorsedQueueStep ==
  StateOK /\ EndorsedOnlyInReleasedBatch /\ QueueStep => EndorsedOnlyInReleasedBatch'
<1> SUFFICES ASSUME StateOK, EndorsedOnlyInReleasedBatch, QueueStep
             PROVE  EndorsedOnlyInReleasedBatch'
  OBVIOUS
<1> USE DEF StateOK, EndorsedOnlyInReleasedBatch, batchVars
<1>1. ASSUME NEW p \in Payments,
             \/ \E u \in Users : SelectPaymentForBatch(u, p) \/ DeselectPaymentForBatch(u, p)
             \/ MarkPaymentForPayment(p)
             \/ ExpireBelowThresholdHold(p)
      PROVE  EndorsedOnlyInReleasedBatch'
  BY <1>1 DEF SelectPaymentForBatch, DeselectPaymentForBatch, MarkPaymentForPayment,
              ExpireBelowThresholdHold
<1>2. ASSUME NEW p \in Payments, HoldScheduledPayment(p) \/ ApproveHeldPayment(p)
      PROVE  EndorsedOnlyInReleasedBatch'
  BY <1>2 DEF HoldScheduledPayment, ApproveHeldPayment
<1>3. ASSUME NEW p \in Payments, NEW d \in Decisions, SetBelowThresholdDecision(p, d)
      PROVE  EndorsedOnlyInReleasedBatch'
  BY <1>3 DEF SetBelowThresholdDecision
<1>4. ASSUME NEW G \in SUBSET Payments, HoldGroupBelowThreshold(G)
      PROVE  EndorsedOnlyInReleasedBatch'
  BY <1>4 DEF HoldGroupBelowThreshold
<1>5. ASSUME NEW u \in Users, NEW G \in SUBSET Payments, NEW b \in Batches,
             CreatePaymentBatch(u, G, b)
      PROVE  EndorsedOnlyInReleasedBatch'
  BY <1>5 DEF CreatePaymentBatch, NewBatch, ReleasedBatch
<1> QED
  BY <1>1, <1>2, <1>3, <1>4, <1>5 DEF QueueStep

\* Evidence is endorsed in a released batch only, and a batch under review or
\* in preparation, whose payments can leave it, holds no endorsed payment.
LEMMA EndorsedBatchStep ==
  StateOK /\ EndorsedOnlyInReleasedBatch /\ BatchStep => EndorsedOnlyInReleasedBatch'
<1> SUFFICES ASSUME StateOK, EndorsedOnlyInReleasedBatch, BatchStep
             PROVE  EndorsedOnlyInReleasedBatch'
  OBVIOUS
<1> USE NullAssumption
    DEF StateOK, EndorsedOnlyInReleasedBatch, payVars, batchVars, ReleasedBatch, OpenBatch
<1>1. ASSUME NEW b \in Batches, NEW p \in Payments, NEW c \in Charges,
             ApplyBankCharge(b, p, c)
      PROVE  EndorsedOnlyInReleasedBatch'
  BY <1>1 DEF ApplyBankCharge
<1>2. ASSUME NEW b \in Batches, NEW p \in Payments, RemoveBankCharge(b, p)
      PROVE  EndorsedOnlyInReleasedBatch'
  BY <1>2 DEF RemoveBankCharge
<1>3. ASSUME NEW b \in Batches, NEW p \in Payments, EndorseBillStub(b, p)
      PROVE  EndorsedOnlyInReleasedBatch'
  BY <1>3 DEF EndorseBillStub
<1>4. ASSUME NEW b \in Batches, UpdatePaymentBillsSetup(b)
      PROVE  EndorsedOnlyInReleasedBatch'
  BY <1>4 DEF UpdatePaymentBillsSetup
<1>5. ASSUME NEW b \in Batches,
             \/ SubmitPaymentBatchForReview(b)
             \/ ReviewPaymentBatch(b)
             \/ ReturnPaymentBatch(b)
             \/ ApproveCfoPaymentBatch(b)
             \/ RejectCfoPaymentBatch(b)
             \/ MarkPaymentBatchExported(b)
      PROVE  EndorsedOnlyInReleasedBatch'
  BY <1>5 DEF SubmitPaymentBatchForReview, ReviewPaymentBatch, ReturnPaymentBatch,
              ApproveCfoPaymentBatch, RejectCfoPaymentBatch, MarkPaymentBatchExported
<1>6. ASSUME NEW b \in Batches, CancelPaymentBatch(b)
      PROVE  EndorsedOnlyInReleasedBatch'
  BY <1>6 DEF CancelPaymentBatch, Unlink, Members
<1>7. ASSUME NEW b \in Batches, NEW R \in SUBSET Payments, ReturnInvoicesFromBatch(b, R)
      PROVE  EndorsedOnlyInReleasedBatch'
  BY <1>7 DEF ReturnInvoicesFromBatch, Unlinked, Unlink, Members
<1>8. ASSUME NEW b \in Batches, NEW R \in SUBSET Payments, NEW D \in SUBSET Payments,
             ReturnInvoicesInterrupted(b, R, D)
      PROVE  EndorsedOnlyInReleasedBatch'
  BY <1>8 DEF ReturnInvoicesInterrupted, Unlinked, Unlink, Members
<1> QED
  BY <1>1, <1>2, <1>3, <1>4, <1>5, <1>6, <1>7, <1>8 DEF BatchStep

\* Paying moves payments to PAID; a confirmation part-pays endorsed payments
\* where they are, and their batch can only become PROCESSED.
LEMMA EndorsedExecutionStep ==
  StateOK /\ EndorsedOnlyInReleasedBatch /\ ExecutionStep => EndorsedOnlyInReleasedBatch'
<1> SUFFICES ASSUME StateOK, EndorsedOnlyInReleasedBatch, ExecutionStep
             PROVE  EndorsedOnlyInReleasedBatch'
  OBVIOUS
<1>1. ASSUME NEW p \in Payments, ProcessPayment(p)
      PROVE  EndorsedOnlyInReleasedBatch'
  BY <1>1 DEF ProcessPayment, StateOK, EndorsedOnlyInReleasedBatch, batchVars
<1>2. ASSUME NEW b \in Batches, NEW D \in SUBSET Payments, ProcessPaymentBatch(b, D)
      PROVE  EndorsedOnlyInReleasedBatch'
  BY <1>2 DEF ProcessPaymentBatch, StateOK, EndorsedOnlyInReleasedBatch, ReleasedBatch
<1>3. ASSUME NEW b \in Batches, NEW S \in SUBSET Payments, NEW D \in SUBSET Payments,
             NEW c \in Confirmations, NEW r \in Refs,
             MatchPaymentConfirmation(b, S, D, c, r)
      PROVE  EndorsedOnlyInReleasedBatch'
  <2>1. \A p \in D : pstatus[p] \in {"ENDORSED", "PARTIALLY_PAID"}
    BY <1>3 DEF MatchPaymentConfirmation
  <2>2. \A p \in Payments \ D : pstatus'[p] = pstatus[p]
    BY <1>3 DEF MatchPaymentConfirmation
  <2>3. \A p \in Payments : pstatus'[p] \in {"ENDORSED", "PARTIALLY_PAID"} =>
                             pstatus[p] \in {"ENDORSED", "PARTIALLY_PAID"}
    BY <2>1, <2>2
  <2>4. \A a \in Batches : bstatus'[a] \in {bstatus[a], "PROCESSED"}
    BY <1>3 DEF MatchPaymentConfirmation, StateOK
  <2>5. inBatch' = inBatch
    BY <1>3 DEF MatchPaymentConfirmation
  <2> QED
    BY <2>3, <2>4, <2>5 DEF StateOK, EndorsedOnlyInReleasedBatch, ReleasedBatch
<1> QED
  BY <1>1, <1>2, <1>3 DEF ExecutionStep

\* Every step of the program, or none, keeps endorsed payments in released
\* batches.
LEMMA EndorsedStep ==
  StateOK /\ EndorsedOnlyInReleasedBatch /\ [Next]_vars => EndorsedOnlyInReleasedBatch'
<1>1. EndorsedOnlyInReleasedBatch /\ UNCHANGED vars => EndorsedOnlyInReleasedBatch'
  BY DEF EndorsedOnlyInReleasedBatch, vars
<1> QED
  BY <1>1, EndorsedInvoiceStep, EndorsedQueueStep, EndorsedBatchStep,
     EndorsedExecutionStep DEF Next

\* A payment that the bank is asked to pay, or has paid in part, is always in
\* a batch that a Supervisor has reviewed, whatever order invoices are
\* cancelled, reprocessed or returned in.
THEOREM EndorsedInReleasedBatch == Spec => []EndorsedOnlyInReleasedBatch
<1>1. Init => EndorsedOnlyInReleasedBatch
  BY DEF Init, EndorsedOnlyInReleasedBatch
<1> QED
  BY <1>1, EndorsedStep, StateTypes, PTL DEF Spec

-----------------------------------------------------------------------------
\* What TerminalInvoiceFrozen asks of one step.
Frozen == \A i \in Invoices : istatus[i] \in TerminalStatus => istatus'[i] = istatus[i]

\* A step that makes a payment PAID leaves its invoice closed.
PaidCloses ==
  \A p \in Payments : pstatus'[p] = "PAID" =>
    pstatus[p] = "PAID" \/ istatus'[Owner[p]] \in TerminalStatus

\* Invoice operations leave final invoices alone and pay nothing.
LEMMA InvoiceStepCloses == StateOK /\ InvoiceStep => Frozen /\ PaidCloses
<1> SUFFICES ASSUME StateOK, NEW i \in Invoices,
                    \/ ApproveLast(i)
                    \/ RejectFromAccounting(i)
                    \/ \E p \in Payments : SchedulePayment(i, p)
                    \/ \E p \in Payments : PostInvoice(i, p)
                    \/ PostInvoiceUnscheduled(i)
                    \/ PostInvoiceBlocked(i)
                    \/ ReleaseFromHold(i)
                    \/ HoldInvoiceForBatchThreshold(i)
                    \/ UpdateInvoice(i)
                    \/ \E s \in PatchedStatuses : UpdateInvoiceStatus(i, s)
                    \/ ReprocessInvoice(i)
                    \/ CancelInvoice(i)
             PROVE  Frozen /\ PaidCloses
  BY DEF InvoiceStep
<1> USE DEF StateOK, Frozen, PaidCloses, TerminalStatus, payVars, batchVars
<1>1. ASSUME NEW p \in Payments, NewPayment(i, p), istatus[i] \notin TerminalStatus
      PROVE  Frozen /\ PaidCloses
  BY <1>1 DEF NewPayment
<1>2. CASE \E p \in Payments : SchedulePayment(i, p)
  BY <1>1, <1>2 DEF SchedulePayment
<1>3. CASE \E p \in Payments : PostInvoice(i, p)
  BY <1>1, <1>3 DEF PostInvoice
<1>4. CASE ReprocessInvoice(i)
  BY <1>4 DEF ReprocessInvoice
<1>5. CASE CancelInvoice(i)
  BY <1>5 DEF CancelInvoice
<1>6. CASE \/ ApproveLast(i)
           \/ RejectFromAccounting(i)
           \/ PostInvoiceUnscheduled(i)
           \/ PostInvoiceBlocked(i)
           \/ ReleaseFromHold(i)
           \/ HoldInvoiceForBatchThreshold(i)
           \/ UpdateInvoice(i)
           \/ \E s \in PatchedStatuses : UpdateInvoiceStatus(i, s)
  <2>1. pstatus' = pstatus
    BY <1>6 DEF ApproveLast, RejectFromAccounting, PostInvoiceUnscheduled,
                PostInvoiceBlocked, ReleaseFromHold, HoldInvoiceForBatchThreshold,
                UpdateInvoice, UpdateInvoiceStatus
  <2>2. /\ istatus[i] \notin TerminalStatus
        /\ \A j \in Invoices \ {i} : istatus'[j] = istatus[j]
    BY <1>6 DEF ApproveLast, RejectFromAccounting, PostInvoiceUnscheduled,
                PostInvoiceBlocked, ReleaseFromHold, HoldInvoiceForBatchThreshold,
                UpdateInvoice, UpdateInvoiceStatus
  <2> QED
    BY <2>1, <2>2
<1> QED
  BY <1>2, <1>3, <1>4, <1>5, <1>6

\* The payment queue writes no invoice and pays nothing.
LEMMA QueueStepCloses == StateOK /\ QueueStep => Frozen /\ PaidCloses
<1> SUFFICES ASSUME StateOK, QueueStep
             PROVE  Frozen /\ PaidCloses
  OBVIOUS
<1>1. istatus' = istatus
  BY DEF QueueStep, SelectPaymentForBatch, DeselectPaymentForBatch,
         MarkPaymentForPayment, HoldScheduledPayment, ApproveHeldPayment,
         SetBelowThresholdDecision, ExpireBelowThresholdHold,
         HoldGroupBelowThreshold, CreatePaymentBatch
<1>2. \A p \in Payments : pstatus'[p] = "PAID" => pstatus[p] = "PAID"
  BY DEF StateOK, QueueStep, SelectPaymentForBatch, DeselectPaymentForBatch,
         MarkPaymentForPayment, HoldScheduledPayment, ApproveHeldPayment,
         SetBelowThresholdDecision, ExpireBelowThresholdHold,
         HoldGroupBelowThreshold, CreatePaymentBatch
<1> QED
  BY <1>1, <1>2 DEF Frozen, PaidCloses

\* A batch sends back only invoices that are not final, and pays nothing.
LEMMA BatchStepCloses == StateOK /\ BatchStep => Frozen /\ PaidCloses
<1> SUFFICES ASSUME StateOK, NEW b \in Batches,
                    \/ \E p \in Payments, c \in Charges : ApplyBankCharge(b, p, c)
                    \/ \E p \in Payments : RemoveBankCharge(b, p)
                    \/ \E p \in Payments : EndorseBillStub(b, p)
                    \/ UpdatePaymentBillsSetup(b)
                    \/ SubmitPaymentBatchForReview(b)
                    \/ ReviewPaymentBatch(b)
                    \/ ReturnPaymentBatch(b)
                    \/ ApproveCfoPaymentBatch(b)
                    \/ RejectCfoPaymentBatch(b)
                    \/ MarkPaymentBatchExported(b)
                    \/ CancelPaymentBatch(b)
                    \/ \E R \in SUBSET Payments : ReturnInvoicesFromBatch(b, R)
                    \/ \E R, D \in SUBSET Payments : ReturnInvoicesInterrupted(b, R, D)
             PROVE  Frozen /\ PaidCloses
  BY DEF BatchStep
<1> USE DEF StateOK, Frozen, PaidCloses, payVars
<1>1. ASSUME NEW R \in SUBSET Payments, NEW D \in SUBSET R, Unlinked(b, R),
             Final(D) = {}, SentBack(D)
      PROVE  Frozen /\ PaidCloses
  BY <1>1, OwnerAssumption DEF Unlinked, Final, SentBack
<1>2. CASE \E R \in SUBSET Payments : ReturnInvoicesFromBatch(b, R)
  BY <1>1, <1>2 DEF ReturnInvoicesFromBatch
<1>3. CASE \E R, D \in SUBSET Payments : ReturnInvoicesInterrupted(b, R, D)
  BY <1>1, <1>3 DEF ReturnInvoicesInterrupted, Final
<1>4. CASE \E p \in Payments : EndorseBillStub(b, p)
  BY <1>4 DEF EndorseBillStub
<1>5. CASE \/ \E p \in Payments, c \in Charges : ApplyBankCharge(b, p, c)
           \/ \E p \in Payments : RemoveBankCharge(b, p)
  BY <1>5 DEF ApplyBankCharge, RemoveBankCharge
<1>6. CASE \/ UpdatePaymentBillsSetup(b)
           \/ SubmitPaymentBatchForReview(b)
           \/ ReviewPaymentBatch(b)
           \/ ReturnPaymentBatch(b)
           \/ ApproveCfoPaymentBatch(b)
           \/ RejectCfoPaymentBatch(b)
           \/ MarkPaymentBatchExported(b)
           \/ CancelPaymentBatch(b)
  <2>1. UNCHANGED <<istatus, pstatus>>
    BY <1>6 DEF UpdatePaymentBillsSetup, SubmitPaymentBatchForReview,
                ReviewPaymentBatch, ReturnPaymentBatch, ApproveCfoPaymentBatch,
                RejectCfoPaymentBatch, MarkPaymentBatchExported, CancelPaymentBatch
  <2> QED
    BY <2>1
<1> QED
  BY <1>2, <1>3, <1>4, <1>5, <1>6

\* Paying closes the invoice, or finds it cancelled.
LEMMA ExecutionStepCloses == StateOK /\ ExecutionStep => Frozen /\ PaidCloses
<1> SUFFICES ASSUME StateOK, ExecutionStep
             PROVE  Frozen /\ PaidCloses
  OBVIOUS
<1>1. ASSUME NEW S \in SUBSET Payments, istatus' = InvoicesPaid(S),
             \A p \in Payments : pstatus'[p] = "PAID" => p \in S \/ pstatus[p] = "PAID"
      PROVE  Frozen /\ PaidCloses
  BY <1>1, OwnerAssumption DEF StateOK, Frozen, PaidCloses, InvoicesPaid, TerminalStatus
<1>2. ASSUME NEW p \in Payments, ProcessPayment(p)
      PROVE  Frozen /\ PaidCloses
  <2>1. \A q \in Payments : pstatus'[q] = "PAID" => q \in {p} \/ pstatus[q] = "PAID"
    BY <1>2 DEF ProcessPayment, StateOK
  <2> QED
    BY <1>1, <1>2, <2>1 DEF ProcessPayment
<1>3. ASSUME NEW b \in Batches, NEW D \in SUBSET Payments, ProcessPaymentBatch(b, D)
      PROVE  Frozen /\ PaidCloses
  BY <1>1, <1>3 DEF ProcessPaymentBatch
<1>4. ASSUME NEW b \in Batches, NEW S \in SUBSET Payments, NEW D \in SUBSET Payments,
             NEW c \in Confirmations, NEW r \in Refs,
             MatchPaymentConfirmation(b, S, D, c, r)
      PROVE  Frozen /\ PaidCloses
  <2> DEFINE full == {p \in D : PaidAfter(p, S, c) >= PaymentAmount(p)}
  <2>1. istatus' = InvoicesPaid(full) /\ full \in SUBSET Payments
    BY <1>4 DEF MatchPaymentConfirmation
  <2>2. \A p \in Payments : pstatus'[p] = "PAID" => p \in full \/ pstatus[p] = "PAID"
    BY <1>4 DEF MatchPaymentConfirmation
  <2> QED
    BY <1>1, <2>1, <2>2
<1> QED
  BY <1>2, <1>3, <1>4 DEF ExecutionStep

\* Every step of the program, or none, leaves final invoices alone.
LEMMA StepCloses == StateOK /\ [Next]_vars => Frozen /\ PaidCloses
<1>1. UNCHANGED vars => Frozen /\ PaidCloses
  BY DEF vars, Frozen, PaidCloses
<1> QED
  BY <1>1, InvoiceStepCloses, QueueStepCloses, BatchStepCloses, ExecutionStepCloses
  DEF Next

\* A PAID or CANCELLED invoice keeps its status for ever, although a dozen
\* handlers write it without asking one another.
THEOREM TerminalInvoicesStay == Spec => TerminalInvoiceFrozen
<1>1. StateOK /\ [Next]_vars => [Frozen]_vars
  BY StepCloses
<1> QED
  BY <1>1, StateTypes, PTL DEF Spec, TerminalInvoiceFrozen, Frozen

\* Once a payment is PAID its invoice is closed to editing, posting and
\* scheduling, even when the PAID write to the invoice was refused.
THEOREM PaidPaymentsStop == Spec => []PaidPaymentStopsInvoice
<1>1. Init => PaidPaymentStopsInvoice
  BY DEF Init, PaidPaymentStopsInvoice
<1>2. PaidPaymentStopsInvoice /\ Frozen /\ PaidCloses => PaidPaymentStopsInvoice'
  BY OwnerAssumption DEF PaidPaymentStopsInvoice, Frozen, PaidCloses
<1>3. StateOK /\ PaidPaymentStopsInvoice /\ [Next]_vars => PaidPaymentStopsInvoice'
  BY <1>2, StepCloses
<1> QED
  BY <1>1, <1>3, StateTypes, PTL DEF Spec

-----------------------------------------------------------------------------
\* A payment is PARTIALLY_PAID only while less than its amount is confirmed, and
\* carries the reference by which a repeated confirmation is refused.
PartialIsPartial ==
  \A p \in Payments : pstatus[p] = "PARTIALLY_PAID" =>
    lastRef[p] # NoRef /\ paid[p] < PaymentAmount(p)

\* What a step that is no confirmation leaves of the payments paid in part.
PartialBefore ==
  /\ UNCHANGED <<paid, lastRef>>
  /\ \A p \in Payments : pstatus'[p] = "PARTIALLY_PAID" =>
       pstatus[p] = "PARTIALLY_PAID" /\ snapshot'[p] = snapshot[p]

\* Invoice operations schedule and void payments, and part-pay none.
LEMMA InvoicePartial == StateOK /\ InvoiceStep => PartialBefore
<1> SUFFICES ASSUME StateOK, NEW i \in Invoices,
                    \/ ApproveLast(i)
                    \/ RejectFromAccounting(i)
                    \/ \E p \in Payments : SchedulePayment(i, p)
                    \/ \E p \in Payments : PostInvoice(i, p)
                    \/ PostInvoiceUnscheduled(i)
                    \/ PostInvoiceBlocked(i)
                    \/ ReleaseFromHold(i)
                    \/ HoldInvoiceForBatchThreshold(i)
                    \/ UpdateInvoice(i)
                    \/ \E s \in PatchedStatuses : UpdateInvoiceStatus(i, s)
                    \/ ReprocessInvoice(i)
                    \/ CancelInvoice(i)
             PROVE  PartialBefore
  BY DEF InvoiceStep
<1> USE DEF StateOK, PartialBefore, payVars
<1>1. ASSUME NEW p \in Payments, NewPayment(i, p)
      PROVE  PartialBefore
  BY <1>1 DEF NewPayment
<1>2. CASE ReprocessInvoice(i) \/ CancelInvoice(i)
  BY <1>2 DEF ReprocessInvoice, CancelInvoice
<1>3. CASE \E p \in Payments : SchedulePayment(i, p) \/ PostInvoice(i, p)
  BY <1>1, <1>3 DEF SchedulePayment, PostInvoice
<1>4. CASE \/ ApproveLast(i)
           \/ RejectFromAccounting(i)
           \/ PostInvoiceUnscheduled(i)
           \/ PostInvoiceBlocked(i)
           \/ ReleaseFromHold(i)
           \/ HoldInvoiceForBatchThreshold(i)
           \/ UpdateInvoice(i)
           \/ \E s \in PatchedStatuses : UpdateInvoiceStatus(i, s)
  BY <1>4 DEF ApproveLast, RejectFromAccounting, PostInvoiceUnscheduled,
              PostInvoiceBlocked, ReleaseFromHold, HoldInvoiceForBatchThreshold,
              UpdateInvoice, UpdateInvoiceStatus
<1> QED
  BY <1>2, <1>3, <1>4

\* Nor do the queue, the preparation and review of batches, and the direct
\* payments, which skip what is paid in part.
LEMMA OthersPartial ==
  ASSUME StateOK,
         \/ QueueStep \/ BatchStep
         \/ \E p \in Payments : ProcessPayment(p)
         \/ \E b \in Batches, D \in SUBSET Payments : ProcessPaymentBatch(b, D)
  PROVE  PartialBefore
<1> USE DEF StateOK, PartialBefore, payVars
<1>1. CASE QueueStep
  BY <1>1 DEF QueueStep, SelectPaymentForBatch, DeselectPaymentForBatch,
              MarkPaymentForPayment, HoldScheduledPayment, ApproveHeldPayment,
              SetBelowThresholdDecision, ExpireBelowThresholdHold,
              HoldGroupBelowThreshold, CreatePaymentBatch
<1>2. CASE BatchStep
  <2>1. ASSUME NEW b \in Batches, NEW p \in Payments,
               \/ EndorseBillStub(b, p) \/ RemoveBankCharge(b, p)
               \/ \E c \in Charges : ApplyBankCharge(b, p, c)
        PROVE  PartialBefore
    BY <2>1 DEF EndorseBillStub, RemoveBankCharge, ApplyBankCharge
  <2>2. ASSUME NEW b \in Batches,
               \/ UpdatePaymentBillsSetup(b)
               \/ SubmitPaymentBatchForReview(b)
               \/ ReviewPaymentBatch(b)
               \/ ReturnPaymentBatch(b)
               \/ ApproveCfoPaymentBatch(b)
               \/ RejectCfoPaymentBatch(b)
               \/ MarkPaymentBatchExported(b)
               \/ CancelPaymentBatch(b)
        PROVE  PartialBefore
    BY <2>2 DEF UpdatePaymentBillsSetup, SubmitPaymentBatchForReview, ReviewPaymentBatch,
                ReturnPaymentBatch, ApproveCfoPaymentBatch, RejectCfoPaymentBatch,
                MarkPaymentBatchExported, CancelPaymentBatch
  <2>3. ASSUME NEW b \in Batches, NEW R \in SUBSET Payments,
               \/ ReturnInvoicesFromBatch(b, R)
               \/ \E D \in SUBSET Payments : ReturnInvoicesInterrupted(b, R, D)
        PROVE  PartialBefore
    BY <2>3 DEF ReturnInvoicesFromBatch, ReturnInvoicesInterrupted, Unlinked
  <2> QED
    BY <1>2, <2>1, <2>2, <2>3 DEF BatchStep
<1>3. CASE \E p \in Payments : ProcessPayment(p)
  BY <1>3 DEF ProcessPayment
<1>4. CASE \E b \in Batches, D \in SUBSET Payments : ProcessPaymentBatch(b, D)
  BY <1>4 DEF ProcessPaymentBatch
<1> QED
  BY <1>1, <1>2, <1>3, <1>4

\* A confirmation records its reference with what it adds, and makes PAID what
\* it completes.
LEMMA ConfirmationPartial ==
  ASSUME StateOK, PartialIsPartial,
         NEW b \in Batches, NEW S \in SUBSET Payments, NEW D \in SUBSET Payments,
         NEW c \in Confirmations, NEW r \in Refs,
         MatchPaymentConfirmation(b, S, D, c, r)
  PROVE  PartialIsPartial'
<1> DEFINE full == {p \in D : PaidAfter(p, S, c) >= PaymentAmount(p)}
<1>1. /\ pstatus' = [p \in Payments |->
                       IF p \in full THEN "PAID"
                       ELSE IF p \in D THEN "PARTIALLY_PAID" ELSE pstatus[p]]
      /\ paid' = [p \in Payments |-> IF p \in D THEN PaidAfter(p, S, c) ELSE paid[p]]
      /\ lastRef' = [p \in Payments |-> IF p \in D THEN r ELSE lastRef[p]]
      /\ snapshot' = snapshot
  BY DEF MatchPaymentConfirmation
<1>2. \A p \in Payments : PaymentAmount(p)' = PaymentAmount(p) /\ PaymentAmount(p) \in Nat
  BY <1>1, OwnerAssumption, AmountAssumption DEF PaymentAmount, StateOK
<1>3. \A p \in Payments : PaidAfter(p, S, c) \in Nat
  BY PaidAfterType
<1>4. \A p \in full : p \in D
  OBVIOUS
<1>5. \A p \in D : p \notin full => PaidAfter(p, S, c) < PaymentAmount(p)
  BY <1>2, <1>3
<1>6. ASSUME NEW p \in Payments, pstatus'[p] = "PARTIALLY_PAID"
      PROVE  lastRef'[p] # NoRef /\ paid'[p] < PaymentAmount(p)
  <2> HIDE DEF full
  <2>1. CASE p \in D
    BY <1>1, <1>5, <1>6, <2>1, NullAssumption
  <2>2. CASE p \notin D
    BY <1>1, <1>4, <1>6, <2>2 DEF PartialIsPartial
  <2> QED
    BY <2>1, <2>2
<1> QED
  BY <1>2, <1>6 DEF PartialIsPartial

\* What is reported as paid in part is never paid in full, and can be told from
\* a confirmation that arrives twice, through resets, voids and reprocessing.
THEOREM PartialPaymentsAreDue == Spec => []PartialIsPartial
<1>1. Init => PartialIsPartial
  BY DEF Init, PartialIsPartial
<1>2. PartialIsPartial /\ PartialBefore => PartialIsPartial'
  BY DEF PartialIsPartial, PartialBefore, PaymentAmount
<1>3. StateOK /\ PartialIsPartial /\ [Next]_vars => PartialIsPartial'
  <2>1. UNCHANGED vars => PartialBefore
    BY DEF vars, PartialBefore
  <2> QED
    BY <1>2, <2>1, InvoicePartial, OthersPartial, ConfirmationPartial
    DEF Next, ExecutionStep
<1> QED
  BY <1>1, <1>3, StateTypes, PTL DEF Spec

-----------------------------------------------------------------------------
(* The batches: PaymentPipeline implements BatchControl *)

\* Only a batch that exists and is not cancelled holds payments.
HoldsOnlyOpened ==
  \A p \in Payments : inBatch[p] # NoBatch => bstatus[inBatch[p]] \notin {"NONE", "CANCELLED"}

\* The inductive invariant of the refinement.
BatchInv ==
  /\ StateOK
  /\ DOMAIN total = Batches
  /\ EndorsedOnlyInReleasedBatch
  /\ HoldsOnlyOpened

\* PhaseAt has one value for each group of statuses.
LEMMA PhaseValues ==
  /\ PhaseAt("NONE") = "none"
  /\ \A s \in OpenBatch : PhaseAt(s) = "open"
  /\ PhaseAt("PENDING_SUPERVISOR_REVIEW") = "review"
  /\ PhaseAt("PENDING_CFO") = "cfo"
  /\ PhaseAt("CANCELLED") = "cancelled"
  /\ \A s \in ReleasedBatch : PhaseAt(s) = "released"
  BY DEF PhaseAt, OpenBatch, ReleasedBatch

\* The batches outside B are assessed as before when neither their total nor
\* their payments change.
LEMMA OthersAsBefore ==
  ASSUME NEW B,
         \A c \in Batches \ B : total'[c] = total[c] /\ Members(c)' = Members(c)
  PROVE  Control!Reassessed(B)
  BY DEF Control!Reassessed, RequiresCfo

\* A step that changes neither the batches, nor what they hold, nor the
\* evidence is a stuttering step of BatchControl.
LEMMA BatchesStill ==
  ASSUME UNCHANGED <<inBatch, bstatus, stubs, total>>
  PROVE  UNCHANGED Control!vars
  BY DEF Control!vars, PhaseOf, Members, RequiresCfo

\* Creating a batch is Create: the payments it takes are in no batch.
LEMMA CreateRefines ==
  ASSUME BatchInv, NEW u \in Users, NEW G \in SUBSET Payments, NEW b \in Batches,
         CreatePaymentBatch(u, G, b)
  PROVE  Control!Create(b, G)
<1> USE DEF BatchInv, StateOK, CreatePaymentBatch, NewBatch
<1>1. PhaseOf[b] = "none" /\ G # {}
  BY PhaseValues DEF PhaseOf, IsGroup
<1>2. \A c \in Batches : Members(c) \cap G = {}
  BY NullAssumption DEF Members
<1>3. PhaseOf' = [PhaseOf EXCEPT ![b] = "open"]
  BY PhaseValues DEF PhaseOf, OpenBatch
<1>4. Members(b) = {}
  BY NullAssumption DEF Members, HoldsOnlyOpened
<1>5. \A c \in Batches : Members(c)' = IF c = b THEN G ELSE Members(c)
  BY <1>2, <1>4 DEF Members
<1>6. [c \in Batches |-> Members(c)]' = [[c \in Batches |-> Members(c)] EXCEPT ![b] = G]
  BY <1>5
<1>7. Control!Reassessed({b})
  BY <1>5, OthersAsBefore
<1> QED
  BY <1>1, <1>2, <1>3, <1>6, <1>7 DEF Control!Create

\* Bank charges and evidence: a reassessment of an open batch, and a file.
LEMMA PreparationRefines ==
  ASSUME BatchInv, NEW b \in Batches, NEW p \in Payments
  PROVE  /\ RemoveBankCharge(b, p) => Control!Charge(b)
         /\ \A c \in Charges : ApplyBankCharge(b, p, c) => Control!Charge(b)
         /\ EndorseBillStub(b, p) => Control!File(p)
<1> USE DEF BatchInv, StateOK
<1>1. ASSUME bstatus[b] \in OpenBatch, UNCHANGED <<inBatch, bstatus, stubs>>,
             \A c \in Batches \ {b} : total'[c] = total[c]
      PROVE  Control!Charge(b)
  <2>1. PhaseOf[b] = "open"
    BY <1>1, PhaseValues DEF PhaseOf
  <2>2. UNCHANGED <<PhaseOf, [c \in Batches |-> Members(c)], stubs>>
    BY <1>1 DEF PhaseOf, Members
  <2>3. Control!Reassessed({b})
    BY <1>1, OthersAsBefore DEF Members
  <2> QED
    BY <2>1, <2>2, <2>3 DEF Control!Charge
<1>2. RemoveBankCharge(b, p) => Control!Charge(b)
  BY <1>1 DEF RemoveBankCharge
<1>3. ASSUME NEW c \in Charges, ApplyBankCharge(b, p, c)
      PROVE  Control!Charge(b)
  BY <1>1, <1>3 DEF ApplyBankCharge
<1>4. ASSUME EndorseBillStub(b, p)
      PROVE  Control!File(p)
  <2>1. stubs' = stubs \cup {p} /\ UNCHANGED <<inBatch, bstatus, total>>
    BY <1>4 DEF EndorseBillStub, batchVars
  <2> QED
    BY <2>1 DEF Control!File, PhaseOf, Members, RequiresCfo
<1> QED
  BY <1>2, <1>3, <1>4

\* Reviews move a batch from phase to phase and leave everything else; an
\* export keeps it released.
LEMMA ReviewRefines ==
  ASSUME BatchInv, NEW b \in Batches
  PROVE  /\ SubmitPaymentBatchForReview(b) => Control!Submit(b)
         /\ ReviewPaymentBatch(b) => Control!Review(b)
         /\ ReturnPaymentBatch(b) \/ RejectCfoPaymentBatch(b) => Control!Return(b)
         /\ ApproveCfoPaymentBatch(b) => Control!Approve(b)
         /\ MarkPaymentBatchExported(b) => UNCHANGED Control!vars
<1> USE DEF BatchInv, StateOK
<1> DEFINE Else == UNCHANGED <<[c \in Batches |-> Members(c)], stubs,
                               {c \in Batches : RequiresCfo(c)}>>
<1>1. ASSUME NEW s, bstatus' = [bstatus EXCEPT ![b] = s]
      PROVE  PhaseOf' = [PhaseOf EXCEPT ![b] = PhaseAt(s)]
  BY <1>1 DEF PhaseOf
<1>2. UNCHANGED <<inBatch, stubs, total>> => Else
  BY DEF Members, RequiresCfo
<1>3. PhaseOf[b] = PhaseAt(bstatus[b])
  BY DEF PhaseOf
<1>4. ASSUME SubmitPaymentBatchForReview(b)
      PROVE  Control!Submit(b)
  <2>1. PhaseOf[b] = "open"
    BY <1>3, <1>4, PhaseValues DEF SubmitPaymentBatchForReview
  <2>2. PhaseOf' = [PhaseOf EXCEPT ![b] = "review"]
    BY <1>1, <1>4, PhaseValues DEF SubmitPaymentBatchForReview
  <2>3. Else
    BY <1>2, <1>4 DEF SubmitPaymentBatchForReview, payVars
  <2>4. Members(b) # {} /\ Members(b) \subseteq stubs
    BY <1>4 DEF SubmitPaymentBatchForReview, BillStubsUploaded
  <2> QED
    BY <2>1, <2>2, <2>3, <2>4 DEF Control!Submit
<1>5. ASSUME ReviewPaymentBatch(b)
      PROVE  Control!Review(b)
  <2>1. PhaseOf[b] = "review"
    BY <1>3, <1>5, PhaseValues DEF ReviewPaymentBatch
  <2>2. PhaseOf' = [PhaseOf EXCEPT ![b] = IF RequiresCfo(b) THEN "cfo" ELSE "released"]
    BY <1>1, <1>5, PhaseValues DEF ReviewPaymentBatch, ReleasedBatch
  <2>3. Else
    BY <1>2, <1>5 DEF ReviewPaymentBatch, payVars
  <2>4. b \in {c \in Batches : RequiresCfo(c)} <=> RequiresCfo(b)
    OBVIOUS
  <2> QED
    BY <2>1, <2>2, <2>3, <2>4 DEF Control!Review
<1>6. ASSUME ReturnPaymentBatch(b) \/ RejectCfoPaymentBatch(b)
      PROVE  Control!Return(b)
  <2>1. PhaseOf[b] \in {"review", "cfo"}
    BY <1>3, <1>6, PhaseValues DEF ReturnPaymentBatch, RejectCfoPaymentBatch
  <2>2. PhaseOf' = [PhaseOf EXCEPT ![b] = "open"]
    BY <1>1, <1>6, PhaseValues DEF ReturnPaymentBatch, RejectCfoPaymentBatch, OpenBatch
  <2>3. Else
    BY <1>2, <1>6 DEF ReturnPaymentBatch, RejectCfoPaymentBatch, payVars
  <2> QED
    BY <2>1, <2>2, <2>3 DEF Control!Return
<1>7. ASSUME ApproveCfoPaymentBatch(b)
      PROVE  Control!Approve(b)
  <2>1. PhaseOf[b] = "cfo"
    BY <1>3, <1>7, PhaseValues DEF ApproveCfoPaymentBatch
  <2>2. PhaseOf' = [PhaseOf EXCEPT ![b] = "released"]
    BY <1>1, <1>7, PhaseValues DEF ApproveCfoPaymentBatch, ReleasedBatch
  <2>3. Else
    BY <1>2, <1>7 DEF ApproveCfoPaymentBatch, payVars
  <2> QED
    BY <2>1, <2>2, <2>3 DEF Control!Approve
<1>8. ASSUME MarkPaymentBatchExported(b)
      PROVE  UNCHANGED Control!vars
  <2>1. PhaseOf[b] = "released"
    BY <1>3, <1>8, PhaseValues DEF MarkPaymentBatchExported, ReleasedBatch
  <2>2. PhaseOf' = [PhaseOf EXCEPT ![b] = "released"]
    BY <1>1, <1>8, PhaseValues DEF MarkPaymentBatchExported, ReleasedBatch
  <2>3. PhaseOf' = PhaseOf
    BY <2>1, <2>2 DEF PhaseOf
  <2>4. Else
    BY <1>2, <1>8 DEF MarkPaymentBatchExported, payVars
  <2> QED
    BY <2>3, <2>4 DEF Control!vars
<1> QED
  BY <1>4, <1>5, <1>6, <1>7, <1>8

\* Cancelling a batch frees its payments.
LEMMA CancelRefines ==
  ASSUME BatchInv, NEW b \in Batches, CancelPaymentBatch(b)
  PROVE  Control!Cancel(b)
<1> USE DEF BatchInv, StateOK, CancelPaymentBatch
<1>1. PhaseOf[b] \in {"open", "review"}
  BY PhaseValues DEF PhaseOf
<1>2. PhaseOf' = [PhaseOf EXCEPT ![b] = "cancelled"]
  BY PhaseValues DEF PhaseOf
<1>3. \A c \in Batches : Members(c)' = IF c = b THEN {} ELSE Members(c)
  BY NullAssumption DEF Members, Unlink
<1>4. [c \in Batches |-> Members(c)]' = [[c \in Batches |-> Members(c)] EXCEPT ![b] = {}]
  BY <1>3
<1>5. Control!Reassessed({b})
  BY <1>3, OthersAsBefore
<1> QED
  BY <1>1, <1>2, <1>4, <1>5 DEF Control!Cancel

\* The payments of R leave their batches.  Those batches are not released, the
\* ones in X are cancelled, and only they and open batches have new totals.
LEMMA WithdrawRefines ==
  ASSUME BatchInv, NEW R \in SUBSET Payments, NEW X \in SUBSET Batches,
         inBatch' = Unlink(R), stubs' = stubs,
         bstatus' = [b \in Batches |-> IF b \in X THEN "CANCELLED" ELSE bstatus[b]],
         \A b \in X : /\ Members(b) # {} /\ Members(b) \subseteq R
                      /\ bstatus[b] # "PENDING_CFO",
         \A p \in R : inBatch[p] # NoBatch => bstatus[inBatch[p]] \notin ReleasedBatch,
         \A b \in Batches : \/ total'[b] = total[b]
                            \/ bstatus[b] \in OpenBatch
                            \/ Members(b) \cap R # {}
  PROVE  Control!Withdraw(R)
<1> DEFINE holds == [b \in Batches |-> Members(b)]
           touched == {b \in Batches : Members(b) \cap R # {}}
<1> USE DEF BatchInv, StateOK
<1>1. \A b \in touched : PhaseOf[b] \in {"open", "review", "cfo"}
  <2> SUFFICES ASSUME NEW b \in touched
               PROVE  PhaseOf[b] \in {"open", "review", "cfo"}
    OBVIOUS
  <2>1. PICK p \in R : inBatch[p] = b
    BY DEF Members
  <2>2. bstatus[b] \in OpenBatch \cup {"PENDING_SUPERVISOR_REVIEW", "PENDING_CFO"}
    BY <2>1, NullAssumption DEF HoldsOnlyOpened, BatchStatus
  <2> QED
    BY <2>2, PhaseValues DEF PhaseOf
<1>2. \A b \in Batches : Members(b)' = Members(b) \ R
  BY NullAssumption DEF Members, Unlink
<1>3. holds' = [b \in Batches |-> holds[b] \ R]
  BY <1>2
<1>4. X \in SUBSET touched
  OBVIOUS
<1>5. \A b \in X : PhaseOf[b] # "cfo" /\ holds'[b] = {}
  <2> SUFFICES ASSUME NEW b \in X
               PROVE  PhaseOf[b] # "cfo" /\ holds'[b] = {}
    OBVIOUS
  <2>1. holds'[b] = {}
    BY <1>3
  <2>2. PICK p \in R : inBatch[p] = b
    BY DEF Members
  <2>3. bstatus[b] \in OpenBatch \cup {"PENDING_SUPERVISOR_REVIEW"}
    BY <2>2, NullAssumption DEF HoldsOnlyOpened, BatchStatus
  <2>4. PhaseOf[b] \in {"open", "review"}
    BY <2>3, PhaseValues DEF PhaseOf
  <2> QED
    BY <2>1, <2>4
<1>6. PhaseOf' = [b \in Batches |-> IF b \in X THEN "cancelled" ELSE PhaseOf[b]]
  BY PhaseValues DEF PhaseOf
<1>7. Control!Reassessed(touched \cup {b \in Batches : PhaseOf[b] = "open"})
  <2>1. \A b \in Batches : bstatus[b] \in OpenBatch => PhaseOf[b] = "open"
    BY PhaseValues DEF PhaseOf
  <2>2. ASSUME NEW b \in Batches \ (touched \cup {c \in Batches : PhaseOf[c] = "open"})
        PROVE  total'[b] = total[b] /\ Members(b)' = Members(b)
    <3>1. b \in Batches /\ Members(b) \cap R = {} /\ PhaseOf[b] # "open"
      BY <2>2
    <3>2. total'[b] = total[b]
      BY <2>1, <3>1
    <3>3. Members(b)' = Members(b) \ R
      BY <1>2, <3>1
    <3> HIDE DEF holds, touched
    <3> QED
      BY <3>1, <3>2, <3>3
  <2> QED
    BY <2>2, OthersAsBefore
<1> QED
  BY <1>1, <1>3, <1>4, <1>5, <1>6, <1>7 DEF Control!Withdraw

\* The same, when no batch is cancelled.
LEMMA WithdrawOnlyRefines ==
  ASSUME BatchInv, NEW R \in SUBSET Payments,
         inBatch' = Unlink(R), UNCHANGED <<stubs, bstatus>>,
         \A p \in R : inBatch[p] # NoBatch => bstatus[inBatch[p]] \notin ReleasedBatch,
         \A b \in Batches : \/ total'[b] = total[b]
                            \/ bstatus[b] \in OpenBatch
                            \/ Members(b) \cap R # {}
  PROVE  Control!Withdraw(R)
<1> DEFINE X == {b \in Batches : FALSE}
<1>1. bstatus' = [b \in Batches |-> IF b \in X THEN "CANCELLED" ELSE bstatus[b]]
  BY DEF BatchInv, StateOK
<1>2. X \in SUBSET Batches /\ \A b \in X : FALSE
  OBVIOUS
<1> HIDE DEF X
<1> QED
  BY <1>1, <1>2, WithdrawRefines

\* The payments of a cancelled invoice leave their batches, which the handler
\* has found to be neither under review nor released.
LEMMA CancelInvoiceRefines ==
  ASSUME BatchInv, NEW i \in Invoices, CancelInvoice(i)
  PROVE  \E R \in SUBSET Payments : Control!Withdraw(R)
<1> DEFINE R == {p \in Payments : Owner[p] = i /\ pstatus[p] \in ActiveStatus}
<1> USE DEF BatchInv, StateOK
<1>1. inBatch' = Unlink(R) /\ UNCHANGED <<stubs, bstatus>>
  BY DEF CancelInvoice
<1>2. \A p \in R : inBatch[p] # NoBatch => bstatus[inBatch[p]] \notin ReleasedBatch
  BY DEF CancelInvoice, ActiveBatch, PaymentsOf
<1>3. \A b \in Batches : total'[b] = total[b] \/ bstatus[b] \in OpenBatch
  BY DEF CancelInvoice
<1>4. R \in SUBSET Payments
  OBVIOUS
<1> HIDE DEF R
<1> QED
  BY <1>1, <1>2, <1>3, <1>4, WithdrawOnlyRefines

\* Payments sent back from a batch leave it while it is in preparation or
\* under review; sending back the last one cancels it.
LEMMA ReturnInvoicesRefine ==
  ASSUME BatchInv, NEW b \in Batches, NEW R \in SUBSET Payments
  PROVE  /\ ReturnInvoicesFromBatch(b, R) => Control!Withdraw(R)
         /\ \A D \in SUBSET Payments :
              ReturnInvoicesInterrupted(b, R, D) => Control!Withdraw(R)
<1> USE DEF BatchInv, StateOK
<1>1. ASSUME Unlinked(b, R)
      PROVE  /\ inBatch' = Unlink(R) /\ R # {} /\ R \subseteq Members(b)
             /\ bstatus[b] # "PENDING_CFO"
             /\ \A p \in R : inBatch[p] # NoBatch => bstatus[inBatch[p]] \notin ReleasedBatch
  BY <1>1 DEF Unlinked, Members, OpenBatch, ReleasedBatch
<1>2. ASSUME ReturnInvoicesFromBatch(b, R)
      PROVE  Control!Withdraw(R)
  <2> DEFINE X == IF Members(b) \ R = {} THEN {b} ELSE {}
  <2>1. Unlinked(b, R) /\ stubs' = stubs
    BY <1>2 DEF ReturnInvoicesFromBatch
  <2>2. bstatus' = [c \in Batches |-> IF c \in X THEN "CANCELLED" ELSE bstatus[c]]
    BY <1>2 DEF ReturnInvoicesFromBatch
  <2>3. \A c \in Batches : total'[c] = total[c] \/ Members(c) \cap R # {}
    BY <1>1, <1>2, <2>1 DEF ReturnInvoicesFromBatch
  <2>4. \A c \in X : /\ Members(c) # {} /\ Members(c) \subseteq R
                     /\ bstatus[c] # "PENDING_CFO"
    BY <1>1, <2>1
  <2>5. X \in SUBSET Batches
    OBVIOUS
  <2> HIDE DEF X
  <2> QED
    BY <1>1, <2>1, <2>2, <2>3, <2>4, <2>5, WithdrawRefines
<1>3. ASSUME NEW D \in SUBSET Payments, ReturnInvoicesInterrupted(b, R, D)
      PROVE  Control!Withdraw(R)
  <2>1. Unlinked(b, R) /\ UNCHANGED <<stubs, bstatus, total>>
    BY <1>3 DEF ReturnInvoicesInterrupted, batchVars
  <2> QED
    BY <1>1, <2>1, WithdrawOnlyRefines
<1> QED
  BY <1>2, <1>3

\* Paying and confirming change the status of released batches only, and leave
\* them released: a confirmation finds endorsed payments nowhere else.
LEMMA ExecutionStutters ==
  ASSUME BatchInv, ExecutionStep
  PROVE  UNCHANGED Control!vars
<1> USE DEF BatchInv, StateOK
<1>1. ASSUME UNCHANGED <<inBatch, stubs, total>>, NEW b \in Batches,
             \/ bstatus' = bstatus
             \/ /\ bstatus[b] \in ReleasedBatch
                /\ \E s \in ReleasedBatch : bstatus' = [bstatus EXCEPT ![b] = s]
      PROVE  UNCHANGED Control!vars
  <2>1. PhaseOf' = PhaseOf
    BY <1>1, PhaseValues DEF PhaseOf
  <2> QED
    BY <1>1, <2>1 DEF Control!vars, Members, RequiresCfo
<1>2. ASSUME NEW p \in Payments, ProcessPayment(p)
      PROVE  UNCHANGED Control!vars
  BY <1>2, BatchesStill DEF ProcessPayment, batchVars
<1>3. ASSUME NEW b \in Batches, NEW D \in SUBSET Payments, ProcessPaymentBatch(b, D)
      PROVE  UNCHANGED Control!vars
  BY <1>1, <1>3 DEF ProcessPaymentBatch, ReleasedBatch
<1>4. ASSUME NEW b \in Batches, NEW S \in SUBSET Payments, NEW D \in SUBSET Payments,
             NEW c \in Confirmations, NEW r \in Refs,
             MatchPaymentConfirmation(b, S, D, c, r)
      PROVE  UNCHANGED Control!vars
  <2>1. PICK p \in Payments : inBatch[p] = b /\ pstatus[p] \in {"ENDORSED", "PARTIALLY_PAID"}
    BY <1>4 DEF MatchPaymentConfirmation, Members
  <2>2. bstatus[b] \in ReleasedBatch
    BY <2>1 DEF EndorsedOnlyInReleasedBatch
  <2>3. bstatus' = bstatus \/ bstatus' = [bstatus EXCEPT ![b] = "PROCESSED"]
    BY <1>4 DEF MatchPaymentConfirmation
  <2>4. UNCHANGED <<inBatch, stubs, total>>
    BY <1>4 DEF MatchPaymentConfirmation
  <2> QED
    BY <1>1, <2>2, <2>3, <2>4 DEF ReleasedBatch
<1> QED
  BY <1>2, <1>3, <1>4 DEF ExecutionStep

\* Of the invoice operations only a cancellation reaches a batch.
LEMMA InvoiceStepRefines ==
  ASSUME BatchInv, InvoiceStep
  PROVE  [Control!Next]_(Control!vars)
<1>1. PICK i \in Invoices :
        \/ ApproveLast(i)
        \/ RejectFromAccounting(i)
        \/ \E p \in Payments : SchedulePayment(i, p) \/ PostInvoice(i, p)
        \/ PostInvoiceUnscheduled(i)
        \/ PostInvoiceBlocked(i)
        \/ ReleaseFromHold(i)
        \/ HoldInvoiceForBatchThreshold(i)
        \/ UpdateInvoice(i)
        \/ \E s \in PatchedStatuses : UpdateInvoiceStatus(i, s)
        \/ ReprocessInvoice(i)
        \/ CancelInvoice(i)
  BY DEF InvoiceStep
<1>2. CASE CancelInvoice(i)
  BY <1>2, CancelInvoiceRefines DEF Control!Next
<1>3. CASE ~CancelInvoice(i)
  <2>1. UNCHANGED <<inBatch, bstatus, stubs, total>>
    BY <1>1, <1>3 DEF ApproveLast, RejectFromAccounting, SchedulePayment, PostInvoice,
       NewPayment, PostInvoiceUnscheduled, PostInvoiceBlocked, ReleaseFromHold,
       HoldInvoiceForBatchThreshold, UpdateInvoice, UpdateInvoiceStatus,
       ReprocessInvoice, payVars, batchVars
  <2> QED
    BY <2>1, BatchesStill
<1> QED
  BY <1>2, <1>3

\* Of the queue operations only the creation of a batch reaches one.
LEMMA QueueStepRefines ==
  ASSUME BatchInv, QueueStep
  PROVE  [Control!Next]_(Control!vars)
<1>1. ASSUME NEW u \in Users, NEW G \in SUBSET Payments, NEW b \in Batches,
             CreatePaymentBatch(u, G, b)
      PROVE  Control!Next
  BY <1>1, CreateRefines DEF Control!Next
<1>2. CASE ~\E u \in Users, G \in SUBSET Payments, b \in Batches : CreatePaymentBatch(u, G, b)
  <2>1. UNCHANGED <<inBatch, bstatus, stubs, total>>
    BY <1>2 DEF QueueStep, SelectPaymentForBatch, DeselectPaymentForBatch,
       MarkPaymentForPayment, HoldScheduledPayment, ApproveHeldPayment,
       SetBelowThresholdDecision, ExpireBelowThresholdHold, HoldGroupBelowThreshold,
       batchVars
  <2> QED
    BY <2>1, BatchesStill
<1> QED
  BY <1>1, <1>2

\* Each operation on a batch is an action of BatchControl, or leaves what it
\* sees as it was.
LEMMA BatchStepRefines ==
  ASSUME BatchInv, BatchStep
  PROVE  [Control!Next]_(Control!vars)
<1>1. PICK b \in Batches :
        \/ \E p \in Payments, c \in Charges : ApplyBankCharge(b, p, c)
        \/ \E p \in Payments : RemoveBankCharge(b, p) \/ EndorseBillStub(b, p)
        \/ UpdatePaymentBillsSetup(b)
        \/ SubmitPaymentBatchForReview(b)
        \/ ReviewPaymentBatch(b)
        \/ ReturnPaymentBatch(b) \/ RejectCfoPaymentBatch(b)
        \/ ApproveCfoPaymentBatch(b)
        \/ MarkPaymentBatchExported(b)
        \/ CancelPaymentBatch(b)
        \/ \E R \in SUBSET Payments : ReturnInvoicesFromBatch(b, R)
        \/ \E R, D \in SUBSET Payments : ReturnInvoicesInterrupted(b, R, D)
  BY DEF BatchStep
<1>2. CASE \/ \E p \in Payments, c \in Charges : ApplyBankCharge(b, p, c)
           \/ \E p \in Payments : RemoveBankCharge(b, p) \/ EndorseBillStub(b, p)
  BY <1>2, PreparationRefines DEF Control!Next
<1>3. CASE UpdatePaymentBillsSetup(b)
  BY <1>3, BatchesStill DEF UpdatePaymentBillsSetup, payVars
<1>4. CASE \/ SubmitPaymentBatchForReview(b)
           \/ ReviewPaymentBatch(b)
           \/ ReturnPaymentBatch(b) \/ RejectCfoPaymentBatch(b)
           \/ ApproveCfoPaymentBatch(b)
           \/ MarkPaymentBatchExported(b)
  BY <1>4, ReviewRefines DEF Control!Next
<1>5. CASE CancelPaymentBatch(b)
  BY <1>5, CancelRefines DEF Control!Next
<1>6. CASE \/ \E R \in SUBSET Payments : ReturnInvoicesFromBatch(b, R)
           \/ \E R, D \in SUBSET Payments : ReturnInvoicesInterrupted(b, R, D)
  BY <1>6, ReturnInvoicesRefine DEF Control!Next
<1> QED
  BY <1>1, <1>2, <1>3, <1>4, <1>5, <1>6

\* Every step of the program, or none, is a step of BatchControl or none.
LEMMA StepRefines ==
  ASSUME BatchInv, [Next]_vars
  PROVE  [Control!Next]_(Control!vars)
<1>1. CASE UNCHANGED vars
  BY <1>1, BatchesStill DEF vars
<1> QED
  BY <1>1, InvoiceStepRefines, QueueStepRefines, BatchStepRefines, ExecutionStutters
  DEF Next

-----------------------------------------------------------------------------
(* What BatchControl promises, for the batches of the program. *)

\* Payments that leave their batches break no promise.
LEMMA WithdrawStep ==
  ASSUME Control!Promise, NEW R \in SUBSET Payments, Control!Withdraw(R)
  PROVE  Control!Promise' /\ Control!ReleasedForGood /\ Control!HoldingsShrink
<1>1. Control!Typed /\ Control!Exclusive /\ Control!EmptyUnlessOpened /\ Control!Covered
  BY DEF Control!Promise
<1>2. \A b \in Batches : Members(b)' = Members(b) \ R
  BY DEF Control!Withdraw
<1>3. PICK B \in SUBSET Batches :
        /\ \A b \in B : Members(b)' = {} /\ PhaseOf[b] # "released"
        /\ PhaseOf' = [b \in Batches |-> IF b \in B THEN "cancelled" ELSE PhaseOf[b]]
  BY DEF Control!Withdraw
<1>4. \A b \in Batches : \/ PhaseOf'[b] = PhaseOf[b]
                          \/ /\ PhaseOf'[b] = "cancelled" /\ Members(b)' = {}
                             /\ PhaseOf[b] # "released"
  BY <1>3
<1>5. \A b \in Batches : PhaseOf[b] = "released" =>
        Members(b) \cap R = {} /\ (RequiresCfo(b)' <=> RequiresCfo(b))
  BY DEF Control!Withdraw, Control!Reassessed
<1>6. Control!Typed'
  <2>1. [b \in Batches |-> Members(b)]' \in [Batches -> SUBSET Payments]
    BY <1>1 DEF Control!Withdraw, Control!Typed
  <2>2. PhaseOf' \in [Batches -> Control!Phase]
    BY <1>1, <1>3 DEF Control!Typed, Control!Phase
  <2> QED
    BY <1>1, <2>1, <2>2 DEF Control!Typed, Control!Withdraw, Control!Reassessed
<1>7. Control!Exclusive'
  <2> SUFFICES ASSUME NEW b \in Batches, NEW c \in Batches, b # c
               PROVE  Members(b)' \cap Members(c)' = {}
    BY DEF Control!Exclusive
  <2>1. Members(b) \cap Members(c) = {}
    BY <1>1 DEF Control!Exclusive
  <2>2. Members(b)' \subseteq Members(b) /\ Members(c)' \subseteq Members(c)
    BY <1>2
  <2> QED
    BY <2>1, <2>2
<1>8. Control!EmptyUnlessOpened'
  <2> SUFFICES ASSUME NEW b \in Batches, PhaseOf'[b] \in {"none", "cancelled"},
                      PhaseOf'[b] = PhaseOf[b]
               PROVE  Members(b)' = {}
    BY <1>4 DEF Control!EmptyUnlessOpened
  <2> QED
    BY <1>1, <1>2 DEF Control!EmptyUnlessOpened
<1>9. Control!Covered'
  <2> SUFFICES ASSUME NEW b \in Batches, PhaseOf[b] \in {"review", "cfo", "released"}
               PROVE  Members(b)' \subseteq stubs
    BY <1>4 DEF Control!Covered, Control!Withdraw
  <2> QED
    BY <1>1, <1>2 DEF Control!Covered
<1>10. Control!ReleasedForGood
  <2>1. \A b \in Batches : PhaseOf[b] = "released" => Members(b)' = Members(b)
    BY <1>2, <1>5
  <2> QED
    BY <1>4, <1>5, <2>1 DEF Control!ReleasedForGood
<1> QED
  BY <1>2, <1>6, <1>7, <1>8, <1>9, <1>10 DEF Control!Promise, Control!HoldingsShrink

\* Every step keeps the promises, and releases nothing that it then changes.
LEMMA ControlStep ==
  ASSUME Control!Promise, [Control!Next]_(Control!vars)
  PROVE  Control!Promise' /\ Control!ReleasedForGood /\ Control!HoldingsShrink
<1> USE DEF Control!Promise, Control!Typed, Control!Exclusive, Control!EmptyUnlessOpened,
            Control!Covered, Control!ReleasedForGood, Control!HoldingsShrink,
            Control!Phase, Control!Reassessed
<1>1. ASSUME NEW b \in Batches, NEW G \in SUBSET Payments, Control!Create(b, G)
      PROVE  Control!Promise' /\ Control!ReleasedForGood /\ Control!HoldingsShrink
  <2>1. /\ PhaseOf[b] = "none" /\ PhaseOf' = [PhaseOf EXCEPT ![b] = "open"]
        /\ stubs' = stubs
        /\ \A c \in Batches : Members(c) \cap G = {}
    BY <1>1 DEF Control!Create
  <2>2. Members(b)' = G /\ \A c \in Batches \ {b} : Members(c)' = Members(c)
    BY <1>1 DEF Control!Create
  <2>3. \A c \in Batches \ {b} : RequiresCfo(c)' <=> RequiresCfo(c)
    BY <1>1 DEF Control!Create
  <2>4. PhaseOf'[b] = "open" /\ \A c \in Batches \ {b} : PhaseOf'[c] = PhaseOf[c]
    BY <2>1
  <2>5. Control!Typed'
    BY <2>1, <2>2
  <2>6. Control!Exclusive'
    <3> SUFFICES ASSUME NEW c \in Batches, NEW d \in Batches, c # d
                 PROVE  Members(c)' \cap Members(d)' = {}
      OBVIOUS
    <3>1. Members(c) \cap Members(d) = {}
      OBVIOUS
    <3> QED
      BY <2>1, <2>2, <3>1
  <2>7. Control!EmptyUnlessOpened' /\ Control!Covered'
    BY <2>1, <2>2, <2>4
  <2>8. Control!ReleasedForGood /\ Control!HoldingsShrink
    BY <2>1, <2>2, <2>3, <2>4
  <2> QED
    BY <2>5, <2>6, <2>7, <2>8
<1>2. ASSUME NEW b \in Batches, Control!Charge(b)
      PROVE  Control!Promise' /\ Control!ReleasedForGood /\ Control!HoldingsShrink
  BY <1>2 DEF Control!Charge
<1>3. ASSUME NEW b \in Batches,
             \/ Control!Submit(b) \/ Control!Review(b)
             \/ Control!Approve(b) \/ Control!Return(b)
      PROVE  Control!Promise' /\ Control!ReleasedForGood /\ Control!HoldingsShrink
  BY <1>3 DEF Control!Submit, Control!Review, Control!Approve, Control!Return
<1>4. ASSUME NEW b \in Batches, Control!Cancel(b)
      PROVE  Control!Promise' /\ Control!ReleasedForGood /\ Control!HoldingsShrink
  BY <1>4 DEF Control!Cancel
<1>5. ASSUME NEW p \in Payments, Control!File(p)
      PROVE  Control!Promise' /\ Control!ReleasedForGood /\ Control!HoldingsShrink
  BY <1>5 DEF Control!File
<1>6. ASSUME NEW R \in SUBSET Payments, Control!Withdraw(R)
      PROVE  Control!Promise' /\ Control!ReleasedForGood /\ Control!HoldingsShrink
  BY <1>6, WithdrawStep
<1>7. CASE UNCHANGED Control!vars
  BY <1>7 DEF Control!vars
<1> QED
  BY <1>1, <1>2, <1>3, <1>4, <1>5, <1>6, <1>7 DEF Control!Next

\* The promises hold from the start.
LEMMA ControlInit == Control!Init => Control!Promise
  BY DEF Control!Init, Control!Promise, Control!Typed, Control!Exclusive,
         Control!EmptyUnlessOpened, Control!Covered, Control!Phase

\* No operation writes the total of a batch that the CFO has, or that is
\* released or cancelled, and each batch keeps one.
TotalsBeforeRelease ==
  /\ DOMAIN total' = Batches
  /\ \A b \in Batches :
       bstatus[b] \in ReleasedBatch \cup {"PENDING_CFO", "CANCELLED"} => total'[b] = total[b]

\* Steps leave the totals of batches past the recalculation alone.
LEMMA TotalStep ==
  ASSUME BatchInv, [Next]_vars
  PROVE  TotalsBeforeRelease
<1> USE DEF TotalsBeforeRelease, BatchInv, payVars, batchVars, OpenBatch, ReleasedBatch
<1>1. CASE UNCHANGED vars
  BY <1>1 DEF vars
<1>2. CASE InvoiceStep
  <2>1. CASE \E i \in Invoices : CancelInvoice(i)
    BY <2>1 DEF CancelInvoice
  <2>2. CASE ~\E i \in Invoices : CancelInvoice(i)
    <3>1. total' = total
      BY <1>2, <2>2 DEF InvoiceStep, ApproveLast, RejectFromAccounting, SchedulePayment,
         PostInvoice, NewPayment, PostInvoiceUnscheduled, PostInvoiceBlocked,
         ReleaseFromHold, HoldInvoiceForBatchThreshold, UpdateInvoice,
         UpdateInvoiceStatus, ReprocessInvoice
    <3> QED
      BY <3>1
  <2> QED
    BY <2>1, <2>2
<1>3. CASE QueueStep
  BY <1>3 DEF QueueStep, SelectPaymentForBatch, DeselectPaymentForBatch,
     MarkPaymentForPayment, HoldScheduledPayment, ApproveHeldPayment,
     SetBelowThresholdDecision, ExpireBelowThresholdHold, HoldGroupBelowThreshold,
     CreatePaymentBatch, NewBatch
<1>4. CASE BatchStep
  <2>1. PICK b \in Batches :
          \/ \E p \in Payments, c \in Charges : ApplyBankCharge(b, p, c)
          \/ \E p \in Payments : RemoveBankCharge(b, p)
          \/ \E R \in SUBSET Payments : ReturnInvoicesFromBatch(b, R)
          \/ total' = total
    BY <1>4 DEF BatchStep, EndorseBillStub, UpdatePaymentBillsSetup,
       SubmitPaymentBatchForReview, ReviewPaymentBatch, ReturnPaymentBatch,
       ApproveCfoPaymentBatch, RejectCfoPaymentBatch, MarkPaymentBatchExported,
       CancelPaymentBatch, ReturnInvoicesInterrupted
  <2>2. CASE \/ \E p \in Payments, c \in Charges : ApplyBankCharge(b, p, c)
             \/ \E p \in Payments : RemoveBankCharge(b, p)
    BY <2>2 DEF ApplyBankCharge, RemoveBankCharge
  <2>3. CASE \E R \in SUBSET Payments : ReturnInvoicesFromBatch(b, R)
    BY <2>3 DEF ReturnInvoicesFromBatch, Unlinked
  <2> QED
    BY <2>1, <2>2, <2>3
<1>5. CASE ExecutionStep
  <2>1. ASSUME NEW p \in Payments, ProcessPayment(p)
        PROVE  total' = total
    BY <2>1 DEF ProcessPayment
  <2>2. ASSUME NEW b \in Batches, NEW D \in SUBSET Payments, ProcessPaymentBatch(b, D)
        PROVE  total' = total
    BY <2>2 DEF ProcessPaymentBatch
  <2>3. ASSUME NEW b \in Batches, NEW S \in SUBSET Payments, NEW D \in SUBSET Payments,
               NEW c \in Confirmations, NEW r \in Refs,
               MatchPaymentConfirmation(b, S, D, c, r)
        PROVE  total' = total
    BY <2>3 DEF MatchPaymentConfirmation
  <2> QED
    BY <1>5, <2>1, <2>2, <2>3 DEF ExecutionStep
<1> QED
  BY <1>1, <1>2, <1>3, <1>4, <1>5 DEF Next

\* The batch status and its phase say the same.
LEMMA StatusOfPhase ==
  ASSUME NEW s \in BatchStatus
  PROVE  /\ PhaseAt(s) = "released" <=> s \in ReleasedBatch
         /\ PhaseAt(s) = "cfo" <=> s = "PENDING_CFO"
         /\ PhaseAt(s) \in {"none", "cancelled"} <=> s \in {"NONE", "CANCELLED"}
         /\ PhaseAt(s) = "review" <=> s = "PENDING_SUPERVISOR_REVIEW"
  BY PhaseValues DEF BatchStatus, OpenBatch, ReleasedBatch

\* The initial state satisfies the invariant and the promises.
LEMMA BatchInit == Init => BatchInv /\ Control!Init
<1> SUFFICES ASSUME Init
             PROVE  BatchInv /\ Control!Init
  OBVIOUS
<1>1. BatchInv
  BY InitType DEF Init, BatchInv, EndorsedOnlyInReleasedBatch, HoldsOnlyOpened
<1>2. PhaseOf = [b \in Batches |-> "none"]
  BY PhaseValues DEF Init, PhaseOf
<1>3. [b \in Batches |-> Members(b)] = [b \in Batches |-> {}]
  BY NullAssumption DEF Init, Members
<1> QED
  BY <1>1, <1>2, <1>3 DEF Init, Control!Init

\* In a typed state, a batch without a phase to hold payments holds none.
LEMMA OpenedMeansHolds ==
  ASSUME StateOK
  PROVE  HoldsOnlyOpened <=> Control!EmptyUnlessOpened
  BY StatusOfPhase, NullAssumption
  DEF StateOK, HoldsOnlyOpened, Control!EmptyUnlessOpened, PhaseOf, Members

\* The CFO's approval is on record before a batch leaves PENDING_CFO, and is
\* never withdrawn.
CfoOnRecord ==
  /\ cfoApproved \subseteq cfoApproved'
  /\ \A b \in Batches : bstatus[b] = "PENDING_CFO" /\ bstatus'[b] \in ReleasedBatch =>
       b \in cfoApproved'

\* Steps keep the record of the CFO's approvals.
LEMMA CfoStep ==
  ASSUME BatchInv, [Next]_vars
  PROVE  CfoOnRecord
<1> USE DEF BatchInv, StateOK, CfoOnRecord
<1>1. CASE UNCHANGED <<bstatus, cfoApproved>>
  BY <1>1 DEF ReleasedBatch
<1>2. CASE InvoiceStep
  <2>1. UNCHANGED <<bstatus, cfoApproved>>
    BY <1>2 DEF InvoiceStep, ApproveLast, RejectFromAccounting, SchedulePayment,
       PostInvoice, NewPayment, PostInvoiceUnscheduled, PostInvoiceBlocked,
       ReleaseFromHold, HoldInvoiceForBatchThreshold, UpdateInvoice,
       UpdateInvoiceStatus, ReprocessInvoice, CancelInvoice, batchVars
  <2> QED
    BY <1>1, <2>1
<1>3. CASE QueueStep
  <2>1. CASE UNCHANGED <<bstatus, cfoApproved>>
    BY <1>1, <2>1
  <2>2. CASE \E u \in Users, G \in SUBSET Payments, b \in Batches : CreatePaymentBatch(u, G, b)
    BY <2>2 DEF CreatePaymentBatch, NewBatch, ReleasedBatch
  <2> QED
    BY <1>3, <2>1, <2>2 DEF QueueStep, SelectPaymentForBatch, DeselectPaymentForBatch,
       MarkPaymentForPayment, HoldScheduledPayment, ApproveHeldPayment,
       SetBelowThresholdDecision, ExpireBelowThresholdHold, HoldGroupBelowThreshold,
       batchVars
<1>4. CASE BatchStep
  <2>1. PICK b \in Batches :
          \/ UNCHANGED <<bstatus, cfoApproved>>
          \/ SubmitPaymentBatchForReview(b)
          \/ ReviewPaymentBatch(b)
          \/ ReturnPaymentBatch(b)
          \/ ApproveCfoPaymentBatch(b)
          \/ RejectCfoPaymentBatch(b)
          \/ MarkPaymentBatchExported(b)
          \/ CancelPaymentBatch(b)
          \/ \E R \in SUBSET Payments : ReturnInvoicesFromBatch(b, R)
    BY <1>4 DEF BatchStep, ApplyBankCharge, RemoveBankCharge, EndorseBillStub,
       UpdatePaymentBillsSetup, ReturnInvoicesInterrupted, batchVars
  <2>2. CASE ApproveCfoPaymentBatch(b)
    <3>1. /\ cfoApproved' = cfoApproved \cup {b}
          /\ \A c \in Batches \ {b} : bstatus'[c] = bstatus[c]
      BY <2>2 DEF ApproveCfoPaymentBatch
    <3> QED
      BY <3>1 DEF ReleasedBatch
  <2>3. CASE ~ApproveCfoPaymentBatch(b) /\ ~UNCHANGED <<bstatus, cfoApproved>>
    <3>1. cfoApproved' = cfoApproved
      BY <2>1, <2>3 DEF SubmitPaymentBatchForReview, ReviewPaymentBatch,
         ReturnPaymentBatch, RejectCfoPaymentBatch, MarkPaymentBatchExported,
         CancelPaymentBatch, ReturnInvoicesFromBatch
    <3>2. \A c \in Batches \ {b} : bstatus'[c] = bstatus[c]
      BY <2>1, <2>3 DEF SubmitPaymentBatchForReview, ReviewPaymentBatch,
         ReturnPaymentBatch, RejectCfoPaymentBatch, MarkPaymentBatchExported,
         CancelPaymentBatch, ReturnInvoicesFromBatch
    <3>3. bstatus[b] = "PENDING_CFO" => bstatus'[b] = "RETURNED_FOR_CORRECTION"
      BY <2>1, <2>3 DEF SubmitPaymentBatchForReview, ReviewPaymentBatch,
         ReturnPaymentBatch, RejectCfoPaymentBatch, MarkPaymentBatchExported,
         CancelPaymentBatch, ReturnInvoicesFromBatch, Unlinked, OpenBatch
    <3> QED
      BY <3>1, <3>2, <3>3 DEF ReleasedBatch
  <2> QED
    BY <1>1, <2>1, <2>2, <2>3
<1>5. CASE ExecutionStep
  <2>1. CASE \E p \in Payments : ProcessPayment(p)
    BY <1>1, <2>1 DEF ProcessPayment, batchVars
  <2>2. ASSUME NEW b \in Batches, bstatus[b] \in ReleasedBatch, cfoApproved' = cfoApproved,
               \A c \in Batches \ {b} : bstatus'[c] = bstatus[c]
        PROVE  CfoOnRecord
    BY <2>2 DEF ReleasedBatch
  <2>3. CASE \E b \in Batches, D \in SUBSET Payments : ProcessPaymentBatch(b, D)
    BY <2>2, <2>3 DEF ProcessPaymentBatch, ReleasedBatch
  <2>4. ASSUME NEW b \in Batches, NEW S \in SUBSET Payments, NEW D \in SUBSET Payments,
               NEW c \in Confirmations, NEW r \in Refs,
               MatchPaymentConfirmation(b, S, D, c, r)
        PROVE  CfoOnRecord
    <3>1. PICK p \in Payments : inBatch[p] = b /\ pstatus[p] \in {"ENDORSED", "PARTIALLY_PAID"}
      BY <2>4 DEF MatchPaymentConfirmation, Members
    <3>2. bstatus[b] \in ReleasedBatch
      BY <3>1 DEF EndorsedOnlyInReleasedBatch
    <3>3. cfoApproved' = cfoApproved /\ \A a \in Batches \ {b} : bstatus'[a] = bstatus[a]
      BY <2>4 DEF MatchPaymentConfirmation
    <3> QED
      BY <2>2, <3>2, <3>3
  <2> QED
    BY <1>5, <2>1, <2>3, <2>4 DEF ExecutionStep
<1> QED
  BY <1>1, <1>2, <1>3, <1>4, <1>5 DEF Next, vars

\* One step of the program, or none, keeps the invariant and the promises.
LEMMA BatchStepKept ==
  ASSUME BatchInv, Control!Promise, [Next]_vars
  PROVE  /\ BatchInv' /\ Control!Promise'
         /\ Control!ReleasedForGood /\ Control!HoldingsShrink
<1>1. /\ Control!Promise'
      /\ Control!ReleasedForGood /\ Control!HoldingsShrink
  BY StepRefines, ControlStep
<1>2. StateOK' /\ EndorsedOnlyInReleasedBatch'
  BY NextType, EndorsedStep DEF BatchInv
<1>3. (DOMAIN total = Batches)'
  BY TotalStep DEF TotalsBeforeRelease
<1>4. HoldsOnlyOpened'
  <2>1. Control!EmptyUnlessOpened'
    BY <1>1 DEF Control!Promise
  <2>2. (StateOK => (HoldsOnlyOpened <=> Control!EmptyUnlessOpened))'
    BY OpenedMeansHolds, PTL
  <2> QED
    BY <1>2, <2>1, <2>2
<1> QED
  BY <1>1, <1>2, <1>3, <1>4 DEF BatchInv

\* The invariant of the refinement holds, and with it the promises.
LEMMA BatchesKept == Spec => [](BatchInv /\ Control!Promise)
<1>1. Init => BatchInv /\ Control!Promise
  BY BatchInit, ControlInit
<1>2. BatchInv /\ Control!Promise /\ [Next]_vars => (BatchInv /\ Control!Promise)'
  BY BatchStepKept
<1> QED
  BY <1>1, <1>2, PTL DEF Spec

-----------------------------------------------------------------------------
(* Batch totals: a natural number, and never less than the payments counted. *)

\* The amounts of the payments, as of the revisions they were scheduled at.
AmountsAt(s) == [p \in Payments |-> Amount[Owner[p]][s[p]]]

\* A subtotal is a sum of those amounts.
LEMMA SubtotalIsSum ==
  ASSUME NEW S PROVE Subtotal(S) = SumFunctionOnSet(AmountsAt(snapshot), S)
BY DEF Subtotal, PaymentAmount, AmountsAt

\* Every set of payments is finite, and has amounts and charges to add.
LEMMA Summable ==
  ASSUME StateOK, NEW S \in SUBSET Payments
  PROVE  /\ IsFiniteSet(S)
         /\ \A p \in S : AmountsAt(snapshot)[p] \in Nat /\ charge[p] \in Nat
<1>1. IsFiniteSet(S)
  BY PaymentsAssumption, FS_Subset
<1>2. \A p \in Payments : AmountsAt(snapshot)[p] \in Nat
  BY OwnerAssumption, AmountAssumption DEF StateOK, AmountsAt
<1>3. \A p \in Payments : charge[p] \in Nat
  <2>1. \A p \in Payments : charge[p] \in Charges \cup {0}
    BY DEF StateOK
  <2>2. \A c \in Charges \cup {0} : c \in Nat
    BY MoneyAssumption
  <2> QED
    BY <2>1, <2>2
<1> QED
  BY <1>1, <1>2, <1>3

\* Subtotals and totals of charges are natural numbers.
LEMMA SubtotalType ==
  ASSUME StateOK, NEW S \in SUBSET Payments
  PROVE  Subtotal(S) \in Nat /\ ChargeTotal(S) \in Nat
BY Summable, SubtotalIsSum, SumIsNat DEF ChargeTotal

\* More payments have no smaller subtotal.
LEMMA SubtotalGrows ==
  ASSUME StateOK, NEW S \in SUBSET Payments, NEW T \in SUBSET S
  PROVE  Subtotal(T) <= Subtotal(S)
BY Summable, SubtotalIsSum, SumGrows

\* A charge is part of the total of the charges.
LEMMA ChargeIncluded ==
  ASSUME StateOK, NEW S \in SUBSET Payments, NEW p \in S
  PROVE  charge[p] \in Nat /\ charge[p] <= ChargeTotal(S)
<1>1. ChargeTotal(S) = charge[p] + SumFunctionOnSet(charge, S \ {p})
  <2>1. IsFiniteSet(S) /\ \A q \in S : charge[q] \in Nat
    BY Summable
  <2> QED
    BY <2>1, SumSplits DEF ChargeTotal
<1>2. SumFunctionOnSet(charge, S \ {p}) \in Nat
  <2>1. S \ {p} \in SUBSET Payments
    OBVIOUS
  <2> QED
    BY <2>1, Summable, SumIsNat
<1>3. charge[p] \in Nat
  BY Summable
<1> QED
  BY <1>1, <1>2, <1>3

\* The total of a batch is at least what its counted payments add up to.
TotalsCover == \A b \in Batches : Subtotal(Counted(b)) <= total[b]

\* A payment row that does not exist yet is in no batch.
UnmadeUnbatched == \A p \in Payments : pstatus[p] = "NONE" => inBatch[p] = NoBatch

\* The inductive invariant of the totals, besides BatchInv.
TotalInv == TypeOK /\ HoldsOnlyOpened /\ UnmadeUnbatched /\ TotalsCover

\* No step brings a payment row into a batch before it is made.
RowsMadeFirst ==
  \A p \in Payments : pstatus'[p] = "NONE" =>
    pstatus[p] = "NONE" /\ inBatch'[p] \in {inBatch[p], NoBatch}

\* A payment counted after the step was so before, at the same amount.
CountedBefore ==
  \A p \in Payments, b \in Batches :
    p \in Counted(b)' => p \in Counted(b) /\ snapshot'[p] = snapshot[p]

\* The total of a batch stands and covers what it counts, or is taken again from
\* payments that include those counted after the step.
TotalTaken(b) ==
  \/ total'[b] = total[b] /\ Counted(b)' \subseteq Counted(b)
  \/ \E X \in SUBSET Payments : /\ Counted(b)' \subseteq X
                                /\ total'[b] \in Nat
                                /\ Subtotal(X) <= total'[b]

\* What a step has to do for the totals.
TotalsKept ==
  /\ RowsMadeFirst
  /\ DOMAIN total' = Batches
  /\ total' = [b \in Batches |-> total'[b]]
  /\ \A b \in Batches : TotalTaken(b)
  /\ \A p \in Payments, b \in Batches : p \in Counted(b)' => snapshot'[p] = snapshot[p]

\* A step that does it keeps the totals.
LEMMA TotalsFromStep ==
  ASSUME TotalInv, StateOK', HoldsOnlyOpened', TotalsKept
  PROVE  TotalInv'
<1>1. UnmadeUnbatched'
  BY DEF TotalInv, UnmadeUnbatched, TotalsKept, RowsMadeFirst
<1>2. ASSUME NEW b \in Batches
      PROVE  total'[b] \in Nat /\ (Subtotal(Counted(b)) <= total[b])'
  <2>1. Counted(b)' \in SUBSET Payments /\ Counted(b) \in SUBSET Payments
    BY DEF Counted, Members
  <2>2. PICK X \in SUBSET Payments : /\ Counted(b)' \subseteq X
                                     /\ total'[b] \in Nat
                                     /\ Subtotal(X) <= total'[b]
    BY <2>1 DEF TotalsKept, TotalTaken, TotalInv, TotalsCover, TypeOK
  <2>3. Subtotal(Counted(b)') <= Subtotal(X)
    BY <2>2, SubtotalGrows DEF TotalInv, TypeOK
  <2>4. Subtotal(Counted(b))' = Subtotal(Counted(b)')
    <3>1. Subtotal(Counted(b))' = SumFunctionOnSet(AmountsAt(snapshot'), Counted(b)')
      BY DEF Subtotal, PaymentAmount, AmountsAt
    <3>2. \A p \in Counted(b)' : AmountsAt(snapshot')[p] = AmountsAt(snapshot)[p]
      BY <2>1 DEF TotalsKept, AmountsAt
    <3>3. IsFiniteSet(Counted(b)')
      BY <2>1, PaymentsAssumption, FS_Subset
    <3> QED
      BY <3>1, <3>2, <3>3, SubtotalIsSum, SumOfEqual
  <2>5. Subtotal(Counted(b)') \in Nat /\ Subtotal(X) \in Nat
    BY <2>1, <2>2, SubtotalType DEF TotalInv, TypeOK
  <2> QED
    BY <2>2, <2>3, <2>4, <2>5
<1>3. TotalsCover'
  BY <1>2 DEF TotalsCover
<1>4. (total \in [Batches -> Nat])'
  BY <1>2 DEF TotalsKept
<1> QED
  BY <1>1, <1>3, <1>4 DEF TotalInv, TypeOK

\* A step that writes no total and counts no payment anew keeps the totals.
LEMMA TotalsStand ==
  ASSUME TotalInv, total' = total, RowsMadeFirst, CountedBefore
  PROVE  TotalsKept
<1>1. total \in [Batches -> Nat]
  BY DEF TotalInv, TypeOK
<1>2. \A b \in Batches : Counted(b)' \subseteq Payments
  BY DEF Counted, Members
<1> QED
  BY <1>1, <1>2 DEF TotalsKept, TotalTaken, CountedBefore

\* Invoice operations: cancelling takes totals again, the others write none.
LEMMA InvoiceTotals ==
  ASSUME TotalInv, InvoiceStep
  PROVE  TotalsKept
<1> USE DEF RowsMadeFirst, CountedBefore, Counted, Members, payVars, batchVars
<1>1. PICK i \in Invoices :
        \/ CancelInvoice(i)
        \/ ReprocessInvoice(i)
        \/ \E p \in Payments : NewPayment(i, p)
        \/ UNCHANGED <<payVars, batchVars>>
  BY DEF InvoiceStep, ApproveLast, RejectFromAccounting, SchedulePayment, PostInvoice,
     PostInvoiceUnscheduled, PostInvoiceBlocked, ReleaseFromHold,
     HoldInvoiceForBatchThreshold, UpdateInvoice, UpdateInvoiceStatus
<1>2. CASE UNCHANGED <<payVars, batchVars>>
  BY <1>2, TotalsStand
<1>3. ASSUME NEW p \in Payments, NewPayment(i, p)
      PROVE  TotalsKept
  <2>1. inBatch'[p] = NoBatch /\ total' = total
    BY <1>3 DEF NewPayment, TotalInv, UnmadeUnbatched
  <2>2. RowsMadeFirst
    BY <1>3 DEF NewPayment, TotalInv, TypeOK, StateOK
  <2>3. \A q \in Payments \ {p} : pstatus'[q] = pstatus[q] /\ snapshot'[q] = snapshot[q]
    BY <1>3 DEF NewPayment, TotalInv, TypeOK, StateOK
  <2>4. inBatch' = inBatch /\ deadlines' = deadlines
    BY <1>3 DEF NewPayment
  <2>5. CountedBefore
    BY <2>1, <2>3, <2>4, NullAssumption
  <2> QED
    BY <2>1, <2>2, <2>5, TotalsStand
<1>4. CASE ReprocessInvoice(i)
  <2>1. RowsMadeFirst /\ CountedBefore /\ total' = total
    BY <1>4 DEF ReprocessInvoice
  <2> QED
    BY <2>1, TotalsStand
<1>5. CASE CancelInvoice(i)
  <2> DEFINE live(p) == Owner[p] = i /\ pstatus[p] \in ActiveStatus
             kept(b) == {p \in Members(b) : ~live(p) /\ pstatus[p] # "CANCELLED"}
             touched == {b \in Batches : /\ bstatus[b] \in OpenBatch
                                         /\ \E p \in PaymentsOf(i) : inBatch[p] = b}
  <2>1. /\ pstatus' = [p \in Payments |-> IF live(p) THEN "CANCELLED" ELSE pstatus[p]]
        /\ inBatch' = [p \in Payments |-> IF live(p) THEN NoBatch ELSE inBatch[p]]
        /\ total' = [b \in Batches |-> IF b \in touched THEN Subtotal(kept(b)) ELSE total[b]]
        /\ UNCHANGED <<snapshot, deadlines>>
    BY <1>5 DEF CancelInvoice, Unlink
  <2>2. \A b \in Batches : Counted(b)' \subseteq kept(b) /\ Counted(b)' \subseteq Counted(b)
    BY <2>1, NullAssumption
  <2>3. \A b \in Batches : kept(b) \in SUBSET Payments
    OBVIOUS
  <2>4. \A b \in Batches : Subtotal(kept(b)) \in Nat
    BY <2>3, SubtotalType DEF TotalInv, TypeOK
  <2>5. RowsMadeFirst
    BY <2>1
  <2> HIDE DEF kept, touched, live, RowsMadeFirst
  <2>6. \A b \in Batches : TotalTaken(b)
    BY <2>1, <2>2, <2>3, <2>4 DEF TotalTaken
  <2>7. DOMAIN total' = Batches /\ total' = [b \in Batches |-> total'[b]]
    BY <2>1
  <2> QED
    BY <2>1, <2>5, <2>6, <2>7 DEF TotalsKept
<1> QED
  BY <1>1, <1>2, <1>3, <1>4, <1>5

\* The queue: a new batch starts with what it is given, the rest writes no total.
LEMMA QueueTotals ==
  ASSUME TotalInv, QueueStep
  PROVE  TotalsKept
<1>1. CASE \E u \in Users, G \in SUBSET Payments, b \in Batches : CreatePaymentBatch(u, G, b)
  <2>1. PICK u \in Users, G \in SUBSET Payments, b \in Batches : CreatePaymentBatch(u, G, b)
    BY <1>1
  <2>2. Members(b) = {}
    BY <2>1, NullAssumption DEF CreatePaymentBatch, NewBatch, TotalInv, HoldsOnlyOpened, Members
  <2>3. /\ total' = [total EXCEPT ![b] = Subtotal(G)]
        /\ inBatch' = [p \in Payments |-> IF p \in G THEN b ELSE inBatch[p]]
        /\ UNCHANGED <<pstatus, snapshot, deadlines>>
        /\ \A p \in G : pstatus[p] = "SCHEDULED"
    BY <2>1 DEF CreatePaymentBatch
  <2>4. Counted(b)' \subseteq G
    BY <2>2, <2>3 DEF Counted, Members
  <2>5. \A c \in Batches \ {b} : Counted(c)' \subseteq Counted(c)
    BY <2>3 DEF Counted, Members
  <2>6. RowsMadeFirst
    BY <2>3 DEF RowsMadeFirst
  <2>7. /\ total' = [c \in Batches |-> total'[c]] /\ DOMAIN total' = Batches
        /\ total'[b] = Subtotal(G) /\ \A c \in Batches \ {b} : total'[c] = total[c]
    BY <2>3 DEF TotalInv, TypeOK
  <2>8. Subtotal(G) \in Nat
    BY SubtotalType DEF TotalInv, TypeOK
  <2>9. \A c \in Batches : TotalTaken(c)
    BY <2>4, <2>5, <2>7, <2>8 DEF TotalTaken
  <2> QED
    BY <2>3, <2>6, <2>7, <2>9 DEF TotalsKept
<1>2. CASE ~\E u \in Users, G \in SUBSET Payments, b \in Batches : CreatePaymentBatch(u, G, b)
  <2>1. UNCHANGED <<inBatch, snapshot, total>>
    BY <1>2 DEF QueueStep, SelectPaymentForBatch, DeselectPaymentForBatch,
       MarkPaymentForPayment, HoldScheduledPayment, ApproveHeldPayment,
       SetBelowThresholdDecision, ExpireBelowThresholdHold, HoldGroupBelowThreshold, batchVars
  <2>2. \A p \in Payments :
          \/ pstatus'[p] = pstatus[p] /\ (p \in deadlines => p \in deadlines')
          \/ /\ pstatus[p] \in {"SCHEDULED", "HELD_BELOW_100"} /\ pstatus'[p] # "NONE"
             /\ (p \in deadlines => p \in deadlines')
          \/ p \in deadlines' /\ pstatus'[p] # "NONE"
    BY <1>2 DEF QueueStep, SelectPaymentForBatch, DeselectPaymentForBatch,
       MarkPaymentForPayment, HoldScheduledPayment, ApproveHeldPayment,
       SetBelowThresholdDecision, ExpireBelowThresholdHold, HoldGroupBelowThreshold,
       TotalInv, TypeOK, StateOK
  <2>3. RowsMadeFirst /\ CountedBefore
    BY <2>1, <2>2 DEF RowsMadeFirst, CountedBefore, Counted, Members
  <2> QED
    BY <2>1, <2>3, TotalsStand
<1> QED
  BY <1>1, <1>2

\* A charge is applied or removed: the total is the members and their charges.
LEMMA ChargeTotals ==
  ASSUME TotalInv, NEW b \in Batches, NEW p \in Payments,
         (\E c \in Charges : ApplyBankCharge(b, p, c)) \/ RemoveBankCharge(b, p)
  PROVE  TotalsKept
<1> DEFINE M == Members(b)
<1>1. M \in SUBSET Payments /\ Subtotal(M) \in Nat /\ ChargeTotal(M) \in Nat
  <2>1. M \in SUBSET Payments
    BY DEF Members
  <2> HIDE DEF M
  <2> QED
    BY <2>1, SubtotalType DEF TotalInv, TypeOK
<1>2. p \in M /\ charge[p] \in Nat /\ charge[p] <= ChargeTotal(M)
  <2>1. p \in M
    BY DEF ApplyBankCharge, RemoveBankCharge, Members
  <2> HIDE DEF M
  <2> QED
    BY <1>1, <2>1, ChargeIncluded DEF TotalInv, TypeOK
<1>3. PICK t \in Nat : total' = [total EXCEPT ![b] = t] /\ Subtotal(M) <= t
  <2>1. CASE RemoveBankCharge(b, p)
    <3> DEFINE t == Subtotal(M) + ChargeTotal(M) - charge[p]
    <3>1. total' = [total EXCEPT ![b] = t]
      BY <2>1 DEF RemoveBankCharge
    <3>2. t \in Nat /\ Subtotal(M) <= t
      BY <1>1, <1>2
    <3> HIDE DEF t
    <3> QED
      BY <3>1, <3>2
  <2>2. CASE \E c \in Charges : ApplyBankCharge(b, p, c)
    <3>1. PICK c \in Charges : ApplyBankCharge(b, p, c)
      BY <2>2
    <3> DEFINE t == Subtotal(M) + ChargeTotal(M) + c
    <3>2. total' = [total EXCEPT ![b] = t]
      BY <3>1 DEF ApplyBankCharge
    <3>3. t \in Nat /\ Subtotal(M) <= t
      BY <1>1, MoneyAssumption
    <3> HIDE DEF t
    <3> QED
      BY <3>2, <3>3
  <2> QED
    BY <2>1, <2>2
<1>4. UNCHANGED <<pstatus, snapshot, inBatch, deadlines>>
  BY DEF ApplyBankCharge, RemoveBankCharge
<1>5. /\ RowsMadeFirst
      /\ \A c \in Batches : Counted(c)' = Counted(c) /\ Counted(c) \subseteq Members(c)
  BY <1>4 DEF RowsMadeFirst, Counted, Members
<1>6. /\ total' = [c \in Batches |-> total'[c]] /\ DOMAIN total' = Batches
      /\ total'[b] = t /\ \A c \in Batches \ {b} : total'[c] = total[c]
  BY <1>3 DEF TotalInv, TypeOK
<1>7. \A c \in Batches : TotalTaken(c)
  BY <1>1, <1>3, <1>5, <1>6 DEF TotalTaken
<1> QED
  BY <1>4, <1>5, <1>6, <1>7 DEF TotalsKept

\* Returning invoices takes the total again from the payments that stay.
LEMMA ReturnTotals ==
  ASSUME TotalInv, NEW b \in Batches, NEW R \in SUBSET Payments,
         ReturnInvoicesFromBatch(b, R)
  PROVE  TotalsKept
<1> DEFINE rest == Members(b) \ R
<1>1. /\ total' = [total EXCEPT ![b] = Subtotal(rest)]
      /\ pstatus' = [p \in Payments |-> IF p \in R THEN "SCHEDULED" ELSE pstatus[p]]
      /\ inBatch' = [p \in Payments |-> IF p \in R THEN NoBatch ELSE inBatch[p]]
      /\ UNCHANGED <<snapshot, deadlines>>
  BY DEF ReturnInvoicesFromBatch, Unlinked, Unlink
<1>2. /\ RowsMadeFirst
      /\ \A c \in Batches : Counted(c)' \subseteq Counted(c)
      /\ Counted(b)' \subseteq rest
  BY <1>1, NullAssumption DEF RowsMadeFirst, Counted, Members
<1>3. rest \in SUBSET Payments
  BY DEF Members
<1> HIDE DEF rest
<1>4. Subtotal(rest) \in Nat
  BY <1>3, SubtotalType DEF TotalInv, TypeOK
<1>5. /\ total' = [c \in Batches |-> total'[c]] /\ DOMAIN total' = Batches
      /\ total'[b] = Subtotal(rest) /\ \A c \in Batches \ {b} : total'[c] = total[c]
  BY <1>1 DEF TotalInv, TypeOK
<1>6. \A c \in Batches : TotalTaken(c)
  BY <1>2, <1>3, <1>4, <1>5 DEF TotalTaken
<1> QED
  BY <1>1, <1>2, <1>5, <1>6 DEF TotalsKept

\* Batch operations: charges and returns take the total again.
LEMMA BatchTotals ==
  ASSUME TotalInv, BatchStep
  PROVE  TotalsKept
<1>1. PICK b \in Batches :
        \/ \E p \in Payments : \/ \E c \in Charges : ApplyBankCharge(b, p, c)
                               \/ RemoveBankCharge(b, p)
        \/ \E R \in SUBSET Payments : ReturnInvoicesFromBatch(b, R)
        \/ \E p \in Payments : EndorseBillStub(b, p)
        \/ CancelPaymentBatch(b)
        \/ \E R, D \in SUBSET Payments : ReturnInvoicesInterrupted(b, R, D)
        \/ UNCHANGED <<payVars, total>>
  BY DEF BatchStep, UpdatePaymentBillsSetup, SubmitPaymentBatchForReview,
     ReviewPaymentBatch, ReturnPaymentBatch, ApproveCfoPaymentBatch,
     RejectCfoPaymentBatch, MarkPaymentBatchExported
<1> USE DEF RowsMadeFirst, CountedBefore, Counted, Members, payVars, batchVars
<1>2. CASE UNCHANGED <<payVars, total>>
  BY <1>2, TotalsStand
<1>3. ASSUME NEW p \in Payments, EndorseBillStub(b, p)
      PROVE  TotalsKept
  <2>1. RowsMadeFirst /\ CountedBefore /\ total' = total
    BY <1>3 DEF EndorseBillStub, TotalInv, TypeOK, StateOK
  <2> QED
    BY <2>1, TotalsStand
<1>4. CASE CancelPaymentBatch(b)
  <2>1. RowsMadeFirst /\ CountedBefore /\ total' = total
    BY <1>4, NullAssumption DEF CancelPaymentBatch, Unlink
  <2> QED
    BY <2>1, TotalsStand
<1>5. ASSUME NEW R \in SUBSET Payments, NEW D \in SUBSET Payments,
             ReturnInvoicesInterrupted(b, R, D)
      PROVE  TotalsKept
  <2>1. RowsMadeFirst /\ CountedBefore /\ total' = total
    BY <1>5, NullAssumption DEF ReturnInvoicesInterrupted, Unlinked, Unlink
  <2> QED
    BY <2>1, TotalsStand
<1> QED
  BY <1>1, <1>2, <1>3, <1>4, <1>5, ChargeTotals, ReturnTotals

\* Paying and confirming write no total and count no payment anew.
LEMMA ExecutionTotals ==
  ASSUME TotalInv, ExecutionStep
  PROVE  TotalsKept
<1> DEFINE LiveOnly == /\ UNCHANGED <<snapshot, inBatch, deadlines, total>>
                       /\ \A p \in Payments :
                            \/ pstatus'[p] = pstatus[p]
                            \/ pstatus[p] \notin {"NONE", "CANCELLED"} /\ pstatus'[p] # "NONE"
<1>1. LiveOnly
  <2>1. ASSUME NEW p \in Payments, ProcessPayment(p)
        PROVE  LiveOnly
    BY <2>1 DEF ProcessPayment, batchVars, TotalInv, TypeOK, StateOK
  <2>2. ASSUME NEW b \in Batches, NEW D \in SUBSET Payments, ProcessPaymentBatch(b, D)
        PROVE  LiveOnly
    BY <2>2 DEF ProcessPaymentBatch
  <2>3. ASSUME NEW b \in Batches, NEW S \in SUBSET Payments, NEW D \in SUBSET Payments,
               NEW c \in Confirmations, NEW r \in Refs,
               MatchPaymentConfirmation(b, S, D, c, r)
        PROVE  LiveOnly
    BY <2>3 DEF MatchPaymentConfirmation
  <2> QED
    BY <2>1, <2>2, <2>3 DEF ExecutionStep
<1>2. RowsMadeFirst /\ CountedBefore
  BY <1>1 DEF RowsMadeFirst, CountedBefore, Counted, Members
<1> QED
  BY <1>1, <1>2, TotalsStand

\* The totals hold at the start.
LEMMA TotalInit == Init => TotalInv
<1> SUFFICES ASSUME Init PROVE TotalInv
  OBVIOUS
<1>1. StateOK
  BY InitType
<1>2. TypeOK /\ HoldsOnlyOpened /\ UnmadeUnbatched
  BY <1>1 DEF Init, TypeOK, HoldsOnlyOpened, UnmadeUnbatched
<1>3. \A b \in Batches : Counted(b) = {} /\ total[b] = 0
  BY NullAssumption DEF Init, Counted, Members
<1>4. Subtotal({}) = 0
  BY SubtotalIsSum, SumOfNone
<1> QED
  BY <1>2, <1>3, <1>4 DEF TotalInv, TotalsCover

\* One step of the program, or none, keeps them.
LEMMA TotalInvKept ==
  ASSUME TotalInv, StateOK', HoldsOnlyOpened', [Next]_vars
  PROVE  TotalInv'
<1>1. CASE UNCHANGED vars
  BY <1>1 DEF vars, TotalInv, TypeOK, StateOK, HoldsOnlyOpened, UnmadeUnbatched,
     TotalsCover, Subtotal, PaymentAmount, Counted, Members
<1> QED
  BY <1>1, TotalsFromStep, InvoiceTotals, QueueTotals, BatchTotals, ExecutionTotals DEF Next

\* The totals hold in every state.
LEMMA TotalsHold == Spec => []TotalInv
<1>1. BatchInv /\ BatchInv' /\ TotalInv /\ [Next]_vars => TotalInv'
  BY TotalInvKept DEF BatchInv
<1> QED
  BY <1>1, TotalInit, BatchesKept, PTL DEF Spec

-----------------------------------------------------------------------------
(* Theorems. *)

\* The handlers of postingService, paymentBatchService, reprocessService and
\* invoiceService together implement the control the batches promise.
THEOREM BatchesImplementControl == Spec => BatchControlled
<1>1. Init => Control!Init
  BY BatchInit
<1>2. BatchInv /\ [Next]_vars => [Control!Next]_(Control!vars)
  BY StepRefines
<1> QED
  BY <1>1, <1>2, BatchesKept, PTL DEF Spec, BatchControlled, Control!Spec

\* While the totals cover the payments, the test of the review is what tells
\* whether a batch needs the CFO.
LEMMA ReviewTestIsEnough ==
  ASSUME TotalInv, NEW b \in Batches
  PROVE  NeedsCfo(b) <=> RequiresCfo(b)
<1>1. Counted(b) \in SUBSET Payments
  BY DEF Counted, Members
<1>2. Subtotal(Counted(b)) \in Nat /\ total[b] \in Nat /\ CfoThreshold \in Nat
  BY <1>1, SubtotalType, MoneyAssumption DEF TotalInv, TypeOK
<1>3. Subtotal(Counted(b)) <= total[b]
  BY DEF TotalInv, TotalsCover
<1> QED
  BY <1>2, <1>3 DEF NeedsCfo, RequiresCfo

\* A released batch that is at or above the threshold, by its total or by its
\* payments, or that has a flagged invoice, has been approved by the CFO, along
\* any return, correction and resubmission (reviewPaymentBatch's reading of
\* total_amount, which five handlers write).
THEOREM CfoGateHolds == Spec => []CfoGate
<1> DEFINE Gate == \A b \in Batches :
                     bstatus[b] \in ReleasedBatch /\ RequiresCfo(b) => b \in cfoApproved
<1>1. Init => Gate
  BY DEF Init, ReleasedBatch
<1>2. ASSUME BatchInv, Control!Promise, Gate, [Next]_vars
      PROVE  Gate'
  <2>1. Control!ReleasedForGood /\ StateOK /\ StateOK'
    BY <1>2, BatchStepKept DEF BatchInv
  <2>2. CfoOnRecord
    BY <1>2, CfoStep
  <2> SUFFICES ASSUME NEW b \in Batches, bstatus'[b] \in ReleasedBatch, RequiresCfo(b)'
               PROVE  b \in cfoApproved'
    OBVIOUS
  <2>3. PhaseOf'[b] = "released" /\ PhaseOf[b] = PhaseAt(bstatus[b])
    BY PhaseValues DEF PhaseOf
  <2>4. b \in {c \in Batches : RequiresCfo(c)}'
    OBVIOUS
  <2>5. \/ PhaseOf[b] = "released" /\ RequiresCfo(b)
        \/ PhaseOf[b] = "cfo"
    BY <2>1, <2>3, <2>4 DEF Control!ReleasedForGood
  <2>6. CASE PhaseOf[b] = "released" /\ RequiresCfo(b)
    <3>1. bstatus[b] \in ReleasedBatch
      BY <2>1, <2>3, <2>6, StatusOfPhase DEF StateOK
    <3>2. b \in cfoApproved
      BY <1>2, <2>6, <3>1
    <3> QED
      BY <2>2, <3>2 DEF CfoOnRecord
  <2>7. CASE PhaseOf[b] = "cfo"
    BY <2>1, <2>2, <2>3, <2>7, StatusOfPhase DEF CfoOnRecord, StateOK
  <2> QED
    BY <2>5, <2>6, <2>7
<1>3. TotalInv /\ Gate => CfoGate
  BY ReviewTestIsEnough DEF CfoGate
<1> QED
  BY <1>1, <1>2, <1>3, BatchesKept, TotalsHold, PTL DEF Spec

\* Every column of every table holds a value of its type, the batch totals too:
\* taking a charge back never makes one negative, and no handler stores a
\* status the schema does not have.
THEOREM TypesHold == Spec => []TypeOK
<1>1. TotalInv => TypeOK
  BY DEF TotalInv
<1> QED
  BY <1>1, TotalsHold, PTL

\* The total on record of a batch covers the payments the batch will pay,
\* through the five handlers that write it and the others that take payments
\* out, void them or bring them back.
THEOREM TotalsCoverPayments == Spec => []TotalsCover
<1>1. TotalInv => TotalsCover
  BY DEF TotalInv
<1> QED
  BY <1>1, TotalsHold, PTL

\* A released batch stays released, with the payments and the total its
\* reviewers saw: nothing joins it, leaves it, or is charged to it.
ReleasedBatchFrozen ==
  [][\A b \in Batches : bstatus[b] \in ReleasedBatch =>
       /\ bstatus'[b] \in ReleasedBatch
       /\ Members(b)' = Members(b)
       /\ total'[b] = total[b]]_vars

\* No handler changes the payments or the total of a released batch, or takes it
\* back (paymentBatchService.ts: the status checks of each, and cancellations,
\* which leave the batches after review alone).
THEOREM ReleasedBatchesStay == Spec => ReleasedBatchFrozen
<1> DEFINE KeepsReleased == \A b \in Batches : bstatus[b] \in ReleasedBatch =>
                        /\ bstatus'[b] \in ReleasedBatch
                        /\ Members(b)' = Members(b)
                        /\ total'[b] = total[b]
<1>1. ASSUME BatchInv, Control!Promise, [Next]_vars
      PROVE  KeepsReleased
  <2>1. Control!ReleasedForGood /\ StateOK /\ StateOK'
    BY <1>1, BatchStepKept DEF BatchInv
  <2> SUFFICES ASSUME NEW b \in Batches, bstatus[b] \in ReleasedBatch
               PROVE  /\ bstatus'[b] \in ReleasedBatch
                      /\ Members(b)' = Members(b)
                      /\ total'[b] = total[b]
    OBVIOUS
  <2>2. PhaseOf[b] = "released" /\ PhaseOf'[b] = PhaseAt(bstatus'[b])
    BY PhaseValues DEF PhaseOf
  <2>3. PhaseOf'[b] = "released" /\ Members(b)' = Members(b)
    BY <2>1, <2>2 DEF Control!ReleasedForGood
  <2>4. bstatus'[b] \in ReleasedBatch
    BY <2>1, <2>2, <2>3, StatusOfPhase DEF StateOK
  <2>5. total'[b] = total[b]
    BY <1>1, TotalStep DEF TotalsBeforeRelease
  <2> QED
    BY <2>3, <2>4, <2>5
<1>2. BatchInv /\ Control!Promise /\ [Next]_vars => [KeepsReleased]_vars
  BY <1>1
<1> QED
  BY <1>2, BatchesKept, PTL DEF Spec, ReleasedBatchFrozen

\* Every payment of a batch that is under review or released has an uploaded
\* bill stub, although the stub is filed before and the members change after.
ReviewedWithEvidence ==
  \A b \in Batches :
    bstatus[b] \in ReleasedBatch \cup {"PENDING_SUPERVISOR_REVIEW", "PENDING_CFO"} =>
      BillStubsUploaded(Members(b))

\* No batch is reviewed or released without the bill stub of each of its payments
\* (paymentBatchService.ts, the evidence gates of review and release).
THEOREM EvidenceForReviewedBatches == Spec => []ReviewedWithEvidence
<1>1. StateOK /\ Control!Covered => ReviewedWithEvidence
  BY PhaseValues DEF Control!Covered, ReviewedWithEvidence, BillStubsUploaded, PhaseOf
<1>2. BatchInv /\ Control!Promise => ReviewedWithEvidence
  BY <1>1 DEF BatchInv, Control!Promise
<1> QED
  BY <1>2, BatchesKept, PTL

\* A cancelled batch holds no payment, and none is held by a row that was
\* never created: cancelling always frees what can be paid elsewhere.
THEOREM CancelledBatchesHoldNothing == Spec => []HoldsOnlyOpened
<1>1. BatchInv => HoldsOnlyOpened
  BY DEF BatchInv
<1> QED
  BY <1>1, BatchesKept, PTL
=============================================================================
