---------------------------- MODULE BatchControl ----------------------------
(* What the batches promise to the people who release money: a payment is in *)
(* one batch at most, a batch takes in nothing after its creation, it loses  *)
(* payments only before it is released, and it is released by a Supervisor,  *)
(* and by the CFO when it is large, over evidence for every payment in it.   *)
(* PaymentPipeline implements this specification (BatchControlled).          *)
EXTENDS FiniteSets

CONSTANTS Payments, Batches

VARIABLES
  phase,      \* how far each batch has come
  holds,      \* the payments in each batch
  evidence,   \* payments with a bill stub file
  large       \* batches that need the CFO

vars == <<phase, holds, evidence, large>>

Phase == {"none", "open", "review", "cfo", "released", "cancelled"}

\* Only the batches of B are assessed again.
Reassessed(B) == large' \subseteq Batches /\ large' \ B = large \ B

Init ==
  /\ phase = [b \in Batches |-> "none"]
  /\ holds = [b \in Batches |-> {}]
  /\ evidence = {}
  /\ large \subseteq Batches

Create(b, G) ==
  /\ phase[b] = "none" /\ G # {}
  /\ \A c \in Batches : holds[c] \cap G = {}
  /\ phase' = [phase EXCEPT ![b] = "open"]
  /\ holds' = [holds EXCEPT ![b] = G]
  /\ Reassessed({b})
  /\ UNCHANGED evidence

\* A bank charge is added or removed.
Charge(b) ==
  /\ phase[b] = "open"
  /\ Reassessed({b})
  /\ UNCHANGED <<phase, holds, evidence>>

File(p) ==
  /\ evidence' = evidence \cup {p}
  /\ UNCHANGED <<phase, holds, large>>

Submit(b) ==
  /\ phase[b] = "open"
  /\ holds[b] # {} /\ holds[b] \subseteq evidence
  /\ phase' = [phase EXCEPT ![b] = "review"]
  /\ UNCHANGED <<holds, evidence, large>>

Review(b) ==
  /\ phase[b] = "review"
  /\ phase' = [phase EXCEPT ![b] = IF b \in large THEN "cfo" ELSE "released"]
  /\ UNCHANGED <<holds, evidence, large>>

Approve(b) ==
  /\ phase[b] = "cfo"
  /\ phase' = [phase EXCEPT ![b] = "released"]
  /\ UNCHANGED <<holds, evidence, large>>

Return(b) ==
  /\ phase[b] \in {"review", "cfo"}
  /\ phase' = [phase EXCEPT ![b] = "open"]
  /\ UNCHANGED <<holds, evidence, large>>

Cancel(b) ==
  /\ phase[b] \in {"open", "review"}
  /\ phase' = [phase EXCEPT ![b] = "cancelled"]
  /\ holds' = [holds EXCEPT ![b] = {}]
  /\ Reassessed({b})
  /\ UNCHANGED evidence

\* Payments leave their batches, which are cancelled when that empties them,
\* unless the withdrawal breaks off or an invoice is cancelled.  Cancelling an
\* invoice also reassesses open batches that list a payment it voided before.
Withdraw(R) ==
  LET touched == {b \in Batches : holds[b] \cap R # {}}
  IN /\ \A b \in touched : phase[b] \in {"open", "review", "cfo"}
     /\ holds' = [b \in Batches |-> holds[b] \ R]
     /\ \E B \in SUBSET touched :
           /\ \A b \in B : phase[b] # "cfo" /\ holds'[b] = {}
           /\ phase' = [b \in Batches |-> IF b \in B THEN "cancelled" ELSE phase[b]]
     /\ Reassessed(touched \cup {b \in Batches : phase[b] = "open"})
     /\ UNCHANGED evidence

Next ==
  \/ \E b \in Batches :
        \/ \E G \in SUBSET Payments : Create(b, G)
        \/ Charge(b) \/ Submit(b) \/ Review(b) \/ Approve(b) \/ Return(b) \/ Cancel(b)
  \/ \E p \in Payments : File(p)
  \/ \E R \in SUBSET Payments : Withdraw(R)

Spec == Init /\ [][Next]_vars

-----------------------------------------------------------------------------
(* What follows from these steps. *)

Typed ==
  /\ phase \in [Batches -> Phase]
  /\ holds \in [Batches -> SUBSET Payments]
  /\ evidence \subseteq Payments
  /\ large \subseteq Batches

\* A payment is in one batch at most.
Exclusive == \A b, c \in Batches : b # c => holds[b] \cap holds[c] = {}

\* A batch that is not created yet, or is cancelled, holds nothing.
EmptyUnlessOpened == \A b \in Batches : phase[b] \in {"none", "cancelled"} => holds[b] = {}

\* Whatever is under review or released has evidence for all of it.
Covered ==
  \A b \in Batches : phase[b] \in {"review", "cfo", "released"} => holds[b] \subseteq evidence

Promise == Typed /\ Exclusive /\ EmptyUnlessOpened /\ Covered

\* What is released stays so, with the same payments and the same assessment;
\* it was under review and small, or with the CFO, when it was released.
ReleasedForGood ==
  \A b \in Batches :
    /\ phase[b] = "released" =>
         phase'[b] = "released" /\ holds'[b] = holds[b] /\ (b \in large' <=> b \in large)
    /\ phase'[b] = "released" =>
         \/ phase[b] \in {"released", "cfo"}
         \/ phase[b] = "review" /\ b \notin large'

\* The payments of a batch that is not created anew only become fewer.
HoldingsShrink == \A b \in Batches : phase[b] # "none" => holds'[b] \subseteq holds[b]
=============================================================================
