------------------------- MODULE MCPaymentPipeline -------------------------
(* Instances of PaymentPipeline for TLC: the functions a .cfg cannot write.  *)
EXTENDS PaymentPipeline, TLC

CONSTANTS i1, i2, p1, p2, v1, r1, r2

\* One payment row for each of two invoices, or a second row for the first.
OnePaymentEach == p1 :> i1 @@ p2 :> i2
BothForFirst == p1 :> i1 @@ p2 :> i1
OnlyForFirst == p1 :> i1

OneVendor == [i \in Invoices |-> v1]

\* Every invoice is worth 60 at every revision.
Sixty == [i \in Invoices |-> [r \in Revisions |-> 60]]
\* An edit takes an invoice below the low threshold.
SixtyThenForty == [i \in Invoices |-> [r \in Revisions |-> IF r = 0 THEN 60 ELSE 40]]

\* A second payment is scheduled, or the first is corrected: a run explores
\* both, and not the two together.
ReissuedOrCorrected ==
  \/ pstatus[p2] = "NONE"
  \/ /\ \A i \in Invoices : revision[i] = 0
     /\ \A p \in Payments : charge[p] = 0 /\ paid[p] % 60 = 0 /\ lastRef[p] # r2
                           /\ decision[p] = "NONE"
=============================================================================
