----------------------------- MODULE MCApproval -----------------------------
(* Instances of Approval for TLC: who has which role.                        *)
EXTENDS Approval, TLC

CONSTANTS c1, c2, m, a, sr

OneOfEach == c1 :> "COORDINATOR" @@ m :> "PURCHASING_MANAGER" @@ a :> Reviewer
TwoCoordinators == OneOfEach @@ c2 :> "COORDINATOR"
WithSenior == OneOfEach @@ sr :> "SR_MANAGER"
=============================================================================
