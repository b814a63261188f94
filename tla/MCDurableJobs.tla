--------------------------- MODULE MCDurableJobs ---------------------------
(* The rows and workers of the TLC instances of DurableJobs.                 *)
EXTENDS DurableJobs

CONSTANTS k1, k2, w1, w2
=============================================================================
