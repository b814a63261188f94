----------------------------- MODULE MCJobQueues -----------------------------
(* The two queues of background work for TLC, which share no state: a run is  *)
(* one of the upload queue in memory or one of the queue of durable jobs in   *)
(* the database.                                                              *)
EXTENDS UploadQueue, DurableJobs

CONSTANTS j1, j2, k1, k2, w1, w2

VARIABLE queue      \* the queue that runs: "uploads", "durable"

MCInit == queue \in {"uploads", "durable"} /\ Init /\ JobsInit

MCNext ==
  /\ \/ queue = "uploads" /\ Next /\ UNCHANGED jobVars
     \/ queue = "durable" /\ JobsNext /\ UNCHANGED vars
  /\ UNCHANGED queue

\* The queue that does not run has nothing to do.
MCSpec == MCInit /\ [][MCNext]_<<vars, jobVars, queue>> /\ Fairness /\ JobsFairness
=============================================================================
