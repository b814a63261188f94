------------------------------ MODULE MCNextGen ------------------------------
(* The two parts of nextGenService for TLC, which share no state: a run is    *)
(* one of the client or one of the list of orders.                            *)
(*                                                                            *)
(* Of the client, three callers and one slot: one caller holds it, the others *)
(* queue behind it.  "form" stands for "read" too, which retries after fewer  *)
(* of the same replies.  Of the list, a lookup and two callers of the whole   *)
(* of it on a NextGen with up to three orders, and a window of two pages.     *)
EXTENDS NextGenClient, MPOCache

CONSTANTS c1, c2, c3, l1, s1, s2

MCKindsOf == (c1 :> {"form"}) @@ (c2 :> {"write"}) @@ (c3 :> {"writeForm"})

VARIABLE part       \* the part that runs: "client", "orders"

MCInit ==
  /\ part \in {"client", "orders"} /\ Init /\ InitCache
  /\ part = "client" => orders = MaxOrders

MCNext ==
  /\ \/ part = "client" /\ Next /\ UNCHANGED cacheVars
     \/ part = "orders" /\ NextCache /\ UNCHANGED vars
  /\ UNCHANGED part

MCFairness ==
  /\ \A c \in Callers : WF_vars(Continue(c))
  /\ \A w \in Workers : WF_cacheVars(ScanStep(w))

MCSpec == MCInit /\ [][MCNext]_<<vars, cacheVars, part>> /\ MCFairness
=============================================================================
