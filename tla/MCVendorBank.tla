---------------------------- MODULE MCVendorBank ----------------------------
(* Two Supervisors, who may race each other, an Associate and a Coordinator; *)
(* one request of each kind.                                                 *)
EXTENDS VendorBank, TLC

CONSTANTS s1, s2, a, c, r1, r2, r3, v1, v2, h1, h2

MCKindOf == [r \in Requests |->
  CASE r = r1 -> "vendor" [] r = r2 -> "master" [] r = r3 -> "invoice"]

SameRole == Permutations(Supervisors) \cup Permutations(Values) \cup Permutations(Handlers)
=============================================================================
