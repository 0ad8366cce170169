---------------------------- MODULE MCLeasePool ----------------------------
(* LeasePool on a small instance for TLC.                                  *)
EXTENDS LeasePool, TLC

Symmetry == Permutations(Requests) \cup Permutations(Instances)
=============================================================================
