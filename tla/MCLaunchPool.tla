---------------------------- MODULE MCLaunchPool ----------------------------
(* LaunchPool on small instances for TLC.                                  *)
EXTENDS LaunchPool, TLC

Symmetry == Permutations(Calls)
=============================================================================
