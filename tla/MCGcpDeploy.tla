---------------------------- MODULE MCGcpDeploy ----------------------------
(* GcpDeploy on small instances for TLC.                                   *)
EXTENDS GcpDeploy, TLC

Symmetry == Permutations(Deploys)
=============================================================================
