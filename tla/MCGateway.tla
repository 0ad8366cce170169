----------------------------- MODULE MCGateway -----------------------------
(* Gateway on small instances for TLC.                                     *)
EXTENDS Gateway, TLC

Symmetry == Permutations(Requests) \cup Permutations(Workers)
=============================================================================
