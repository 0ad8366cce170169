-------------------------- MODULE MCDynamicBatcher --------------------------
(* DynamicBatcher on small instances for TLC.                              *)
EXTENDS DynamicBatcher, TLC

CONSTANTS j1, j2, j3

(* Two jobs that fill a batch of three together, and one that exceeds it.  *)
MCItems(j) == CASE j = j1 -> 1 [] j = j2 -> 2 [] j = j3 -> 4
=============================================================================
