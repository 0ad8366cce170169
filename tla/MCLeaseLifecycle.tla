-------------------------- MODULE MCLeaseLifecycle --------------------------
(* LeasePool and its history on a small instance for TLC, with a fair      *)
(* schedule.                                                               *)
EXTENDS LeaseHistory
=============================================================================
