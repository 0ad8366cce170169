---------------------------- MODULE MCGcpGateway ----------------------------
(* GcpGateway on small instances for TLC: one entry has no worker.         *)
EXTENDS GcpGateway, TLC

CONSTANTS m1, m2, m3, a1, a2

MCModels == {m1, m2, m3}
MCUrl    == m1 :> a1 @@ m2 :> a2 @@ m3 :> None
=============================================================================
