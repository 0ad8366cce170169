---------------------------- MODULE MCAdmission ----------------------------
(* RateLimiter and TierRouting on small instances for TLC.  A request meets*)
(* the limit of its client before its workload is routed, and neither step *)
(* depends on the other: the limiter runs beside one workload only, and    *)
(* every other workload is routed beside a limiter that has seen nobody.   *)
EXTENDS RateLimiter, TierRouting

CONSTANTS MCOrders, MCLimits

(* A limit of each kind, around the metrics of the inputs below.           *)
MCTiers ==
  [order: MCOrders, max_item_tokens: {1, 2}, max_total_tokens: MCLimits,
   max_batch_items: {1, 2}, max_attention_score: MCLimits,
   max_response_bytes: {2}]

(* Models without tiers, with one and with two, in any stored order.       *)
MCModels ==
  [image: BOOLEAN,
   tiers: {<< >>} \cup {<< t >> : t \in MCTiers} \cup (MCTiers \X MCTiers)]

(* Up to three items: an empty text, texts of 1 and 3 tokens, an image.    *)
MCInputs == BoundedSeq({0, 1, 3, ImageTokens}, 3)

MCInit == Init /\ RoutingInit

Limited == model.tiers = << >> /\ ~model.image /\ items = << >>

MCNext ==
  \/ Tick /\ Limited /\ UNCHANGED routingVars
  \/ \E c \in Clients : Check(c) /\ Limited /\ UNCHANGED routingVars
  \/ RefusesImage /\ UNCHANGED vars
  \/ NoTiers /\ UNCHANGED vars
  \/ TooLarge /\ UNCHANGED vars
  \/ SelectTier /\ UNCHANGED vars
  \/ ClaimWorker /\ UNCHANGED vars

MCSpec == MCInit /\ [][MCNext]_<< vars, routingVars >>

Symmetry == Permutations(Clients)
=============================================================================
