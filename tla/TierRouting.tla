---------------------------- MODULE TierRouting ----------------------------
(***************************************************************************)
(* How the AWS gateway sends a workload to a tier of MicroVMs              *)
(* (app/aws/routing.ts), and which other tiers may serve it in its place   *)
(* (acquireCompatible, app/aws/gateway/pool.ts).                           *)
(*                                                                         *)
(* An item is its estimated token count, ImageTokens for an image.         *)
(***************************************************************************)
EXTENDS Integers, FiniteSetsExt, SequencesExt

CONSTANTS
  Models,       (* Sequences of tiers, in the order in which they are      *)
                (* stored, and whether the model takes images.             *)
  Inputs,       (* Sequences of items.                                     *)
  ItemBytes,    (* Predicted response bytes of an item: dimensions * 22    *)
                (* + 512.                                                  *)
  ImageTokens,  (* Number.MAX_SAFE_INTEGER.                                *)
  TokenUnit,    (* Tokens per predicted second (512).                      *)
  RuntimeCap    (* The longest predicted runtime (240).                    *)

Tier ==
  [order: Nat \ {0}, max_item_tokens: Nat, max_total_tokens: Nat,
   max_batch_items: Nat, max_attention_score: Nat, max_response_bytes: Nat]

ASSUME ModelsAssumption == Models \subseteq [image: BOOLEAN, tiers: Seq(Tier)]
ASSUME InputsAssumption == Inputs \subseteq Seq(Nat)
ASSUME UnitsAssumption ==
  /\ ItemBytes \in Nat /\ ImageTokens \in Nat \ {0}
  /\ TokenUnit \in Nat \ {0} /\ RuntimeCap \in Nat

VARIABLES
  model,      (* The model of the request.                                 *)
  items,      (* Its inputs.                                               *)
  tiers,      (* selection.tiers.                                          *)
  selected,   (* selection.selectedIndex, from 1; 0 when there is none.    *)
  outcome,    (* "none" before the selection; "selected", or the error.    *)
  served      (* The tier of the worker that was claimed, 0 before.        *)

routingVars == << model, items, tiers, selected, outcome, served >>

(* Selection and errors keep their domains, and an index points to a tier. *)
RoutingTypeOK ==
  /\ model \in Models /\ items \in Inputs
  /\ outcome \in {"none", "selected", "413", "422", "503"}
  /\ IF outcome = "selected"
     THEN selected \in DOMAIN tiers /\ served \in {0} \cup selected .. Len(tiers)
     ELSE selected = 0 /\ served = 0

-----------------------------------------------------------------------------
(* workloadMetrics.                                                        *)

HasImage(input) == \E n \in DOMAIN input : input[n] = ImageTokens

Total(counts) ==
  LET sum[n \in 0 .. Len(counts)] == IF n = 0 THEN 0 ELSE sum[n - 1] + counts[n]
  IN  sum[Len(counts)]

Metrics(input) ==
  [batchItems     |-> Len(input),
   maxTokens      |-> Max(ToSet(input) \cup {0}),
   totalTokens    |-> Total(input),
   attentionScore |-> Total([n \in DOMAIN input |-> input[n] * input[n]]),
   responseBytes  |-> Len(input) * ItemBytes]

-----------------------------------------------------------------------------
(* selectTier.                                                             *)

(* The aggregate limits: largestTierCanSafelyRun.                          *)
CanSafelyRun(tier, m) ==
  /\ m.totalTokens    <= tier.max_total_tokens
  /\ m.batchItems     <= tier.max_batch_items
  /\ m.attentionScore <= tier.max_attention_score
  /\ m.responseBytes  <= tier.max_response_bytes

TierAccepts(tier, m) ==
  m.maxTokens <= tier.max_item_tokens /\ CanSafelyRun(tier, m)

(* A stable sort by `order`: the n-th tier has n - 1 before it.            *)
Before(stored, i, j) ==
  stored[i].order < stored[j].order
    \/ (stored[i].order = stored[j].order /\ i < j)

Rank(stored, i) == 1 + Cardinality({j \in DOMAIN stored : Before(stored, j, i)})

Sorted(stored) ==
  [n \in DOMAIN stored |->
     stored[CHOOSE i \in DOMAIN stored : Rank(stored, i) = n]]

Accepting(sorted, m) == {n \in DOMAIN sorted : TierAccepts(sorted[n], m)}

(* Mutant: the most roomy tier is taken.                                   *)
EffectiveIndex_Last(sorted, m) ==
  IF Accepting(sorted, m) # {} THEN Max(Accepting(sorted, m)) ELSE Len(sorted)

(* The first tier that accepts the workload, or the largest one.           *)
EffectiveIndex(sorted, m) ==
  IF Accepting(sorted, m) # {} THEN Min(Accepting(sorted, m)) ELSE Len(sorted)

Refuse(error) ==
  /\ outcome' = error
  /\ UNCHANGED << model, items, tiers, selected, served >>

RefusesImage ==
  /\ outcome = "none"
  /\ HasImage(items) /\ ~model.image
  /\ Refuse("422")

NoTiers ==
  /\ outcome = "none"
  /\ ~(HasImage(items) /\ ~model.image)
  /\ model.tiers = << >>
  /\ Refuse("503")

(* Only aggregate limits reject: the largest tier truncates long items.    *)
Overload(sorted, m) ==
  Accepting(sorted, m) = {} /\ ~CanSafelyRun(sorted[Len(sorted)], m)

TooLarge ==
  /\ outcome = "none"
  /\ ~(HasImage(items) /\ ~model.image)
  /\ model.tiers # << >>
  /\ Overload(Sorted(model.tiers), Metrics(items))
  /\ Refuse("413")

SelectTier ==
  /\ outcome = "none"
  /\ ~(HasImage(items) /\ ~model.image)
  /\ model.tiers # << >>
  /\ ~Overload(Sorted(model.tiers), Metrics(items))
  /\ tiers' = Sorted(model.tiers)
  /\ selected' = EffectiveIndex(tiers', Metrics(items))
  /\ outcome' = "selected"
  /\ UNCHANGED << model, items, served >>

(* Mutant: smaller tiers lend their workers too.                           *)
ClaimWorker_AnyTier ==
  /\ outcome = "selected" /\ served = 0
  /\ served' \in DOMAIN tiers
  /\ UNCHANGED << model, items, tiers, selected, outcome >>

(* A ready worker of the selected tier or of a later one, or a new one of  *)
(* the selected tier.                                                      *)
ClaimWorker ==
  /\ outcome = "selected" /\ served = 0
  /\ served' \in selected .. Len(tiers)
  /\ UNCHANGED << model, items, tiers, selected, outcome >>

-----------------------------------------------------------------------------
(* predictRuntimeSeconds.                                                  *)

(* 4 / 2^(order - 1), but at least 1.                                      *)
TierFactor(tier) == IF tier.order < 3 THEN 4 \div tier.order ELSE 1

CeilDiv(a, b) == (a + b - 1) \div b

(* 0.35 is 7 / 20; everything is over the denominator 20 * TokenUnit^2.    *)
PredictRuntime(tier, m) ==
  Min({RuntimeCap,
       CeilDiv(40 * TokenUnit * TokenUnit
               + 20 * TokenUnit * m.maxTokens
               + 7 * TierFactor(tier) * m.attentionScore,
               20 * TokenUnit * TokenUnit)})

-----------------------------------------------------------------------------
RoutingInit ==
  /\ model \in Models /\ items \in Inputs
  /\ tiers = << >> /\ selected = 0
  /\ outcome = "none" /\ served = 0

RoutingNext == RefusesImage \/ NoTiers \/ TooLarge \/ SelectTier \/ ClaimWorker

RoutingSpec == RoutingInit /\ [][RoutingNext]_routingVars

-----------------------------------------------------------------------------
(* Safety.                                                                 *)

(* Limits grow with the order of the tiers, as in the built-in catalog.    *)
Monotone(sequence) ==
  \A i, j \in DOMAIN sequence :
    i <= j =>
      /\ sequence[i].max_total_tokens    <= sequence[j].max_total_tokens
      /\ sequence[i].max_batch_items     <= sequence[j].max_batch_items
      /\ sequence[i].max_attention_score <= sequence[j].max_attention_score
      /\ sequence[i].max_response_bytes  <= sequence[j].max_response_bytes

(* Also on a worker that a later tier lends, the work takes no longer than *)
(* the remaining life for which it was claimed, and, if every tier is at   *)
(* least as roomy as those before, "aggregate limits remain hard guards".  *)
LentTierSuffices ==
  served # 0 =>
    /\ Monotone(tiers) => CanSafelyRun(tiers[served], Metrics(items))
    /\ PredictRuntime(tiers[served], Metrics(items))
         <= PredictRuntime(tiers[selected], Metrics(items))

Accept == {t \in ToSet(model.tiers) : TierAccepts(t, Metrics(items))}

(* In whichever order the tiers are stored: no tier that is cheaper than   *)
(* the selected one accepts the workload; one that does not accept it is   *)
(* selected only if there is none that does; and work is refused as too    *)
(* large only if none does and the largest cannot run it safely.           *)
CheapestTier ==
  /\ outcome = "selected" =>
       \A t \in Accept :
         tiers[selected] \in Accept /\ tiers[selected].order <= t.order
  /\ outcome = "413" =>
       /\ Accept = {}
       /\ \A t \in ToSet(model.tiers) :
            (\A u \in ToSet(model.tiers) : u.order < t.order \/ u = t)
              => ~CanSafelyRun(t, Metrics(items))

=============================================================================
