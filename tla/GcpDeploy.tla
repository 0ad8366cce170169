----------------------------- MODULE GcpDeploy -----------------------------
(***************************************************************************)
(* deployment/gcp/deploy.py: runs of the deploy script, from one checkout, *)
(* against one registry and one Terraform state.  A run reads config.yaml  *)
(* and terraform.tfvars, hashes the inputs of every image, builds what the *)
(* registry does not hold under its hash, pins digests, clears stale       *)
(* deletion protection in the state and runs Terraform (main.tf).          *)
(*                                                                         *)
(* Runs overlap, die anywhere, and the checkout is edited under them.      *)
(***************************************************************************)
EXTENDS Naturals, FiniteSets

CONSTANTS
  Deploys,      (* Runs of the script.                                     *)
  Models,       (* Entries of config.yaml; each has a worker image.        *)
  Gateway,      (* The gateway's image and service.                        *)
  Latest,       (* The tag ":latest", which is no hash.                    *)
  Regions,      (* Values of region in terraform.tfvars.                   *)
  GpuModels,    (* Entries with gpu: true.                                 *)
  GpuRegions,   (* CLOUD_RUN_GPU_REGIONS.                                  *)
  GatedModels,  (* Entries with gated: true.                               *)
  HasToken,     (* HF_TOKEN is set.                                        *)
  Parallel,     (* --parallel.                                             *)
  Protect,      (* cloud_run_deletion_protection.                          *)
  Edits,        (* Bound: what may be edited, of "code", "models",         *)
                (* "region".                                               *)
  MaxEdits,     (* Bound: edits of the checkout.                           *)
  None          (* No image, no service, no lock.                          *)

ASSUME SetsAssumption ==
  /\ Gateway \notin Models
  /\ GpuModels \subseteq Models /\ GatedModels \subseteq Models
  /\ GpuRegions \subseteq Regions
ASSUME NumbersAssumption == Parallel \in Nat \ {0} /\ MaxEdits \in Nat
ASSUME FlagsAssumption == HasToken \in BOOLEAN /\ Protect \in BOOLEAN

(* What an image may be built from, a service may be and Terraform may be  *)
(* asked for.                                                              *)
Contents == [code: Nat, models: SUBSET Models]

Services ==
  [image: Contents, env: SUBSET Models, region: Regions,
   named: BOOLEAN, tainted: BOOLEAN, protected: BOOLEAN]

Goals == [image: Contents \cup {None}, env: SUBSET Models, region: Regions]

ASSUME NoneAssumption ==
  /\ None \notin Deploys
  /\ None \notin Contents /\ None \notin Services /\ None \notin Goals
ASSUME LatestAssumption == Latest \notin Contents

VARIABLES
  tree,      (* The checkout: code, entries of config.yaml, region.        *)
  registry,  (* The tags of each image, and what each was built from.      *)
  run,       (* Each run: how far it is, what it read, its images.         *)
  tf,        (* The Terraform state: serial and services.                  *)
  lock,      (* Who holds the lock of the Terraform state.                 *)
  rushed     (* History: the checkout was edited under a run whose builds  *)
             (* had not all started.                                       *)

vars == << tree, registry, run, tf, lock, rushed >>

Images == Models \cup {Gateway}

-----------------------------------------------------------------------------
(* A run that has not started.                                             *)
Idle ==
  [step |-> "idle", skip |-> FALSE, loaded |-> None,
   hashed |-> None, there |-> {}, image |-> << >>, pin |-> << >>,
   serial |-> 0, pulled |-> << >>, goal |-> << >>, drop |-> {},
   todo |-> {}, broken |-> {}]

Set(d, step) == run' = [run EXCEPT ![d].step = step]

(* What a run that ended had read does not matter any more.                *)
End(d, step) == run' = [run EXCEPT ![d] = [Idle EXCEPT !.step = step]]

-----------------------------------------------------------------------------
(* Identity of images.                                                     *)

(* What an image is built from.  Only the gateway's copies config.yaml; the*)
(* entry of a worker's model reaches it as build arguments.                *)
Inputs(i, t) ==
  [code |-> t.code, models |-> IF i = Gateway THEN t.models ELSE {i}]

(* Mutant: config.yaml is not among the gateway's hashed files.            *)
InputHash_NoConfig(i, t) ==
  [code |-> t.code, models |-> IF i = Gateway THEN {} ELSE {i}]

(* image_input_hash, in the tag ":h-<hash>".                               *)
InputHash(i, t) == Inputs(i, t)

Tagged(i, tags, built) ==
  registry' = [registry EXCEPT ![i] =
    [tag \in DOMAIN @ \cup tags |-> IF tag \in tags THEN built ELSE @[tag]]]

Found(i, tag) == IF tag \in DOMAIN registry[i] THEN registry[i][tag] ELSE None

HashedTag(d, i) == InputHash(i, run[d].hashed)

Specs(d) == run[d].loaded.models \cup {Gateway}

-----------------------------------------------------------------------------
(* main, up to the images.                                                 *)

GpuOk(t) == t.models \cap GpuModels # {} => t.region \in GpuRegions

(* validate_gcp_region, and validate_gated_models unless --skip-build.     *)
Accepted(skip) ==
  /\ GpuOk(tree)
  /\ skip \/ tree.models \cap GatedModels = {} \/ HasToken

Begin(d, skip) ==
  /\ run[d].step = "idle"
  /\ Accepted(skip)
  /\ run' = [run EXCEPT ![d].step = "hash", ![d].skip = skip,
                        ![d].loaded = tree]
  /\ UNCHANGED << tree, registry, tf, lock, rushed >>

(* A check fails; Hugging Face may also refuse the token.                  *)
Reject(d, skip) ==
  /\ run[d].step = "idle"
  /\ ~Accepted(skip) \/ (~skip /\ tree.models \cap GatedModels # {})
  /\ End(d, "failed")
  /\ UNCHANGED << tree, registry, tf, lock, rushed >>

(* --force-build, which only matters here, looks nothing up.               *)
Hash(d) ==
  /\ run[d].step = "hash"
  /\ \E force \in IF run[d].skip THEN {FALSE} ELSE BOOLEAN : run' = [run EXCEPT
       ![d].step   = "images",
       ![d].hashed = tree,
       ![d].image  = [i \in Specs(d) |-> IF force THEN "absent" ELSE "unknown"],
       ![d].pin    = [i \in Specs(d) |-> None],
       ![d].there  = {i \in Specs(d) : run[d].skip /\ Found(i, InputHash(i, tree)) # None}]
  /\ UNCHANGED << tree, registry, tf, lock, rushed >>

-----------------------------------------------------------------------------
(* build_images and resolve_deployment_images.                             *)

With(d, i, state) == run' = [run EXCEPT ![d].image[i] = state]

Pinned(d, i, digest) ==
  run' = [run EXCEPT ![d].image[i] = "pinned", ![d].pin[i] = digest]

In(d, i, state) == run[d].step = "images" /\ i \in Specs(d) /\ run[d].image[i] = state

LookedUp(d) == \A i \in Specs(d) : run[d].image[i] # "unknown"

(* Mutant: --skip-build prefers the primary tag.                           *)
Lookup_Primary(d, i) ==
  /\ In(d, i, "unknown")
  /\ LET tag == IF run[d].skip /\ Found(i, Latest) # None THEN Latest
                ELSE HashedTag(d, i)
     IN  IF Found(i, tag) = None THEN With(d, i, "absent") ELSE Pinned(d, i, Found(i, tag))
  /\ UNCHANGED << tree, registry, tf, lock, rushed >>

(* find_existing_images.                                                   *)
Lookup(d, i) ==
  /\ In(d, i, "unknown")
  /\ IF Found(i, HashedTag(d, i)) = None THEN With(d, i, "absent")
     ELSE Pinned(d, i, Found(i, HashedTag(d, i)))
  /\ UNCHANGED << tree, registry, tf, lock, rushed >>

(* Any error but "Image not found" ends the run.                           *)
LookupFails(d, i) ==
  /\ In(d, i, "unknown")
  /\ End(d, "failed")
  /\ UNCHANGED << tree, registry, tf, lock, rushed >>

(* --skip-build: the primary tag, if there is one.                         *)
Fallback(d, i) ==
  /\ run[d].skip /\ In(d, i, "absent") /\ LookedUp(d)
  /\ IF Found(i, Latest) = None THEN End(d, "failed")
     ELSE Pinned(d, i, Found(i, Latest))
  /\ UNCHANGED << tree, registry, tf, lock, rushed >>

(* A free worker of the pool runs build_and_push; buildx reads the checkout*)
(* as it is now.                                                           *)
Start(d, i) ==
  /\ ~run[d].skip /\ In(d, i, "absent") /\ LookedUp(d)
  /\ Cardinality({j \in Specs(d) : run[d].image[j] = "building"}) < Parallel
  /\ run' = [run EXCEPT ![d].image[i] = "building", ![d].pin[i] = Inputs(i, tree)]
  /\ UNCHANGED << tree, registry, tf, lock, rushed >>

(* Both tags are pushed; buildx leaves the digest in its metadata file, or *)
(* it does not and the tag is resolved.                                    *)
PushImage(d, i) ==
  /\ In(d, i, "building")
  /\ Tagged(i, {HashedTag(d, i), Latest}, run[d].pin[i])
  /\ With(d, i, "pinned") \/ With(d, i, "pushed")
  /\ UNCHANGED << tree, tf, lock, rushed >>

Resolve(d, i) ==
  /\ In(d, i, "pushed")
  /\ Pinned(d, i, Found(i, HashedTag(d, i)))
  /\ UNCHANGED << tree, registry, tf, lock, rushed >>

(* A build fails before its push, or between the two tags.                 *)
BuildFails(d, i) ==
  /\ In(d, i, "building")
  /\ With(d, i, "failed")
  /\ UNCHANGED registry \/ Tagged(i, {HashedTag(d, i)}, run[d].pin[i])
  /\ UNCHANGED << tree, tf, lock, rushed >>

(* The pool is joined; one failed build fails the run.  --plan only        *)
(* matters here.                                                           *)
ImagesDone(d) ==
  /\ run[d].step = "images"
  /\ \A i \in Specs(d) : run[d].image[i] \in {"pinned", "failed"}
  /\ IF \E i \in Specs(d) : run[d].image[i] = "failed" THEN End(d, "failed")
     ELSE Set(d, "plan") \/ Set(d, "pull")
  /\ UNCHANGED << tree, registry, tf, lock, rushed >>

-----------------------------------------------------------------------------
(* run_terraform.                                                          *)

(* terraform plan changes nothing; it needs the lock.                      *)
Plan(d) ==
  /\ run[d].step = "plan"
  /\ IF lock = None THEN End(d, "done") ELSE End(d, "failed")
  /\ UNCHANGED << tree, registry, tf, lock, rushed >>

(* What Terraform replaces: tainted, in another region, or under another   *)
(* name than expected_service_name.                                        *)
Replaced(svc, region) == svc.tainted \/ svc.region # region \/ ~svc.named

(* Mutant: tainted services are forgotten.                                 *)
Unlockable_Untainted(svc, region) ==
  svc # None /\ svc.protected /\ (svc.region # region \/ ~svc.named)

(* needs_replace.                                                          *)
Unlockable(svc, region) ==
  svc # None /\ svc.protected /\ Replaced(svc, region)

Unlocked(region) ==
  [i \in Images |-> IF Unlockable(tf.svc[i], region)
                    THEN [tf.svc[i] EXCEPT !.protected = FALSE] ELSE tf.svc[i]]

(* terraform state pull takes no lock.                                     *)
Pull(d) ==
  /\ run[d].step = "pull"
  /\ LET cleared == Unlocked(run[d].loaded.region)
     IN  IF cleared = tf.svc
         THEN run' = [run EXCEPT ![d].step = "apply", ![d].serial = tf.serial]
         ELSE run' = [run EXCEPT ![d].step = "push", ![d].serial = tf.serial + 1,
                                 ![d].pulled = cleared]
  /\ UNCHANGED << tree, registry, tf, lock, rushed >>

(* Mutant: terraform state push -force.                                    *)
PushAllowed_Forced(d) == lock = None

(* terraform state push: refused while the state is locked, and over a     *)
(* state that is newer or as new but different.                            *)
PushAllowed(d) ==
  /\ lock = None
  /\ \/ tf.serial < run[d].serial
     \/ tf.serial = run[d].serial /\ tf.svc = run[d].pulled

Push(d) ==
  /\ run[d].step = "push"
  /\ IF PushAllowed(d)
     THEN /\ tf' = [serial |-> run[d].serial, svc |-> run[d].pulled]
          /\ run' = [run EXCEPT ![d].step = "apply", ![d].pulled = << >>]
     ELSE End(d, "failed") /\ UNCHANGED tf
  /\ UNCHANGED << tree, registry, lock, rushed >>

(* main.tf, with config.yaml and terraform.tfvars as they are now and the  *)
(* digests of the run; a model the run did not know gets ":latest".        *)
Wanted(d, i) ==
  IF i # Gateway /\ i \notin tree.models THEN None
  ELSE [image  |-> IF i \in Specs(d) THEN run[d].pin[i] ELSE None,
        env    |-> IF i = Gateway THEN tree.models ELSE {},
        region |-> tree.region]

Kept(d) == {i \in Models : run[d].goal[i] # None}

(* terraform apply does not wait for the lock.  What is not wanted, and    *)
(* what is replaced, it destroys; what is wanted it creates or changes.    *)
ApplyBegin(d) ==
  /\ run[d].step = "apply"
  /\ IF lock = None
     THEN /\ lock' = d
          /\ run' = [run EXCEPT
               ![d].step = "applying",
               ![d].goal = [i \in Images |-> Wanted(d, i)],
               ![d].drop = {i \in Images : tf.svc[i] # None /\
                              (Wanted(d, i) = None \/ Replaced(tf.svc[i], tree.region))},
               ![d].todo = {i \in Images : Wanted(d, i) # None},
               ![d].broken = {}]
     ELSE End(d, "failed") /\ UNCHANGED lock
  /\ UNCHANGED << tree, registry, tf, rushed >>

(* Terraform writes the state after every change.                          *)
Written(i, svc) ==
  tf' = IF svc = tf.svc[i] THEN tf
        ELSE [serial |-> tf.serial + 1, svc |-> [tf.svc EXCEPT ![i] = svc]]

(* A gateway goes before the workers that its WORKER_URL_* refer to.       *)
Destroyable(d, i) ==
  i \in run[d].drop \ run[d].broken /\ (i # Gateway => Gateway \notin run[d].drop)

(* Protection stops what destroys.                                         *)
Destroy(d, i) ==
  /\ run[d].step = "applying" /\ Destroyable(d, i)
  /\ \/ /\ ~tf.svc[i].protected
        /\ Written(i, None)
        /\ run' = [run EXCEPT ![d].drop = @ \ {i}]
     \/ run' = [run EXCEPT ![d].broken = @ \cup {i}] /\ UNCHANGED tf
  /\ UNCHANGED << tree, registry, lock, rushed >>

(* Mutant: the gateway does not refer to the workers' URLs.                *)
Ready_Unordered(d, i) == i \in run[d].todo \ run[d].drop

(* Nothing is created before it is destroyed.  The gateway follows the     *)
(* workers that it calls and, if it was there, those that are destroyed.   *)
Ready(d, i) ==
  /\ i \in run[d].todo \ run[d].drop
  /\ i = Gateway =>
       /\ Kept(d) \cap (run[d].todo \cup run[d].broken) = {}
       /\ tf.svc[Gateway] # None => run[d].drop = {}

Service(i, want) ==
  [image |-> IF want.image = None THEN Found(i, Latest) ELSE want.image,
   env |-> want.env, region |-> want.region,
   named |-> TRUE, tainted |-> FALSE, protected |-> Protect]

(* What becomes of a service that is created or changed, and whether that  *)
(* succeeds; one that is created but not ready is tainted.                 *)
Outcomes(i, want) ==
  LET old == tf.svc[i]
      new == Service(i, want)
  IN  IF new.image = None THEN {<< old, FALSE >>}
      ELSE IF old = None THEN {<< new, TRUE >>, << None, FALSE >>,
                               << [new EXCEPT !.tainted = TRUE], FALSE >>}
      ELSE {<< new, TRUE >>} \cup (IF new = old THEN {} ELSE {<< old, FALSE >>})

ApplyService(d, i) ==
  /\ run[d].step = "applying" /\ Ready(d, i)
  /\ \E out \in Outcomes(i, run[d].goal[i]) :
       /\ Written(i, out[1])
       /\ run' = [run EXCEPT ![d].todo = @ \ {i},
                             ![d].broken = IF out[2] THEN @ ELSE @ \cup {i}]
  /\ UNCHANGED << tree, registry, lock, rushed >>

ApplyEnd(d) ==
  /\ run[d].step = "applying"
  /\ \A i \in Images : ~Destroyable(d, i) /\ ~Ready(d, i)
  /\ IF run[d].drop \cup run[d].todo \cup run[d].broken = {}
     THEN End(d, "done") ELSE End(d, "failed")
  /\ lock' = None
  /\ UNCHANGED << tree, registry, tf, rushed >>

-----------------------------------------------------------------------------
(* The world around.                                                       *)

(* The run is killed; Terraform, killed with it, may leave its lock.       *)
Abort(d) ==
  /\ run[d].step \notin {"idle", "done", "failed"}
  /\ End(d, "failed")
  /\ lock' \in IF lock = d THEN {d, None} ELSE {lock}
  /\ UNCHANGED << tree, registry, tf, rushed >>

Unstarted(d) ==
  /\ ~run[d].skip
  /\ \/ run[d].step = "hash"
     \/ /\ run[d].step = "images"
        /\ \E i \in Specs(d) : run[d].image[i] \in {"unknown", "absent"}

Edited(kind) ==
  {t \in [code: {tree.code, tree.code + 1}, models: SUBSET Models,
          region: Regions, edits: {tree.edits + 1}] :
     /\ (t.code # tree.code) <=> (kind = "code")
     /\ (t.models # tree.models) <=> (kind = "models")
     /\ (t.region # tree.region) <=> (kind = "region")}

Edit ==
  /\ tree.edits < MaxEdits
  /\ \E kind \in Edits : tree' \in Edited(kind)
  /\ rushed' = (rushed \/ \E d \in Deploys : Unstarted(d))
  /\ UNCHANGED << registry, run, tf, lock >>

-----------------------------------------------------------------------------
(* Nothing was ever deployed; or a fleet of an earlier version of the      *)
(* script was, from older code, without hash tags and under worker names   *)
(* that are not used any more; or this checkout was.                       *)
Init ==
  /\ tree \in [code: {1}, models: SUBSET Models, region: Regions, edits: {0}]
  /\ GpuOk(tree)
  /\ run = [d \in Deploys |-> Idle]
  /\ lock = None /\ rushed = FALSE
  /\ \E past \in {"nothing", "legacy", "current"} :
       LET fleet == IF past = "nothing" THEN {} ELSE tree.models \cup {Gateway}
           built(i) == Inputs(i, [tree EXCEPT !.code = IF past = "legacy" THEN 0 ELSE 1])
           tags(i)  == {Latest} \cup (IF past = "legacy" THEN {} ELSE {InputHash(i, tree)})
       IN  /\ registry = [i \in Images |->
                [tag \in IF i \in fleet THEN tags(i) ELSE {} |-> built(i)]]
           /\ tf = [serial |-> 0, svc |-> [i \in Images |->
                IF i \notin fleet THEN None
                ELSE [image |-> built(i),
                      env |-> IF i = Gateway THEN tree.models ELSE {},
                      region |-> tree.region,
                      named |-> i = Gateway \/ past = "current",
                      tainted |-> FALSE, protected |-> Protect]]]

Next ==
  \/ \E d \in Deploys :
       \/ \E skip \in BOOLEAN : Begin(d, skip) \/ Reject(d, skip)
       \/ Hash(d) \/ ImagesDone(d)
       \/ \E i \in Images :
            \/ Lookup(d, i) \/ LookupFails(d, i) \/ Fallback(d, i) \/ Start(d, i)
            \/ PushImage(d, i) \/ Resolve(d, i) \/ BuildFails(d, i)
            \/ Destroy(d, i) \/ ApplyService(d, i)
       \/ Plan(d) \/ Pull(d) \/ Push(d) \/ ApplyBegin(d) \/ ApplyEnd(d)
       \/ Abort(d)
  \/ Edit

Spec == Init /\ [][Next]_vars

-----------------------------------------------------------------------------
(* Safety.                                                                 *)

(* When Terraform succeeds and the checkout is still what the run read,    *)
(* exactly its fleet is deployed, in its region, and GPU workers where     *)
(* there are GPUs.  "Every image is content-addressed": unless --skip-build*)
(* was given or someone edited under builds that had yet to start, each    *)
(* service is on an image of the inputs in the checkout (the gateway's     *)
(* knows the models that are deployed), whatever was built, half pushed,   *)
(* applied or broken before or at the same time.                           *)
SuccessIsCheckout ==
  [][\A d \in Deploys :
       /\ run[d].step = "applying" /\ run'[d].step = "done"
       /\ run[d].loaded = tree
       => /\ GpuOk(tree)
          /\ \A i \in Images :
               IF i \in tree.models \cup {Gateway}
               THEN /\ tf.svc[i] # None /\ tf.svc[i].region = tree.region
                    /\ run[d].skip \/ rushed \/ tf.svc[i].image = Inputs(i, tree)
               ELSE tf.svc[i] = None]_vars

(* "Apply using the images already reviewed in the registry": a run with   *)
(* --skip-build pins the image of its inputs wherever there was one when it*)
(* looked, although :latest may have moved on meanwhile.                   *)
ReviewedIsApplied ==
  \A d \in Deploys :
    run[d].skip /\ ~rushed =>
      \A i \in run[d].there :
        run[d].image[i] = "pinned" => run[d].pin[i] = Inputs(i, run[d].hashed)

(* Clearing protection flags in a copy of the state, without a lock, never *)
(* undoes what another run's Terraform has done to the services.           *)
PushClearsFlagsOnly ==
  [][lock = None =>
       \A i \in Images :
         tf'.svc[i] # tf.svc[i] =>
           /\ tf.svc[i] # None
           /\ tf'.svc[i] = [tf.svc[i] EXCEPT !.protected = FALSE]]_vars

Routed(m) == tf.svc[Gateway] # None /\ m \in tf.svc[Gateway].env

(* No step of Terraform gives the gateway the URL of a worker that is not  *)
(* there, and a worker goes from under a URL only in an apply that has the *)
(* gateway still ahead of it: it comes back, or its URL goes.  An apply    *)
(* that fails or dies in between leaves the URL behind; one that succeeds, *)
(* on whatever it found and whoever edited the checkout, leaves none.      *)
NoDanglingRoute ==
  [][/\ \A m \in Models :
          Routed(m)' /\ tf'.svc[m] = None =>
            /\ Routed(m)
            /\ \/ tf.svc[m] = None
               \/ \E d \in Deploys : lock = d /\ Gateway \in run'[d].todo
     /\ \A d \in Deploys :
          run[d].step = "applying" /\ run'[d].step = "done" =>
            \A m \in Models : Routed(m)' => tf'.svc[m] # None]_vars

(* A service that Terraform is about to replace is not protected when the  *)
(* apply starts, unless someone wrote the state since or moved the region: *)
(* also when an earlier apply left it half created.                        *)
ReplaceTargetsUnlocked ==
  \A d \in Deploys :
    /\ run[d].step = "apply" /\ run[d].serial = tf.serial
    /\ run[d].loaded.region = tree.region
    => \A i \in Images :
         tf.svc[i] # None /\ Replaced(tf.svc[i], tree.region) => ~tf.svc[i].protected

=============================================================================
