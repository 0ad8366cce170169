-------------------------- MODULE GcpDeployProofs --------------------------
(***************************************************************************)
(* What deploy.py promises, whatever the number of runs, models, regions   *)
(* and edits.  A run that clears protection flags in a copy of the state   *)
(* undoes nothing of what other runs have done; a successful apply is the  *)
(* checkout; --skip-build deploys what was reviewed; what is replaced is   *)
(* not protected; a route leads to nowhere only while the gateway's change *)
(* is still ahead.                                                         *)
(*                                                                         *)
(* IInv says what a run may hold on to: the copy that it is about to push  *)
(* is the state with flags cleared, as long as the serial number is the one*)
(* it was pulled with; and whoever applies holds the lock.  DInv adds what *)
(* a run has read and pinned, what is in the registry under a hash, and    *)
(* which services Terraform is done with.                                  *)
(***************************************************************************)
EXTENDS GcpDeploy, TLAPS

Cleared(svc, old) == old # None /\ svc = [old EXCEPT !.protected = FALSE]

Shaped ==
  /\ DOMAIN run = Deploys
  /\ \A d \in Deploys : DOMAIN run[d] = DOMAIN Idle

(* While d applies, the lock is its own.                                   *)
Locked(d) == run[d].step = "applying" => lock = d

(* What d is about to push.                                                *)
Copied(d) ==
  run[d].step = "push" =>
    /\ run[d].serial \in Nat /\ run[d].serial <= tf.serial + 1
    /\ run[d].serial = tf.serial + 1 =>
         \A i \in Images : \/ run[d].pulled[i] = tf.svc[i]
                           \/ Cleared(run[d].pulled[i], tf.svc[i])

IInv ==
  /\ Shaped /\ tf.serial \in Nat
  /\ \A d \in Deploys : Locked(d) /\ Copied(d)

(* A step that concerns the run d only.                                    *)
StepOf(d) == Shaped' /\ \A e \in Deploys \ {d} : run'[e] = run[e]

(* The state is what it was, or newer.                                     *)
Advances ==
  /\ tf'.serial \in Nat
  /\ \/ tf'.serial = tf.serial /\ tf'.svc = tf.svc
     \/ tf'.serial > tf.serial

-----------------------------------------------------------------------------
(* The fields of a run.                                                    *)

LEMMA FieldsOfRun ==
  DOMAIN Idle = {"step", "skip", "loaded", "hashed", "there", "image", "pin",
                 "serial", "pulled", "goal", "drop", "todo", "broken"}
BY DEF Idle

LEMMA Ends ==
  ASSUME Shaped, NEW d \in Deploys, NEW step, End(d, step)
  PROVE  StepOf(d) /\ run'[d].step = step
BY FieldsOfRun DEF Shaped, End, Idle, StepOf

LEMMA Sets ==
  ASSUME Shaped, NEW d \in Deploys, NEW step, Set(d, step)
  PROVE  StepOf(d) /\ run'[d].step = step
BY FieldsOfRun DEF Shaped, Set, StepOf

LEMMA Withs ==
  ASSUME Shaped, NEW d \in Deploys, NEW i, NEW state, With(d, i, state)
  PROVE  StepOf(d) /\ run'[d].step = run[d].step
BY FieldsOfRun DEF Shaped, With, StepOf

LEMMA Pins ==
  ASSUME Shaped, NEW d \in Deploys, NEW i, NEW digest, Pinned(d, i, digest)
  PROVE  StepOf(d) /\ run'[d].step = run[d].step
BY FieldsOfRun DEF Shaped, Pinned, StepOf

-----------------------------------------------------------------------------
(* The steps of one run.                                                   *)

(* Another run's step leaves alone what is said of e, if the lock does.    *)
LEMMA OthersKeep ==
  ASSUME IInv, NEW d \in Deploys, StepOf(d), Advances,
         NEW e \in Deploys \ {d}, lock' = lock \/ lock \in {d, None}
  PROVE  Locked(e)' /\ Copied(e)'
<1>1. run'[e] = run[e]
  BY DEF StepOf
<1>2. Locked(e) /\ Copied(e)
  BY DEF IInv
<1>3. Locked(e)'
  BY <1>1, <1>2, NoneAssumption DEF Locked
<1>4. Copied(e)'
  <2>1. CASE tf'.serial = tf.serial /\ tf'.svc = tf.svc
    BY <1>1, <1>2, <2>1 DEF Copied
  <2>2. CASE tf'.serial > tf.serial
    BY <1>1, <1>2, <2>2 DEF Copied, IInv, Advances
  <2> QED
    BY <2>1, <2>2 DEF Advances
<1> QED
  BY <1>3, <1>4

(* Before and after Terraform: neither the state nor the lock changes.     *)
LEMMA QuietStep ==
  ASSUME IInv, NEW d \in Deploys, StepOf(d), tf' = tf, lock' = lock,
         run'[d].step \notin {"push", "applying"}
  PROVE  IInv'
<1>1. Advances
  BY DEF IInv, Advances
<1>2. \A e \in Deploys \ {d} : Locked(e)' /\ Copied(e)'
  BY <1>1, OthersKeep
<1>3. Locked(d)' /\ Copied(d)'
  BY DEF Locked, Copied
<1> QED
  BY <1>2, <1>3 DEF IInv, StepOf

LEMMA ImageSteps ==
  ASSUME IInv, NEW d \in Deploys, NEW i \in Images,
         \/ Lookup(d, i) \/ LookupFails(d, i) \/ Fallback(d, i) \/ Start(d, i)
         \/ PushImage(d, i) \/ Resolve(d, i) \/ BuildFails(d, i)
  PROVE  IInv' /\ UNCHANGED tf
<1>0. Shaped
  BY DEF IInv
<1>1. tf' = tf /\ lock' = lock /\ run[d].step = "images"
  BY DEF Lookup, LookupFails, Fallback, Start, PushImage, Resolve, BuildFails, In
<1>2. StepOf(d) /\ run'[d].step \in {run[d].step, "failed"}
  <2>1. CASE Lookup(d, i)
    BY <1>0, <2>1, Withs, Pins DEF Lookup
  <2>2. CASE LookupFails(d, i)
    BY <1>0, <2>2, Ends DEF LookupFails
  <2>3. CASE Fallback(d, i)
    BY <1>0, <2>3, Ends, Pins DEF Fallback
  <2>4. CASE Start(d, i)
    BY <1>0, <2>4, FieldsOfRun DEF Start, Shaped, StepOf
  <2>5. CASE PushImage(d, i)
    BY <1>0, <2>5, Withs DEF PushImage
  <2>6. CASE Resolve(d, i)
    BY <1>0, <2>6, Pins DEF Resolve
  <2>7. CASE BuildFails(d, i)
    BY <1>0, <2>7, Withs DEF BuildFails
  <2> QED
    BY <2>1, <2>2, <2>3, <2>4, <2>5, <2>6, <2>7
<1> QED
  BY <1>1, <1>2, QuietStep

LEMMA PlainSteps ==
  ASSUME IInv, NEW d \in Deploys,
         \/ \E skip \in BOOLEAN : Begin(d, skip) \/ Reject(d, skip)
         \/ Hash(d) \/ ImagesDone(d) \/ Plan(d)
  PROVE  IInv' /\ UNCHANGED tf
<1>0. Shaped
  BY DEF IInv
<1>1. tf' = tf /\ lock' = lock
  BY DEF Begin, Reject, Hash, ImagesDone, Plan
<1>2. StepOf(d) /\ run'[d].step \in {"hash", "images", "plan", "pull", "done", "failed"}
  <2>1. ASSUME NEW skip \in BOOLEAN, Begin(d, skip)
        PROVE  StepOf(d) /\ run'[d].step = "hash"
    BY <1>0, <2>1, FieldsOfRun DEF Begin, Shaped, StepOf
  <2>2. ASSUME NEW skip \in BOOLEAN, Reject(d, skip)
        PROVE  StepOf(d) /\ run'[d].step = "failed"
    BY <1>0, <2>2, Ends DEF Reject
  <2>3. CASE Hash(d)
    <3>1. PICK force \in BOOLEAN : run' = [run EXCEPT
            ![d].step   = "images",
            ![d].hashed = tree,
            ![d].image  = [i \in Specs(d) |-> IF force THEN "absent" ELSE "unknown"],
            ![d].pin    = [i \in Specs(d) |-> None],
            ![d].there  = {i \in Specs(d) : run[d].skip /\ Found(i, InputHash(i, tree)) # None}]
      BY <2>3 DEF Hash
    <3>2. DOMAIN run = Deploys /\ DOMAIN run[d] = DOMAIN Idle
      BY <1>0 DEF Shaped
    <3>3. PICK image, pin, there : run' = [run EXCEPT
            ![d].step = "images", ![d].hashed = tree, ![d].image = image,
            ![d].pin = pin, ![d].there = there]
      BY <3>1, Zenon
    <3>4. DOMAIN run' = Deploys /\ DOMAIN run'[d] = DOMAIN Idle
      BY <3>2, <3>3
    <3>5. run'[d].step = "images" /\ \A e \in Deploys \ {d} : run'[e] = run[e]
      BY <3>2, <3>3, FieldsOfRun
    <3> QED
      BY <1>0, <3>4, <3>5 DEF Shaped, StepOf
  <2>4. CASE ImagesDone(d)
    BY <1>0, <2>4, Ends, Sets DEF ImagesDone
  <2>5. CASE Plan(d)
    BY <1>0, <2>5, Ends DEF Plan
  <2>6. CASE \E skip \in BOOLEAN : Begin(d, skip) \/ Reject(d, skip)
    BY <2>1, <2>2, <2>6
  <2> QED
    BY <2>3, <2>4, <2>5, <2>6
<1> QED
  BY <1>1, <1>2, QuietStep

(* What is pulled differs from the state by the flags only.                *)
LEMMA PullStep ==
  ASSUME IInv, NEW d \in Deploys, Pull(d)
  PROVE  IInv' /\ UNCHANGED tf
<1>0. Shaped /\ tf.serial \in Nat
  BY DEF IInv
<1>1. tf' = tf /\ lock' = lock /\ Advances
  BY <1>0 DEF Pull, Advances
<1> DEFINE cleared == Unlocked(run[d].loaded.region)
<1>2. \A i \in Images : cleared[i] = tf.svc[i] \/ Cleared(cleared[i], tf.svc[i])
  BY DEF Unlocked, Unlockable, Cleared
<1>3. StepOf(d) /\ run'[d].step \in {"apply", "push"}
  BY <1>0, FieldsOfRun DEF Pull, Shaped, StepOf
<1>4. run'[d].step = "push" =>
        run'[d].serial = tf.serial + 1 /\ run'[d].pulled = cleared
  BY <1>0, FieldsOfRun DEF Pull, Shaped
<1>5. Locked(d)' /\ Copied(d)'
  BY <1>0, <1>1, <1>2, <1>3, <1>4 DEF Locked, Copied
<1>6. \A e \in Deploys \ {d} : Locked(e)' /\ Copied(e)'
  BY <1>1, <1>3, OthersKeep
<1> QED
  BY <1>0, <1>1, <1>3, <1>5, <1>6 DEF IInv, StepOf

(* A copy is pushed over the state it was made from, or refused.           *)
LEMMA PushStep ==
  ASSUME IInv, NEW d \in Deploys, Push(d)
  PROVE  /\ IInv'
         /\ \A i \in Images : tf'.svc[i] = tf.svc[i] \/ Cleared(tf'.svc[i], tf.svc[i])
<1>0. Shaped /\ tf.serial \in Nat /\ Copied(d) /\ run[d].step = "push"
  BY DEF IInv, Push
<1>1. StepOf(d) /\ run'[d].step \in {"apply", "failed"} /\ lock' = lock
  BY <1>0, Ends, FieldsOfRun DEF Push, Shaped, StepOf
<1>2. CASE PushAllowed(d)
  <2>1. tf' = [serial |-> run[d].serial, svc |-> run[d].pulled]
    BY <1>2 DEF Push
  <2>2. Advances
    BY <1>0, <1>2, <2>1 DEF Advances, PushAllowed, Copied
  <2>3. \A i \in Images : tf'.svc[i] = tf.svc[i] \/ Cleared(tf'.svc[i], tf.svc[i])
    BY <1>0, <1>2, <2>1 DEF PushAllowed, Copied
  <2>4. \A e \in Deploys \ {d} : Locked(e)' /\ Copied(e)'
    BY <1>1, <2>2, OthersKeep
  <2>5. Locked(d)' /\ Copied(d)'
    BY <1>1 DEF Locked, Copied
  <2> QED
    BY <1>1, <2>2, <2>3, <2>4, <2>5 DEF IInv, StepOf, Advances
<1>3. CASE ~PushAllowed(d)
  <2>1. tf' = tf
    BY <1>3 DEF Push
  <2> QED
    BY <1>1, <2>1, QuietStep
<1> QED
  BY <1>2, <1>3

-----------------------------------------------------------------------------
(* Terraform.                                                              *)

LEMMA ApplyBeginStep ==
  ASSUME IInv, NEW d \in Deploys, ApplyBegin(d)
  PROVE  IInv' /\ UNCHANGED tf
<1>0. Shaped /\ tf' = tf /\ Advances
  BY DEF IInv, ApplyBegin, Advances
<1>1. CASE lock = None
  <2>1. StepOf(d) /\ run'[d].step = "applying" /\ lock' = d
    <3> DEFINE goal == [i \in Images |-> Wanted(d, i)]
               drop == {i \in Images : tf.svc[i] # None /\
                          (Wanted(d, i) = None \/ Replaced(tf.svc[i], tree.region))}
               todo == {i \in Images : Wanted(d, i) # None}
    <3>1. run' = [run EXCEPT ![d].step = "applying", ![d].goal = goal,
                             ![d].drop = drop, ![d].todo = todo, ![d].broken = {}]
      BY <1>1 DEF ApplyBegin
    <3> HIDE DEF goal, drop, todo
    <3>2. DOMAIN run = Deploys /\ DOMAIN run[d] = DOMAIN Idle
      BY <1>0 DEF Shaped
    <3>3. DOMAIN run' = Deploys /\ DOMAIN run'[d] = DOMAIN Idle
      BY <3>1, <3>2
    <3>4. run'[d].step = "applying" /\ \A e \in Deploys \ {d} : run'[e] = run[e]
      BY <3>1, <3>2, FieldsOfRun
    <3>5. lock' = d
      BY <1>1 DEF ApplyBegin
    <3> QED
      BY <1>0, <3>3, <3>4, <3>5 DEF Shaped, StepOf
  <2>2. \A e \in Deploys \ {d} : Locked(e)' /\ Copied(e)'
    BY <1>0, <1>1, <2>1, OthersKeep
  <2>3. Locked(d)' /\ Copied(d)'
    BY <2>1 DEF Locked, Copied
  <2> QED
    BY <1>0, <2>1, <2>2, <2>3 DEF IInv, StepOf
<1>2. CASE lock # None
  <2>1. End(d, "failed") /\ lock' = lock
    BY <1>2 DEF ApplyBegin
  <2>2. StepOf(d) /\ run'[d].step = "failed"
    BY <1>0, <2>1, Ends
  <2> QED
    BY <1>0, <2>1, <2>2, QuietStep
<1> QED
  BY <1>1, <1>2

LEMMA ApplyServiceStep ==
  ASSUME IInv, NEW d \in Deploys, NEW i \in Images, Destroy(d, i) \/ ApplyService(d, i)
  PROVE  IInv' /\ lock = d
<1>0. Shaped /\ tf.serial \in Nat /\ run[d].step = "applying"
  BY DEF IInv, Destroy, ApplyService
<1>1. lock = d /\ lock' = d
  BY <1>0 DEF IInv, Locked, Destroy, ApplyService
<1>2. Advances
  <2>1. UNCHANGED tf \/ \E svc : Written(i, svc)
    BY DEF Destroy, ApplyService
  <2> QED
    BY <1>0, <2>1 DEF Advances, Written
<1>3. StepOf(d) /\ run'[d].step = "applying"
  <2>1. CASE Destroy(d, i)
    BY <1>0, <2>1, FieldsOfRun DEF Destroy, Shaped, StepOf
  <2>2. CASE ApplyService(d, i)
    <3>1. PICK todo, broken : run' = [run EXCEPT ![d].todo = todo, ![d].broken = broken]
      BY <2>2 DEF ApplyService
    <3> QED
      BY <1>0, <3>1, FieldsOfRun DEF Shaped, StepOf
  <2> QED
    BY <2>1, <2>2
<1>4. \A e \in Deploys \ {d} : Locked(e)' /\ Copied(e)'
  BY <1>1, <1>2, <1>3, OthersKeep
<1>5. Locked(d)' /\ Copied(d)'
  BY <1>1, <1>3 DEF Locked, Copied
<1> QED
  BY <1>1, <1>2, <1>3, <1>4, <1>5 DEF IInv, StepOf, Advances

(* The lock is left by whoever holds it.                                   *)
LEMMA EndSteps ==
  ASSUME IInv, NEW d \in Deploys, ApplyEnd(d) \/ Abort(d)
  PROVE  IInv' /\ UNCHANGED tf
<1>0. Shaped /\ tf' = tf /\ Advances
  BY DEF IInv, ApplyEnd, Abort, Advances
<1>1. StepOf(d) /\ run'[d].step \in {"done", "failed"}
  BY <1>0, Ends DEF ApplyEnd, Abort
<1>2. lock' = lock \/ lock = d
  BY DEF ApplyEnd, Abort, IInv, Locked
<1>3. \A e \in Deploys \ {d} : Locked(e)' /\ Copied(e)'
  BY <1>0, <1>1, <1>2, OthersKeep
<1>4. Locked(d)' /\ Copied(d)'
  BY <1>1 DEF Locked, Copied
<1> QED
  BY <1>0, <1>1, <1>3, <1>4 DEF IInv, StepOf

-----------------------------------------------------------------------------
LEMMA InitHolds == Init => IInv
<1> SUFFICES ASSUME Init PROVE IInv
  OBVIOUS
<1>1. Shaped
  BY DEF Init, Shaped
<1>2. tf.serial \in Nat
  BY DEF Init
<1>3. \A d \in Deploys : run[d].step = "idle"
  BY FieldsOfRun DEF Init, Idle
<1> QED
  BY <1>1, <1>2, <1>3 DEF IInv, Locked, Copied

(* A step keeps the invariant, and what is left to PushClearsFlagsOnly.    *)
LEMMA StepHolds ==
  ASSUME IInv, [Next]_vars
  PROVE  /\ IInv'
         /\ lock = None =>
              \A i \in Images : \/ tf'.svc[i] = tf.svc[i]
                                \/ Cleared(tf'.svc[i], tf.svc[i])
<1>1. ASSUME NEW d \in Deploys,
             \/ \E skip \in BOOLEAN : Begin(d, skip) \/ Reject(d, skip)
             \/ Hash(d) \/ ImagesDone(d) \/ Plan(d)
      PROVE  IInv' /\ UNCHANGED tf
  BY <1>1, PlainSteps
<1>2. ASSUME NEW d \in Deploys, NEW i \in Images,
             \/ Lookup(d, i) \/ LookupFails(d, i) \/ Fallback(d, i) \/ Start(d, i)
             \/ PushImage(d, i) \/ Resolve(d, i) \/ BuildFails(d, i)
      PROVE  IInv' /\ UNCHANGED tf
  BY <1>2, ImageSteps
<1>3. ASSUME NEW d \in Deploys, NEW i \in Images, Destroy(d, i) \/ ApplyService(d, i)
      PROVE  IInv' /\ lock # None
  BY <1>3, ApplyServiceStep, NoneAssumption
<1>4. ASSUME NEW d \in Deploys, Pull(d) PROVE IInv' /\ UNCHANGED tf
  BY <1>4, PullStep
<1>5. ASSUME NEW d \in Deploys, Push(d)
      PROVE  /\ IInv'
             /\ \A i \in Images : \/ tf'.svc[i] = tf.svc[i]
                                  \/ Cleared(tf'.svc[i], tf.svc[i])
  BY <1>5, PushStep
<1>6. ASSUME NEW d \in Deploys, ApplyBegin(d) PROVE IInv' /\ UNCHANGED tf
  BY <1>6, ApplyBeginStep
<1>7. ASSUME NEW d \in Deploys, ApplyEnd(d) \/ Abort(d)
      PROVE  IInv' /\ UNCHANGED tf
  BY <1>7, EndSteps
<1>8. CASE UNCHANGED << run, tf, lock >>
  BY <1>8 DEF IInv, Shaped, Locked, Copied, Images
<1>9. CASE Edit
  BY <1>8, <1>9 DEF Edit
<1>10. CASE UNCHANGED vars
  BY <1>8, <1>10 DEF vars
<1> QED
  BY <1>1, <1>2, <1>3, <1>4, <1>5, <1>6, <1>7, <1>9, <1>10 DEF Next

(* Whoever runs Terraform holds the lock of its state.                     *)
THEOREM AppliesUnderLock ==
  Spec => [](\A d \in Deploys : run[d].step = "applying" => lock = d)
<1>1. IInv => \A d \in Deploys : run[d].step = "applying" => lock = d
  BY DEF IInv, Locked
<1>2. IInv /\ [Next]_vars => IInv'
  BY StepHolds
<1> QED
  BY <1>1, <1>2, InitHolds, PTL DEF Spec

(* A change of the state outside of an apply clears a protection flag and  *)
(* nothing else.                                                           *)
THEOREM FlagsOnly == Spec => PushClearsFlagsOnly
<1>1. IInv /\ [Next]_vars => IInv'
  BY StepHolds
<1>2. IInv /\ [Next]_vars =>
        [lock = None =>
           \A i \in Images :
             tf'.svc[i] # tf.svc[i] =>
               /\ tf.svc[i] # None
               /\ tf'.svc[i] = [tf.svc[i] EXCEPT !.protected = FALSE]]_vars
  BY StepHolds DEF Cleared
<1> QED
  BY <1>1, <1>2, InitHolds, PTL DEF Spec, PushClearsFlagsOnly

-----------------------------------------------------------------------------
(* What a run has read, what it pinned and what Terraform makes of it.     *)

Trees == [code: Nat, models: SUBSET Models, region: Regions, edits: Nat]

(* The inputs are hashed; all images are there.                            *)
Imaged(d)  == run[d].step \in {"plan", "pull", "push", "apply", "applying"}
Imaging(d) == run[d].step = "images" \/ Imaged(d)
Active(d)  == run[d].step = "hash" \/ Imaging(d)

(* t was read from the checkout, and is what it still holds if nobody      *)
(* edited since.                                                           *)
Read(t) ==
  /\ t \in Trees /\ t.edits <= tree.edits
  /\ t.edits = tree.edits => t = tree

RegistryOK ==
  /\ DOMAIN registry = Images
  /\ \A i \in Images : \A tag \in DOMAIN registry[i] :
       tag \in Contents \cup {Latest} /\ registry[i][tag] \in Contents

World ==
  /\ tree \in Trees /\ rushed \in BOOLEAN /\ RegistryOK
  /\ DOMAIN tf = {"serial", "svc"} /\ tf.svc \in [Images -> Services \cup {None}]

(* Whatever is under a hash was built from those inputs.                   *)
ByHash ==
  ~rushed => \A i \in Images : \A tag \in DOMAIN registry[i] :
    tag # Latest => registry[i][tag] = tag

ImageOK(d, i) ==
  /\ run[d].image[i] \in {"unknown", "absent", "building", "pushed", "pinned", "failed"}
  /\ run[d].image[i] \in {"building", "pushed", "pinned"} => run[d].pin[i] \in Contents
  /\ run[d].image[i] = "pushed" => HashedTag(d, i) \in DOMAIN registry[i]
  /\ run[d].skip => run[d].image[i] \notin {"building", "pushed", "failed"}

Loaded(d) ==
  /\ Active(d) =>
       /\ Read(run[d].loaded) /\ GpuOk(run[d].loaded) /\ run[d].skip \in BOOLEAN
  /\ Imaging(d) =>
       /\ Read(run[d].hashed) /\ run[d].loaded.edits <= run[d].hashed.edits
       /\ DOMAIN run[d].image = Specs(d) /\ DOMAIN run[d].pin = Specs(d)
       /\ run[d].there \subseteq Specs(d)
       /\ \A i \in Specs(d) : ImageOK(d, i)
  /\ ~Imaging(d) => run[d].there = {}
  /\ Imaged(d) => \A i \in Specs(d) : run[d].image[i] = "pinned"

(* Unless someone edited under builds that had yet to start, what is pinned*)
(* was built from what the run hashed.                                     *)
Fits(d, i) ==
  /\ ~run[d].skip /\ run[d].image[i] \in {"unknown", "absent"} => run[d].hashed = tree
  /\ ~run[d].skip /\ run[d].image[i] \in {"building", "pushed", "pinned"} =>
       run[d].pin[i] = Inputs(i, run[d].hashed)
  /\ i \in run[d].there =>
       /\ run[d].image[i] \in {"unknown", "pinned"}
       /\ HashedTag(d, i) \in DOMAIN registry[i]
       /\ run[d].image[i] = "pinned" => run[d].pin[i] = Inputs(i, run[d].hashed)

AllFit(d) == ~rushed /\ Imaging(d) => \A i \in Specs(d) : Fits(d, i)

(* What replaces a service of the fleet svc is not protected against it.   *)
Unprotected(svc, region) ==
  \A i \in Images : svc[i] # None /\ Replaced(svc[i], region) => ~svc[i].protected

Clears(d) ==
  /\ run[d].step = "push" =>
       /\ run[d].pulled \in [Images -> Services \cup {None}]
       /\ Unprotected(run[d].pulled, run[d].loaded.region)
  /\ run[d].step = "apply" =>
       /\ run[d].serial \in Nat /\ run[d].serial <= tf.serial
       /\ run[d].serial = tf.serial => Unprotected(tf.svc, run[d].loaded.region)

(* Terraform is done with the service: it is what was asked for.           *)
Settled(svc, goal) ==
  IF goal = None THEN svc = None
  ELSE /\ svc # None /\ svc.region = goal.region /\ svc.env = goal.env
       /\ goal.image # None => svc.image = goal.image

(* Once the gateway is done, nothing is destroyed any more, or the gateway *)
(* is new and calls the workers that are kept, which are done too.         *)
GatewayDone(d) ==
  Gateway \notin run[d].todo =>
    \/ run[d].drop = {}
    \/ tf.svc[Gateway] = None
    \/ tf.svc[Gateway].env = Kept(d) /\ Kept(d) \cap run[d].todo = {}

Applies(d) ==
  run[d].step = "applying" =>
    /\ run[d].goal \in [Images -> Goals \cup {None}]
    /\ run[d].goal[Gateway] # None /\ run[d].goal[Gateway].env = Kept(d)
    /\ run[d].todo \subseteq {i \in Images : run[d].goal[i] # None}
    /\ run[d].drop \subseteq Images /\ run[d].broken \subseteq Images
    /\ \A i \in run[d].drop : run[d].goal[i] # None => i \in run[d].todo
    /\ \A i \in Images \ (run[d].drop \cup run[d].todo \cup run[d].broken) :
         Settled(tf.svc[i], run[d].goal[i])
    /\ GatewayDone(d)
    /\ run[d].loaded = tree => \A i \in Images : run[d].goal[i] = Wanted(d, i)

RunOK(d) == Loaded(d) /\ AllFit(d) /\ Clears(d) /\ Applies(d)

DInv == IInv /\ World /\ ByHash /\ \A d \in Deploys : RunOK(d)

-----------------------------------------------------------------------------
(* The registry.                                                           *)

(* No tag goes away.                                                       *)
Grows ==
  RegistryOK' /\ \A i \in Images : DOMAIN registry[i] \subseteq DOMAIN registry'[i]

LEMMA InputsAreContents ==
  ASSUME NEW t \in Trees, NEW i \in Images
  PROVE  Inputs(i, t) \in Contents
BY DEF Trees, Images, Inputs, Contents

LEMMA TagsStay ==
  ASSUME World, NEW i \in Images, NEW tags \in SUBSET (Contents \cup {Latest}),
         NEW built \in Contents, Tagged(i, tags, built)
  PROVE  /\ Grows /\ tags \subseteq DOMAIN registry'[i]
         /\ \A j \in Images : \A tag \in DOMAIN registry'[j] :
              \/ j = i /\ tag \in tags /\ registry'[j][tag] = built
              \/ tag \in DOMAIN registry[j] /\ registry'[j][tag] = registry[j][tag]
<1>1. DOMAIN registry = Images
  BY DEF World, RegistryOK
<1>2. \A j \in Images : j # i => registry'[j] = registry[j]
  BY <1>1 DEF Tagged
<1>3. registry'[i] = [tag \in DOMAIN registry[i] \cup tags |->
                        IF tag \in tags THEN built ELSE registry[i][tag]]
  BY <1>1 DEF Tagged
<1>4. DOMAIN registry' = Images
  BY <1>1 DEF Tagged
<1>5. \A j \in Images : \A tag \in DOMAIN registry'[j] :
        \/ j = i /\ tag \in tags /\ registry'[j][tag] = built
        \/ tag \in DOMAIN registry[j] /\ registry'[j][tag] = registry[j][tag]
  BY <1>2, <1>3
<1>6. RegistryOK'
  BY <1>4, <1>5 DEF World, RegistryOK
<1> QED
  BY <1>2, <1>3, <1>5, <1>6 DEF Grows

LEMMA FoundTag ==
  ASSUME World, ByHash, NEW i \in Images, NEW tag
  PROVE  /\ Found(i, tag) \in Contents \cup {None}
         /\ tag \in DOMAIN registry[i] => Found(i, tag) \in Contents
         /\ tag \notin DOMAIN registry[i] => Found(i, tag) = None
         /\ ~rushed /\ tag # Latest /\ Found(i, tag) # None => Found(i, tag) = tag
BY DEF World, RegistryOK, ByHash, Found

-----------------------------------------------------------------------------
(* The other runs.                                                         *)

LEMMA OthersFit ==
  ASSUME DInv, NEW d \in Deploys, StepOf(d), tree' = tree, rushed' = rushed,
         Grows, Advances, tf' = tf \/ lock \in {d, None},
         NEW e \in Deploys \ {d}
  PROVE  RunOK(e)'
<1>1. run'[e] = run[e] /\ RunOK(e) /\ Locked(e)
  BY DEF DInv, IInv, StepOf
<1>2. Active(e)' = Active(e) /\ Imaging(e)' = Imaging(e) /\ Imaged(e)' = Imaged(e)
  BY <1>1 DEF Active, Imaging, Imaged
<1>3. /\ Specs(e)' = Specs(e)
      /\ \A i : HashedTag(e, i)' = HashedTag(e, i)
  BY <1>1 DEF Specs, HashedTag, InputHash, Inputs
<1>4. \A i \in Specs(e) : Imaging(e) => i \in Images
  BY <1>1 DEF Active, RunOK, Loaded, Read, Trees, Specs, Images
<1>5. Imaging(e) => \A i \in Specs(e) :
        HashedTag(e, i) \in DOMAIN registry[i] => HashedTag(e, i) \in DOMAIN registry'[i]
  BY <1>4 DEF Grows
<1>6. Loaded(e)'
  <2>1. \A t : Read(t)' = Read(t)
    BY DEF Read
  <2>2. Imaging(e) => \A i \in Specs(e) : ImageOK(e, i) => ImageOK(e, i)'
    BY <1>1, <1>3, <1>5 DEF ImageOK
  <2> QED
    BY <1>1, <1>2, <1>3, <2>1, <2>2 DEF RunOK, Loaded
<1>7. AllFit(e)'
  <2>1. Imaging(e) => \A i \in Specs(e) : Fits(e, i) => Fits(e, i)'
    BY <1>1, <1>3, <1>5 DEF Fits
  <2> QED
    BY <1>1, <1>2, <1>3, <2>1 DEF RunOK, AllFit
<1>8. Clears(e)'
  BY <1>1 DEF RunOK, Clears, Advances, Unprotected, DInv, IInv
<1>9. Applies(e)'
  <2>1. CASE run[e].step = "applying"
    <3>1. tf' = tf
      BY <1>1, <2>1, NoneAssumption DEF Locked
    <3>2. Kept(e)' = Kept(e) /\ \A i : Wanted(e, i)' = Wanted(e, i)
      BY <1>1, <1>3 DEF Kept, Wanted
    <3> QED
      BY <1>1, <2>1, <3>1, <3>2 DEF RunOK, Applies, GatewayDone
  <2>2. CASE run[e].step # "applying"
    BY <1>1, <2>2 DEF Applies
  <2> QED
    BY <2>1, <2>2
<1> QED
  BY <1>6, <1>7, <1>8, <1>9 DEF RunOK

(* A step of d keeps the invariant if it does for d.                       *)
LEMMA RunStep ==
  ASSUME DInv, NEW d \in Deploys, StepOf(d), IInv', RunOK(d)',
         UNCHANGED << tree, rushed >>, Grows, ByHash', World', Advances,
         tf' = tf \/ lock \in {d, None}
  PROVE  DInv'
<1>1. \A e \in Deploys \ {d} : RunOK(e)'
  BY OthersFit
<1> QED
  BY <1>1 DEF DInv

LEMMA QuietRunStep ==
  ASSUME DInv, NEW d \in Deploys, StepOf(d), IInv', RunOK(d)',
         UNCHANGED << tree, rushed, tf >>, Grows, ByHash'
  PROVE  DInv'
<1>1. Advances
  BY DEF DInv, IInv, Advances
<1>2. World'
  BY DEF DInv, World, Grows
<1> QED
  BY <1>1, <1>2, RunStep

LEMMA RegistryStays ==
  ASSUME DInv, UNCHANGED << registry, rushed >>
  PROVE  Grows /\ ByHash'
BY DEF DInv, World, RegistryOK, Grows, ByHash

-----------------------------------------------------------------------------
(* Up to the images.                                                       *)

(* What a run has read stays.                                              *)
SameReads(d) ==
  /\ run'[d].skip = run[d].skip /\ run'[d].loaded = run[d].loaded
  /\ run'[d].hashed = run[d].hashed /\ run'[d].there = run[d].there

SamePins(d, i) ==
  /\ DOMAIN run'[d].pin = DOMAIN run[d].pin
  /\ \A j \in DOMAIN run[d].pin \ {i} : run'[d].pin[j] = run[d].pin[j]

LEMMA EndFacts ==
  ASSUME Shaped, NEW d \in Deploys, NEW step \in {"done", "failed"}, End(d, step)
  PROVE  StepOf(d) /\ RunOK(d)'
<1>1. StepOf(d) /\ run'[d].step = step
  BY Ends
<1>2. run'[d].there = {}
  BY FieldsOfRun DEF Shaped, End, Idle
<1> QED
  BY <1>1, <1>2 DEF RunOK, Loaded, AllFit, Clears, Applies, Active, Imaging, Imaged

LEMMA WithFacts ==
  ASSUME Shaped, NEW d \in Deploys, NEW i, NEW state, With(d, i, state)
  PROVE  /\ StepOf(d) /\ SameReads(d)
         /\ run'[d].step = run[d].step /\ run'[d].pin = run[d].pin
         /\ run'[d].image = [run[d].image EXCEPT ![i] = state]
         /\ SamePins(d, i)
BY Withs, FieldsOfRun DEF Shaped, With, SameReads, SamePins

LEMMA PinFacts ==
  ASSUME Shaped, NEW d \in Deploys, NEW i, NEW digest, Pinned(d, i, digest)
  PROVE  /\ StepOf(d) /\ SameReads(d)
         /\ run'[d].step = run[d].step
         /\ run'[d].pin = [run[d].pin EXCEPT ![i] = digest]
         /\ run'[d].image = [run[d].image EXCEPT ![i] = "pinned"]
         /\ SamePins(d, i)
BY Pins, FieldsOfRun DEF Shaped, Pinned, SameReads, SamePins

(* One image of d takes a step; the rest of d is what it was.              *)
LEMMA OneImage ==
  ASSUME DInv, NEW d \in Deploys, NEW i \in Specs(d), NEW state,
         run[d].step = "images", run'[d].step = "images", SameReads(d),
         UNCHANGED << tree, rushed >>, Grows,
         run'[d].image = [run[d].image EXCEPT ![i] = state],
         SamePins(d, i),
         ImageOK(d, i)', ~rushed => Fits(d, i)'
  PROVE  RunOK(d)'
<1>1. Loaded(d) /\ AllFit(d) /\ Imaging(d) /\ Active(d)
  BY DEF DInv, RunOK, Imaging, Imaged, Active
<1>2. Imaging(d)' /\ Active(d)' /\ ~Imaged(d)'
  BY DEF Imaging, Active, Imaged
<1>3. /\ Specs(d)' = Specs(d) /\ Specs(d) \subseteq Images
      /\ \A j : HashedTag(d, j)' = HashedTag(d, j)
  BY <1>1 DEF SameReads, Specs, HashedTag, InputHash, Inputs, Loaded, Read, Trees, Images
<1>4. /\ DOMAIN run'[d].image = Specs(d) /\ DOMAIN run'[d].pin = Specs(d)
      /\ \A j \in Specs(d) \ {i} :
           run'[d].image[j] = run[d].image[j] /\ run'[d].pin[j] = run[d].pin[j]
  BY <1>1 DEF Loaded, SamePins
<1>5. \A j \in Specs(d) \ {i} : ImageOK(d, j)'
  BY <1>1, <1>3, <1>4 DEF Loaded, ImageOK, SameReads, Grows
<1>6. Loaded(d)'
  <2>1. \A t : Read(t)' = Read(t)
    BY DEF Read
  <2> QED
    BY <1>1, <1>2, <1>3, <1>4, <1>5, <2>1 DEF Loaded, SameReads
<1>7. AllFit(d)'
  <2>1. ~rushed => \A j \in Specs(d) \ {i} : Fits(d, j)'
    BY <1>1, <1>3, <1>4 DEF AllFit, Fits, SameReads, Grows
  <2> QED
    BY <1>3, <2>1 DEF AllFit
<1> QED
  BY <1>6, <1>7 DEF RunOK, Clears, Applies

LEMMA ImageFacts ==
  ASSUME DInv, NEW d \in Deploys, NEW i, NEW state, In(d, i, state)
  PROVE  /\ Shaped /\ World /\ ByHash /\ run[d].step = "images"
         /\ i \in Specs(d) /\ i \in Images /\ run[d].image[i] = state
         /\ ImageOK(d, i) /\ (~rushed => Fits(d, i))
         /\ DOMAIN run[d].image = Specs(d) /\ DOMAIN run[d].pin = Specs(d)
         /\ HashedTag(d, i) = Inputs(i, run[d].hashed)
         /\ HashedTag(d, i) \in Contents /\ HashedTag(d, i) # Latest
         /\ Read(run[d].hashed) /\ run[d].skip \in BOOLEAN
<1>1. /\ Shaped /\ World /\ ByHash /\ run[d].step = "images"
      /\ i \in Specs(d) /\ run[d].image[i] = state
  BY DEF DInv, IInv, In
<1>2. Active(d) /\ Imaging(d)
  BY <1>1 DEF Active, Imaging, Imaged
<1>3. Loaded(d) /\ AllFit(d)
  BY DEF DInv, RunOK
<1>4. i \in Images /\ Read(run[d].hashed)
  BY <1>1, <1>2, <1>3 DEF Loaded, Read, Trees, Specs, Images
<1>5. HashedTag(d, i) = Inputs(i, run[d].hashed) /\ HashedTag(d, i) \in Contents
  BY <1>4, InputsAreContents DEF HashedTag, InputHash, Inputs, Read
<1> QED
  BY <1>1, <1>2, <1>3, <1>4, <1>5, LatestAssumption DEF Loaded, AllFit

(* A reviewed image is found; any image found is of the inputs hashed.     *)
LEMMA LookupOK ==
  ASSUME DInv, NEW d \in Deploys, NEW i, Lookup(d, i)
  PROVE  StepOf(d) /\ RunOK(d)'
<1> DEFINE found == Found(i, HashedTag(d, i))
<1>0. In(d, i, "unknown") /\ UNCHANGED << tree, registry, rushed >>
  BY DEF Lookup
<1>1. /\ Shaped /\ World /\ ByHash /\ run[d].step = "images"
      /\ i \in Specs(d) /\ i \in Images /\ run[d].image[i] = "unknown"
      /\ ImageOK(d, i) /\ (~rushed => Fits(d, i))
      /\ DOMAIN run[d].image = Specs(d) /\ DOMAIN run[d].pin = Specs(d)
      /\ HashedTag(d, i) = Inputs(i, run[d].hashed)
      /\ HashedTag(d, i) \in Contents /\ HashedTag(d, i) # Latest
  BY <1>0, ImageFacts
<1>2. Grows
  BY <1>0, RegistryStays
<1>3. /\ found \in Contents \cup {None}
      /\ HashedTag(d, i) \in DOMAIN registry[i] => found # None
      /\ ~rushed /\ found # None => found = HashedTag(d, i)
  BY <1>1, FoundTag, NoneAssumption
<1>4. CASE found = None
  <2>1. With(d, i, "absent")
    BY <1>4 DEF Lookup
  <2>2. /\ StepOf(d) /\ SameReads(d) /\ SamePins(d, i)
        /\ run'[d].step = "images" /\ run'[d].pin = run[d].pin
        /\ run'[d].image = [run[d].image EXCEPT ![i] = "absent"]
    BY <1>1, <2>1, WithFacts
  <2>3. run'[d].image[i] = "absent"
    BY <1>1, <2>2
  <2>4. ImageOK(d, i)'
    BY <2>3 DEF ImageOK
  <2>5. ~rushed => Fits(d, i)'
    <3>1. ~rushed => i \notin run[d].there
      BY <1>1, <1>3, <1>4 DEF Fits
    <3>2. ~rushed /\ ~run[d].skip => run[d].hashed = tree
      BY <1>1 DEF Fits
    <3> QED
      BY <1>0, <2>2, <2>3, <3>1, <3>2 DEF Fits, SameReads
  <2> QED
    BY <1>0, <1>1, <1>2, <2>2, <2>3, <2>4, <2>5, OneImage
<1>5. CASE found # None
  <2>1. Pinned(d, i, found)
    BY <1>5 DEF Lookup
  <2>2. /\ StepOf(d) /\ SameReads(d) /\ SamePins(d, i) /\ run'[d].step = "images"
        /\ run'[d].pin = [run[d].pin EXCEPT ![i] = found]
        /\ run'[d].image = [run[d].image EXCEPT ![i] = "pinned"]
    BY <1>1, <2>1, PinFacts
  <2>3. run'[d].image[i] = "pinned" /\ run'[d].pin[i] = found
    BY <1>1, <2>2
  <2>4. ImageOK(d, i)'
    BY <1>3, <1>5, <2>3 DEF ImageOK
  <2>5. HashedTag(d, i)' = HashedTag(d, i) /\ Inputs(i, run[d].hashed)' = Inputs(i, run[d].hashed)
    BY <2>2 DEF SameReads, HashedTag, InputHash, Inputs
  <2>6. ~rushed => Fits(d, i)'
    BY <1>0, <1>1, <1>3, <1>5, <2>2, <2>3, <2>5 DEF Fits, SameReads
  <2> QED
    BY <1>0, <1>1, <1>2, <2>2, <2>3, <2>4, <2>6, OneImage
<1> QED
  BY <1>4, <1>5

(* The primary tag is only taken where no image was found before.          *)
LEMMA FallbackOK ==
  ASSUME DInv, NEW d \in Deploys, NEW i, Fallback(d, i)
  PROVE  StepOf(d) /\ RunOK(d)'
<1>0. /\ In(d, i, "absent") /\ run[d].skip
      /\ UNCHANGED << tree, registry, rushed >>
  BY DEF Fallback
<1>1. /\ Shaped /\ World /\ ByHash /\ run[d].step = "images"
      /\ i \in Specs(d) /\ i \in Images /\ run[d].image[i] = "absent"
      /\ (~rushed => Fits(d, i))
      /\ DOMAIN run[d].image = Specs(d) /\ DOMAIN run[d].pin = Specs(d)
  BY <1>0, ImageFacts
<1>2. Grows
  BY <1>0, RegistryStays
<1>3. CASE Found(i, Latest) = None
  BY <1>1, <1>3, EndFacts DEF Fallback
<1>4. CASE Found(i, Latest) # None
  <2>1. Pinned(d, i, Found(i, Latest)) /\ Found(i, Latest) \in Contents
    BY <1>1, <1>4, FoundTag DEF Fallback
  <2>2. /\ StepOf(d) /\ SameReads(d) /\ SamePins(d, i) /\ run'[d].step = "images"
        /\ run'[d].pin = [run[d].pin EXCEPT ![i] = Found(i, Latest)]
        /\ run'[d].image = [run[d].image EXCEPT ![i] = "pinned"]
    BY <1>1, <2>1, PinFacts
  <2>3. run'[d].image[i] = "pinned" /\ run'[d].pin[i] = Found(i, Latest)
    BY <1>1, <2>2
  <2>4. ImageOK(d, i)'
    BY <2>1, <2>3 DEF ImageOK
  <2>5. ~rushed => i \notin run[d].there
    BY <1>1 DEF Fits
  <2>6. ~rushed => Fits(d, i)'
    BY <1>0, <2>2, <2>3, <2>5 DEF Fits, SameReads
  <2> QED
    BY <1>0, <1>1, <1>2, <2>2, <2>4, <2>6, OneImage
<1> QED
  BY <1>3, <1>4

(* What is built is of the inputs hashed, as nobody has edited them since. *)
LEMMA StartOK ==
  ASSUME DInv, NEW d \in Deploys, NEW i, Start(d, i)
  PROVE  StepOf(d) /\ RunOK(d)'
<1> DEFINE built == Inputs(i, tree)
<1>0. /\ In(d, i, "absent") /\ ~run[d].skip
      /\ UNCHANGED << tree, registry, rushed >>
      /\ run' = [run EXCEPT ![d].image[i] = "building", ![d].pin[i] = built]
  BY DEF Start
<1>1. /\ Shaped /\ World /\ ByHash /\ run[d].step = "images"
      /\ i \in Specs(d) /\ i \in Images /\ run[d].image[i] = "absent"
      /\ (~rushed => Fits(d, i))
      /\ DOMAIN run[d].image = Specs(d) /\ DOMAIN run[d].pin = Specs(d)
  BY <1>0, ImageFacts
<1>2. Grows
  BY <1>0, RegistryStays
<1>3. built \in Contents
  BY <1>1, InputsAreContents DEF World
<1>4. ~rushed => i \notin run[d].there /\ run[d].hashed = tree
  BY <1>0, <1>1 DEF Fits
<1> HIDE DEF built
<1>5. /\ StepOf(d) /\ SameReads(d) /\ SamePins(d, i) /\ run'[d].step = "images"
      /\ run'[d].pin = [run[d].pin EXCEPT ![i] = built]
      /\ run'[d].image = [run[d].image EXCEPT ![i] = "building"]
  BY <1>0, <1>1, FieldsOfRun DEF Shaped, StepOf, SameReads, SamePins
<1>6. run'[d].image[i] = "building" /\ run'[d].pin[i] = built
  BY <1>1, <1>5
<1>7. ImageOK(d, i)'
  BY <1>0, <1>3, <1>5, <1>6 DEF ImageOK, SameReads
<1>8. Inputs(i, run[d].hashed)' = Inputs(i, run[d].hashed)
  BY <1>5 DEF SameReads, Inputs
<1>9. ~rushed => Fits(d, i)'
  BY <1>0, <1>4, <1>5, <1>6, <1>8 DEF Fits, SameReads, built
<1> QED
  BY <1>0, <1>1, <1>2, <1>5, <1>7, <1>9, OneImage

(* A push puts what the run has built under its tags.                      *)
LEMMA PushesByHash ==
  ASSUME DInv, NEW d \in Deploys, NEW i, In(d, i, "building"), rushed' = rushed,
         NEW tags \in SUBSET {HashedTag(d, i), Latest}, Tagged(i, tags, run[d].pin[i])
  PROVE  Grows /\ ByHash' /\ tags \subseteq DOMAIN registry'[i]
<1>1. /\ World /\ ByHash /\ i \in Images /\ run[d].image[i] = "building"
      /\ ImageOK(d, i) /\ (~rushed => Fits(d, i)) /\ run[d].skip \in BOOLEAN
      /\ HashedTag(d, i) = Inputs(i, run[d].hashed) /\ HashedTag(d, i) \in Contents
  BY ImageFacts
<1>2. run[d].pin[i] \in Contents /\ tags \in SUBSET (Contents \cup {Latest})
  BY <1>1 DEF ImageOK
<1>3. ~rushed => run[d].pin[i] = HashedTag(d, i)
  BY <1>1 DEF ImageOK, Fits
<1>4. /\ Grows /\ tags \subseteq DOMAIN registry'[i]
      /\ \A j \in Images : \A tag \in DOMAIN registry'[j] :
           \/ j = i /\ tag \in tags /\ registry'[j][tag] = run[d].pin[i]
           \/ tag \in DOMAIN registry[j] /\ registry'[j][tag] = registry[j][tag]
  BY <1>1, <1>2, TagsStay
<1>5. ByHash'
  BY <1>1, <1>3, <1>4 DEF ByHash
<1> QED
  BY <1>4, <1>5

LEMMA PushImageOK ==
  ASSUME DInv, NEW d \in Deploys, NEW i, PushImage(d, i)
  PROVE  StepOf(d) /\ RunOK(d)' /\ Grows /\ ByHash'
<1>0. /\ In(d, i, "building") /\ UNCHANGED << tree, rushed >>
      /\ Tagged(i, {HashedTag(d, i), Latest}, run[d].pin[i])
  BY DEF PushImage
<1>1. /\ Shaped /\ run[d].step = "images" /\ i \in Specs(d)
      /\ run[d].image[i] = "building" /\ ImageOK(d, i) /\ (~rushed => Fits(d, i))
      /\ DOMAIN run[d].image = Specs(d) /\ DOMAIN run[d].pin = Specs(d)
      /\ run[d].skip \in BOOLEAN
  BY <1>0, ImageFacts
<1>2. Grows /\ ByHash' /\ HashedTag(d, i) \in DOMAIN registry'[i]
  BY <1>0, PushesByHash
<1>3. ~run[d].skip /\ run[d].pin[i] \in Contents
  BY <1>1 DEF ImageOK
<1>4. ~rushed => i \notin run[d].there /\ run[d].pin[i] = Inputs(i, run[d].hashed)
  BY <1>1, <1>3 DEF Fits
<1>5. PICK state \in {"pinned", "pushed"} : With(d, i, state)
  BY DEF PushImage
<1>6. /\ StepOf(d) /\ SameReads(d) /\ SamePins(d, i)
      /\ run'[d].step = "images" /\ run'[d].pin = run[d].pin
      /\ run'[d].image = [run[d].image EXCEPT ![i] = state]
  BY <1>1, <1>5, WithFacts
<1>7. run'[d].image[i] = state
  BY <1>1, <1>6
<1>8. /\ HashedTag(d, i)' = HashedTag(d, i)
      /\ Inputs(i, run[d].hashed)' = Inputs(i, run[d].hashed)
  BY <1>6 DEF SameReads, HashedTag, InputHash, Inputs
<1>9. ImageOK(d, i)'
  BY <1>2, <1>3, <1>5, <1>6, <1>7, <1>8 DEF ImageOK, SameReads
<1>10. ~rushed => Fits(d, i)'
  BY <1>0, <1>3, <1>4, <1>5, <1>6, <1>7, <1>8 DEF Fits, SameReads
<1> QED
  BY <1>0, <1>1, <1>2, <1>6, <1>7, <1>9, <1>10, OneImage

LEMMA ResolveOK ==
  ASSUME DInv, NEW d \in Deploys, NEW i, Resolve(d, i)
  PROVE  StepOf(d) /\ RunOK(d)'
<1> DEFINE found == Found(i, HashedTag(d, i))
<1>0. In(d, i, "pushed") /\ UNCHANGED << tree, registry, rushed >>
  BY DEF Resolve
<1>1. /\ Shaped /\ World /\ ByHash /\ run[d].step = "images"
      /\ i \in Specs(d) /\ i \in Images /\ run[d].image[i] = "pushed"
      /\ ImageOK(d, i) /\ (~rushed => Fits(d, i))
      /\ DOMAIN run[d].image = Specs(d) /\ DOMAIN run[d].pin = Specs(d)
      /\ HashedTag(d, i) = Inputs(i, run[d].hashed) /\ HashedTag(d, i) # Latest
  BY <1>0, ImageFacts
<1>2. Grows
  BY <1>0, RegistryStays
<1>3. HashedTag(d, i) \in DOMAIN registry[i] /\ ~(run[d].skip = TRUE)
  BY <1>1 DEF ImageOK
<1>4. found \in Contents /\ (~rushed => found = HashedTag(d, i))
  BY <1>1, <1>3, FoundTag, NoneAssumption
<1>5. ~rushed => i \notin run[d].there
  BY <1>1 DEF Fits
<1>6. Pinned(d, i, found)
  BY DEF Resolve
<1> HIDE DEF found
<1>7. /\ StepOf(d) /\ SameReads(d) /\ SamePins(d, i) /\ run'[d].step = "images"
      /\ run'[d].pin = [run[d].pin EXCEPT ![i] = found]
      /\ run'[d].image = [run[d].image EXCEPT ![i] = "pinned"]
  BY <1>1, <1>6, PinFacts
<1>8. run'[d].image[i] = "pinned" /\ run'[d].pin[i] = found
  BY <1>1, <1>7
<1>9. ImageOK(d, i)'
  BY <1>4, <1>8 DEF ImageOK
<1>10. Inputs(i, run[d].hashed)' = Inputs(i, run[d].hashed)
  BY <1>7 DEF SameReads, Inputs
<1>11. ~rushed => Fits(d, i)'
  BY <1>0, <1>1, <1>4, <1>5, <1>7, <1>8, <1>10 DEF Fits, SameReads
<1> QED
  BY <1>0, <1>1, <1>2, <1>7, <1>9, <1>11, OneImage

LEMMA BuildFailsOK ==
  ASSUME DInv, NEW d \in Deploys, NEW i, BuildFails(d, i)
  PROVE  StepOf(d) /\ RunOK(d)' /\ Grows /\ ByHash'
<1>0. In(d, i, "building") /\ With(d, i, "failed") /\ UNCHANGED << tree, rushed >>
  BY DEF BuildFails
<1>1. /\ Shaped /\ run[d].step = "images" /\ i \in Specs(d)
      /\ run[d].image[i] = "building" /\ ImageOK(d, i) /\ (~rushed => Fits(d, i))
      /\ DOMAIN run[d].image = Specs(d) /\ DOMAIN run[d].pin = Specs(d)
      /\ run[d].skip \in BOOLEAN
  BY <1>0, ImageFacts
<1>2. Grows /\ ByHash'
  <2>1. CASE UNCHANGED registry
    BY <1>0, <2>1, RegistryStays
  <2>2. CASE Tagged(i, {HashedTag(d, i)}, run[d].pin[i])
    BY <1>0, <2>2, PushesByHash
  <2> QED
    BY <2>1, <2>2 DEF BuildFails
<1>3. /\ ~run[d].skip /\ (~rushed => i \notin run[d].there)
  BY <1>1 DEF ImageOK, Fits
<1>4. /\ StepOf(d) /\ SameReads(d) /\ SamePins(d, i)
      /\ run'[d].step = "images" /\ run'[d].pin = run[d].pin
      /\ run'[d].image = [run[d].image EXCEPT ![i] = "failed"]
  BY <1>0, <1>1, WithFacts
<1>5. run'[d].image[i] = "failed"
  BY <1>1, <1>4
<1>6. ImageOK(d, i)'
  BY <1>3, <1>4, <1>5 DEF ImageOK, SameReads
<1>7. ~rushed => Fits(d, i)'
  BY <1>0, <1>3, <1>4, <1>5 DEF Fits, SameReads
<1> QED
  BY <1>0, <1>1, <1>2, <1>4, <1>5, <1>6, <1>7, OneImage

LEMMA ImageStepsOK ==
  ASSUME DInv, NEW d \in Deploys, NEW i \in Images,
         \/ Lookup(d, i) \/ LookupFails(d, i) \/ Fallback(d, i) \/ Start(d, i)
         \/ PushImage(d, i) \/ Resolve(d, i) \/ BuildFails(d, i)
  PROVE  DInv'
<1>1. IInv' /\ Shaped
  BY ImageSteps DEF DInv, IInv
<1>2. UNCHANGED << tree, rushed, tf >>
  BY DEF Lookup, LookupFails, Fallback, Start, PushImage, Resolve, BuildFails
<1>3. StepOf(d) /\ RunOK(d)' /\ Grows /\ ByHash'
  <2>1. CASE Lookup(d, i)
    BY <2>1, LookupOK, RegistryStays DEF Lookup
  <2>2. CASE LookupFails(d, i)
    BY <1>1, <2>2, EndFacts, RegistryStays DEF LookupFails
  <2>3. CASE Fallback(d, i)
    BY <2>3, FallbackOK, RegistryStays DEF Fallback
  <2>4. CASE Start(d, i)
    BY <2>4, StartOK, RegistryStays DEF Start
  <2>5. CASE PushImage(d, i)
    BY <2>5, PushImageOK
  <2>6. CASE Resolve(d, i)
    BY <2>6, ResolveOK, RegistryStays DEF Resolve
  <2>7. CASE BuildFails(d, i)
    BY <2>7, BuildFailsOK
  <2> QED
    BY <2>1, <2>2, <2>3, <2>4, <2>5, <2>6, <2>7
<1> QED
  BY <1>1, <1>2, <1>3, QuietRunStep

(* The images of d are what they were.                                     *)
LEMMA Carries ==
  ASSUME DInv, NEW d \in Deploys, Imaging(d), Imaging(d)', SameReads(d),
         run'[d].image = run[d].image, run'[d].pin = run[d].pin,
         UNCHANGED << tree, rushed >>, Grows,
         Imaged(d)' => \A i \in Specs(d) : run[d].image[i] = "pinned"
  PROVE  Loaded(d)' /\ AllFit(d)'
<1>1. Loaded(d) /\ AllFit(d) /\ Active(d) /\ Active(d)'
  BY DEF DInv, RunOK, Active
<1>2. /\ Specs(d)' = Specs(d) /\ Specs(d) \subseteq Images
      /\ \A i : HashedTag(d, i)' = HashedTag(d, i)
  BY <1>1 DEF SameReads, Specs, HashedTag, InputHash, Inputs, Loaded, Read, Trees, Images
<1>3. \A i \in Specs(d) : ImageOK(d, i)'
  BY <1>1, <1>2 DEF Loaded, ImageOK, SameReads, Grows
<1>4. ~rushed => \A i \in Specs(d) : Fits(d, i)'
  BY <1>1, <1>2 DEF AllFit, Fits, SameReads, Grows
<1>5. \A t : Read(t)' = Read(t)
  BY DEF Read
<1>6. Loaded(d)'
  BY <1>1, <1>2, <1>3, <1>5 DEF Loaded, SameReads
<1> QED
  BY <1>2, <1>4, <1>6 DEF AllFit

LEMMA BeginOK ==
  ASSUME DInv, NEW d \in Deploys, NEW skip \in BOOLEAN, Begin(d, skip)
  PROVE  StepOf(d) /\ RunOK(d)'
<1>1. /\ Shaped /\ World /\ Loaded(d) /\ run[d].step = "idle" /\ GpuOk(tree)
      /\ UNCHANGED << tree, rushed >>
  BY DEF DInv, IInv, RunOK, Begin, Accepted
<1>2. /\ StepOf(d) /\ run'[d].step = "hash" /\ run'[d].skip = skip
      /\ run'[d].loaded = tree /\ run'[d].there = run[d].there
  BY <1>1, FieldsOfRun DEF Begin, Shaped, StepOf
<1>3. run[d].there = {}
  BY <1>1 DEF Loaded, Imaging, Imaged, Active
<1>4. Read(tree)'
  BY <1>1 DEF World, Read, Trees
<1>5. GpuOk(run[d].loaded)'
  BY <1>1, <1>2 DEF GpuOk
<1>6. Active(d)' /\ ~Imaging(d)' /\ ~Imaged(d)'
  BY <1>2 DEF Active, Imaging, Imaged
<1>7. Loaded(d)'
  BY <1>1, <1>2, <1>3, <1>4, <1>5, <1>6 DEF Loaded
<1> QED
  BY <1>2, <1>6, <1>7 DEF RunOK, AllFit, Clears, Applies

(* What --skip-build finds under a hash when it hashes will still be there.*)
LEMMA HashOK ==
  ASSUME DInv, NEW d \in Deploys, Hash(d)
  PROVE  StepOf(d) /\ RunOK(d)'
<1>1. /\ Shaped /\ World /\ ByHash /\ Loaded(d) /\ run[d].step = "hash"
      /\ UNCHANGED << tree, rushed, registry >>
  BY DEF DInv, IInv, RunOK, Hash
<1>2. Active(d) /\ Read(run[d].loaded) /\ GpuOk(run[d].loaded) /\ run[d].skip \in BOOLEAN
  BY <1>1 DEF Loaded, Active, Imaging, Imaged
<1> DEFINE there == {i \in Specs(d) : run[d].skip /\ Found(i, InputHash(i, tree)) # None}
           pin   == [i \in Specs(d) |-> None]
<1>3. PICK state \in {"absent", "unknown"} :
        /\ run[d].skip => state = "unknown"
        /\ run' = [run EXCEPT ![d].step = "images", ![d].hashed = tree,
                     ![d].image = [i \in Specs(d) |-> state],
                     ![d].pin = pin, ![d].there = there]
  BY <1>2 DEF Hash
<1> DEFINE image == [i \in Specs(d) |-> state]
<1>4. /\ DOMAIN image = Specs(d) /\ DOMAIN pin = Specs(d)
      /\ \A i \in Specs(d) : image[i] = state
      /\ there \subseteq Specs(d)
      /\ \A i \in there : run[d].skip /\ Found(i, InputHash(i, tree)) # None
  OBVIOUS
<1>5. run' = [run EXCEPT ![d].step = "images", ![d].hashed = tree,
                ![d].image = image, ![d].pin = pin, ![d].there = there]
  BY <1>3
<1> HIDE DEF image, pin, there
<1>6. DOMAIN run = Deploys /\ DOMAIN run[d] = DOMAIN Idle
  BY <1>1 DEF Shaped
<1>7. DOMAIN run' = Deploys /\ DOMAIN run'[d] = DOMAIN Idle
  BY <1>5, <1>6
<1>8. \A e \in Deploys \ {d} : run'[e] = run[e]
  BY <1>5, <1>6
<1>9. /\ run'[d].step = "images" /\ run'[d].hashed = tree
      /\ run'[d].image = image /\ run'[d].pin = pin /\ run'[d].there = there
      /\ run'[d].skip = run[d].skip /\ run'[d].loaded = run[d].loaded
  BY <1>5, <1>6, FieldsOfRun
<1>10. StepOf(d)
  BY <1>1, <1>7, <1>8 DEF Shaped, StepOf
<1>11. Active(d)' /\ Imaging(d)' /\ ~Imaged(d)'
  BY <1>9 DEF Active, Imaging, Imaged
<1>12. Specs(d)' = Specs(d) /\ Specs(d) \subseteq Images
  BY <1>2, <1>9 DEF Specs, Read, Trees, Images
<1>13. \A i \in Specs(d) : ImageOK(d, i)'
  BY <1>3, <1>4, <1>9 DEF ImageOK
<1>14. Loaded(d)'
  <2>1. Read(tree)' /\ tree' = tree /\ run[d].loaded.edits <= tree.edits
    BY <1>1, <1>2 DEF World, Read, Trees
  <2>2. Read(run[d].loaded)' /\ GpuOk(run[d].loaded)'
    BY <1>1, <1>2, <1>9 DEF Read, GpuOk
  <2> QED
    BY <1>2, <1>4, <1>9, <1>11, <1>12, <1>13, <2>1, <2>2 DEF Loaded
<1>15. \A i \in Images : HashedTag(d, i)' = InputHash(i, tree) /\ InputHash(i, tree) \in Contents
  BY <1>1, <1>9, InputsAreContents DEF HashedTag, InputHash, Inputs, World
<1>16. \A i \in there : InputHash(i, tree) \in DOMAIN registry[i]
  BY <1>4 DEF Found
<1>17. \A i \in Specs(d) : Fits(d, i)'
  <2> SUFFICES ASSUME NEW i \in Specs(d) PROVE Fits(d, i)'
    OBVIOUS
  <2>1. image[i] = state
    BY <1>4
  <2>2. i \in there => image[i] = "unknown"
    BY <1>3, <1>4, <2>1
  <2>3. i \in there => HashedTag(d, i)' \in DOMAIN registry'[i]
    BY <1>1, <1>12, <1>15, <1>16
  <2> QED
    BY <1>1, <1>3, <1>9, <2>1, <2>2, <2>3 DEF Fits
<1>18. AllFit(d)'
  BY <1>12, <1>17 DEF AllFit
<1> QED
  BY <1>9, <1>10, <1>14, <1>18 DEF RunOK, Clears, Applies

LEMMA ImagesDoneOK ==
  ASSUME DInv, NEW d \in Deploys, ImagesDone(d)
  PROVE  StepOf(d) /\ RunOK(d)'
<1>1. /\ Shaped /\ run[d].step = "images"
      /\ UNCHANGED << tree, rushed, registry >>
  BY DEF DInv, IInv, ImagesDone
<1>2. CASE \E i \in Specs(d) : run[d].image[i] = "failed"
  BY <1>1, <1>2, EndFacts DEF ImagesDone
<1>3. CASE ~\E i \in Specs(d) : run[d].image[i] = "failed"
  <2>1. PICK step \in {"plan", "pull"} : Set(d, step)
    BY <1>3 DEF ImagesDone
  <2>2. /\ StepOf(d) /\ SameReads(d) /\ run'[d].step = step
        /\ run'[d].image = run[d].image /\ run'[d].pin = run[d].pin
    BY <1>1, <2>1, FieldsOfRun DEF Set, Shaped, StepOf, SameReads
  <2>3. Imaging(d) /\ Imaging(d)'
    BY <1>1, <2>1, <2>2 DEF Imaging, Imaged, Active
  <2>4. \A i \in Specs(d) : run[d].image[i] = "pinned"
    BY <1>3 DEF ImagesDone
  <2>5. Loaded(d)' /\ AllFit(d)'
    BY <1>1, <2>2, <2>3, <2>4, RegistryStays, Carries
  <2> QED
    BY <2>1, <2>2, <2>5 DEF RunOK, Clears, Applies
<1> QED
  BY <1>2, <1>3

LEMMA PlainStepsOK ==
  ASSUME DInv, NEW d \in Deploys,
         \/ \E skip \in BOOLEAN : Begin(d, skip) \/ Reject(d, skip)
         \/ Hash(d) \/ ImagesDone(d) \/ Plan(d)
  PROVE  DInv'
<1>1. IInv' /\ Shaped
  BY PlainSteps DEF DInv, IInv
<1>2. UNCHANGED << tree, rushed, tf, registry >>
  BY DEF Begin, Reject, Hash, ImagesDone, Plan
<1>3. StepOf(d) /\ RunOK(d)'
  <2>1. ASSUME NEW skip \in BOOLEAN, Reject(d, skip)
        PROVE  StepOf(d) /\ RunOK(d)'
    BY <1>1, <2>1, EndFacts DEF Reject
  <2>2. CASE Plan(d)
    BY <1>1, <2>2, EndFacts DEF Plan
  <2> QED
    BY <2>1, <2>2, BeginOK, HashOK, ImagesDoneOK
<1> QED
  BY <1>1, <1>2, <1>3, RegistryStays, QuietRunStep

-----------------------------------------------------------------------------
(* Terraform.                                                              *)

(* What d holds on to between its images and its end.                      *)
SameImages(d) ==
  SameReads(d) /\ run'[d].image = run[d].image /\ run'[d].pin = run[d].pin

LEMMA Proceeds ==
  ASSUME DInv, NEW d \in Deploys, Imaged(d), Imaged(d)', SameImages(d),
         UNCHANGED << tree, rushed, registry >>
  PROVE  Loaded(d)' /\ AllFit(d)'
<1>1. Imaging(d) /\ Imaging(d)'
  BY DEF Imaged, Imaging, Active
<1>2. \A i \in Specs(d) : run[d].image[i] = "pinned"
  BY DEF DInv, RunOK, Loaded
<1> QED
  BY <1>1, <1>2, RegistryStays, Carries DEF SameImages

LEMMA UnlockedFacts ==
  ASSUME tf.svc \in [Images -> Services \cup {None}], NEW region
  PROVE  /\ Unlocked(region) \in [Images -> Services \cup {None}]
         /\ Unprotected(Unlocked(region), region)
<1> SUFFICES ASSUME NEW i \in Images
             PROVE  /\ Unlocked(region)[i] \in Services \cup {None}
                    /\ Unlocked(region)[i] # None /\ Replaced(Unlocked(region)[i], region)
                         => ~Unlocked(region)[i].protected
  BY DEF Unlocked, Unprotected
<1> DEFINE svc == tf.svc[i]
           open == [svc EXCEPT !.protected = FALSE]
<1>1. svc \in Services \cup {None}
  OBVIOUS
<1>2. Unlocked(region)[i] = IF Unlockable(svc, region) THEN open ELSE svc
  BY DEF Unlocked
<1> HIDE DEF svc
<1>3. CASE svc \in Services
  <2>1. open \in Services /\ open.protected = FALSE
    BY <1>3 DEF Services
  <2> QED
    BY <1>2, <1>3, <2>1 DEF Unlockable
<1>4. CASE svc = None
  BY <1>2, <1>4 DEF Unlockable
<1> QED
  BY <1>1, <1>3, <1>4

LEMMA PullOK ==
  ASSUME DInv, NEW d \in Deploys, Pull(d)
  PROVE  DInv'
<1> DEFINE cleared == Unlocked(run[d].loaded.region)
<1>1. /\ Shaped /\ World /\ tf.serial \in Nat /\ run[d].step = "pull"
      /\ UNCHANGED << tree, rushed, registry, tf >>
  BY DEF DInv, IInv, Pull
<1>2. IInv'
  BY PullStep DEF DInv
<1>3. /\ cleared \in [Images -> Services \cup {None}]
      /\ Unprotected(cleared, run[d].loaded.region)
  BY <1>1, UnlockedFacts DEF World
<1> HIDE DEF cleared
<1>4. /\ StepOf(d) /\ SameImages(d)
      /\ \/ run'[d].step = "apply" /\ run'[d].serial = tf.serial /\ cleared = tf.svc
         \/ run'[d].step = "push" /\ run'[d].pulled = cleared
  BY <1>1, FieldsOfRun DEF Pull, Shaped, StepOf, SameImages, SameReads, cleared
<1>5. Imaged(d) /\ Imaged(d)'
  BY <1>1, <1>4 DEF Imaged
<1>6. Loaded(d)' /\ AllFit(d)'
  BY <1>1, <1>4, <1>5, Proceeds
<1>7. Clears(d)' /\ Applies(d)'
  BY <1>1, <1>3, <1>4 DEF Clears, Applies, SameImages, SameReads, Unprotected
<1> QED
  BY <1>1, <1>2, <1>4, <1>6, <1>7, RegistryStays, QuietRunStep DEF RunOK

LEMMA PushOK ==
  ASSUME DInv, NEW d \in Deploys, Push(d)
  PROVE  DInv'
<1>1. /\ Shaped /\ World /\ tf.serial \in Nat /\ run[d].step = "push"
      /\ Copied(d) /\ Clears(d) /\ UNCHANGED << tree, rushed, registry >>
  BY DEF DInv, IInv, RunOK, Push
<1>2. IInv' /\ Grows /\ ByHash'
  BY <1>1, PushStep, RegistryStays DEF DInv
<1>3. CASE PushAllowed(d)
  <2>1. /\ lock = None
        /\ tf' = [serial |-> run[d].serial, svc |-> run[d].pulled]
        /\ run' = [run EXCEPT ![d].step = "apply", ![d].pulled = << >>]
    BY <1>3 DEF Push, PushAllowed
  <2>2. Advances
    BY <1>1, <1>3, <2>1 DEF Advances, PushAllowed, Copied
  <2>3. /\ StepOf(d) /\ SameImages(d) /\ run'[d].step = "apply"
        /\ run'[d].serial = run[d].serial
    BY <1>1, <2>1, FieldsOfRun DEF Shaped, StepOf, SameImages, SameReads
  <2>4. Imaged(d) /\ Imaged(d)'
    BY <1>1, <2>3 DEF Imaged
  <2>5. Loaded(d)' /\ AllFit(d)'
    BY <1>1, <2>3, <2>4, Proceeds
  <2>6. World'
    BY <1>1, <1>2, <2>1 DEF World, Clears, Grows
  <2>7. Clears(d)' /\ Applies(d)'
    <3>1. tf'.serial = run'[d].serial /\ run'[d].serial \in Nat
      BY <1>1, <2>1, <2>3 DEF Copied
    <3>2. Unprotected(tf'.svc, run'[d].loaded.region)
      BY <1>1, <2>1, <2>3 DEF Clears, SameImages, SameReads
    <3> QED
      BY <2>3, <3>1, <3>2 DEF Clears, Applies
  <2> QED
    BY <1>1, <1>2, <2>1, <2>2, <2>3, <2>5, <2>6, <2>7, RunStep DEF RunOK
<1>4. CASE ~PushAllowed(d)
  BY <1>1, <1>2, <1>4, EndFacts, QuietRunStep DEF Push
<1> QED
  BY <1>3, <1>4

(* What Terraform is asked for: the fleet of the checkout.                 *)
LEMMA WantedFacts ==
  ASSUME DInv, NEW d \in Deploys, run[d].step = "apply"
  PROVE  /\ \A i \in Images : Wanted(d, i) \in Goals \cup {None}
         /\ \A i \in Models : Wanted(d, i) # None <=> i \in tree.models
         /\ Wanted(d, Gateway) # None /\ Wanted(d, Gateway).env = tree.models
<1>1. Imaging(d) /\ Imaged(d) /\ Active(d)
  BY DEF Imaging, Imaged, Active
<1>2. \A i \in Specs(d) : run[d].pin[i] \in Contents
  BY <1>1 DEF DInv, RunOK, Loaded, ImageOK
<1>3. tree.models \subseteq Models /\ tree.region \in Regions
  BY DEF DInv, World, Trees
<1>4. \A i \in Images : i = Gateway \/ i \in tree.models =>
        /\ Wanted(d, i) \in Goals
        /\ Wanted(d, i).env = IF i = Gateway THEN tree.models ELSE {}
  BY <1>2, <1>3 DEF Wanted, Goals
<1>5. \A i \in Images : i # Gateway /\ i \notin tree.models => Wanted(d, i) = None
  BY DEF Wanted
<1>6. Gateway \in Images /\ Models \subseteq Images
  BY DEF Images
<1> QED
  BY <1>4, <1>5, <1>6, SetsAssumption, NoneAssumption

LEMMA ApplyBeginOK ==
  ASSUME DInv, NEW d \in Deploys, ApplyBegin(d)
  PROVE  DInv'
<1>1. /\ Shaped /\ World /\ run[d].step = "apply"
      /\ UNCHANGED << tree, rushed, registry, tf >>
  BY DEF DInv, IInv, ApplyBegin
<1>2. IInv' /\ Grows /\ ByHash'
  BY <1>1, ApplyBeginStep, RegistryStays DEF DInv
<1>3. CASE lock = None
  <2> DEFINE goal == [i \in Images |-> Wanted(d, i)]
             drop == {i \in Images : tf.svc[i] # None /\
                        (Wanted(d, i) = None \/ Replaced(tf.svc[i], tree.region))}
             todo == {i \in Images : Wanted(d, i) # None}
  <2>1. run' = [run EXCEPT ![d].step = "applying", ![d].goal = goal, ![d].drop = drop,
                           ![d].todo = todo, ![d].broken = {}]
    BY <1>3 DEF ApplyBegin
  <2>2. /\ \A i \in Images : goal[i] = Wanted(d, i)
        /\ goal \in [Images -> Goals \cup {None}]
        /\ drop \subseteq Images
        /\ todo = {i \in Images : goal[i] # None}
        /\ \A i \in Images \ (drop \cup todo) : tf.svc[i] = None /\ goal[i] = None
    BY <1>1, WantedFacts
  <2> HIDE DEF goal, drop, todo
  <2>3. /\ StepOf(d) /\ SameImages(d) /\ run'[d].step = "applying"
        /\ run'[d].goal = goal /\ run'[d].drop = drop /\ run'[d].todo = todo
        /\ run'[d].broken = {}
    BY <1>1, <2>1, FieldsOfRun DEF Shaped, StepOf, SameImages, SameReads
  <2>4. Imaged(d) /\ Imaged(d)'
    BY <1>1, <2>3 DEF Imaged
  <2>5. Loaded(d)' /\ AllFit(d)'
    BY <1>1, <2>3, <2>4, Proceeds
  <2>6. Kept(d)' = tree.models /\ goal[Gateway] # None /\ goal[Gateway].env = tree.models
    <3>1. Gateway \in Images /\ Models \subseteq Images /\ tree.models \subseteq Models
      BY <1>1 DEF Images, World, Trees
    <3> QED
      BY <1>1, <2>2, <2>3, <3>1, WantedFacts DEF Kept
  <2>7. \A i \in Images \ (drop \cup todo) : Settled(tf.svc[i], goal[i])
    BY <2>2 DEF Settled
  <2>8. \A i \in Images : Wanted(d, i)' = Wanted(d, i)
    BY <1>1, <2>3 DEF Wanted, Specs, SameImages, SameReads
  <2>9. GatewayDone(d)'
    BY <2>2, <2>3, <2>6 DEF GatewayDone, Images
  <2>10. Applies(d)' /\ Clears(d)'
    BY <1>1, <2>2, <2>3, <2>6, <2>7, <2>8, <2>9 DEF Applies, Clears
  <2> QED
    BY <1>1, <1>2, <2>3, <2>5, <2>10, QuietRunStep DEF RunOK
<1>4. CASE lock # None
  BY <1>1, <1>2, <1>4, EndFacts, QuietRunStep DEF ApplyBegin
<1> QED
  BY <1>3, <1>4

(* What becomes of a service that Terraform creates or changes.            *)
LEMMA OutcomeFacts ==
  ASSUME World, NEW i \in Images, NEW want \in Goals, NEW out \in Outcomes(i, want)
  PROVE  /\ out[1] \in Services \cup {None}
         /\ out[2] \in BOOLEAN /\ (out[2] => Settled(out[1], want))
         /\ out[1] = None => tf.svc[i] = None
         /\ out[1] = tf.svc[i] \/ out[1] = None \/ out[1].env = want.env
<1> DEFINE old == tf.svc[i]
           new == Service(i, want)
           broken == [new EXCEPT !.tainted = TRUE]
<1>1. old \in Services \cup {None} /\ want # None
  BY NoneAssumption DEF World
<1>2. /\ new.region = want.region /\ new.env = want.env /\ broken.env = want.env
      /\ want.image # None => new.image = want.image
  BY DEF Service
<1>3. new.image # None => new \in Services /\ broken \in Services
  <2>1. Found(i, Latest) \in Contents \cup {None}
    BY DEF World, RegistryOK, Found
  <2> QED
    BY <2>1, FlagsAssumption DEF Service, Services, Goals
<1>4. \/ out = << old, FALSE >>
      \/ old = None /\ out = << None, FALSE >>
      \/ new.image # None /\ out \in {<< new, TRUE >>, << broken, FALSE >>}
  BY DEF Outcomes
<1>5. CASE out = << old, FALSE >>
  BY <1>1, <1>5
<1>6. CASE old = None /\ out = << None, FALSE >>
  BY <1>6
<1>7. CASE new.image # None /\ out = << new, TRUE >>
  <2>1. new # None /\ new \in Services
    BY <1>3, <1>7, NoneAssumption
  <2> QED
    BY <1>1, <1>2, <1>7, <2>1 DEF Settled
<1>8. CASE new.image # None /\ out = << broken, FALSE >>
  <2>1. broken # None /\ broken \in Services
    BY <1>3, <1>8, NoneAssumption
  <2> QED
    BY <1>2, <1>8, <2>1
<1> QED
  BY <1>4, <1>5, <1>6, <1>7, <1>8

(* Only Terraform's own run changes a service, and one that is done stays. *)
LEMMA ServiceStepOK ==
  ASSUME DInv, NEW d \in Deploys, NEW i \in Images, Destroy(d, i) \/ ApplyService(d, i),
         NEW svc \in Services \cup {None}, Written(i, svc),
         StepOf(d), SameImages(d), run'[d].step = "applying", run'[d].goal = run[d].goal,
         run'[d].drop \subseteq run[d].drop, run'[d].todo \subseteq run[d].todo,
         run'[d].broken \subseteq Images,
         \A j \in run'[d].drop : run[d].goal[j] # None => j \in run'[d].todo,
         \A j \in Images \ (run'[d].drop \cup run'[d].todo \cup run'[d].broken) :
           IF j = i THEN Settled(svc, run[d].goal[i])
           ELSE j \notin run[d].drop \cup run[d].todo \cup run[d].broken,
         GatewayDone(d)'
  PROVE  DInv'
<1>1. /\ Shaped /\ World /\ tf.serial \in Nat /\ run[d].step = "applying"
      /\ Applies(d) /\ UNCHANGED << tree, rushed, registry >>
  BY DEF DInv, IInv, RunOK, Destroy, ApplyService
<1>2. IInv' /\ lock = d /\ Grows /\ ByHash'
  BY <1>1, ApplyServiceStep, RegistryStays DEF DInv
<1>7. /\ tf'.svc = [tf.svc EXCEPT ![i] = svc] /\ DOMAIN tf' = {"serial", "svc"}
      /\ Advances
  BY <1>1 DEF World, Advances, Written
<1>8. World'
  BY <1>1, <1>2, <1>7 DEF World, Grows
<1>9. Imaged(d) /\ Imaged(d)'
  BY <1>1 DEF Imaged
<1>10. Loaded(d)' /\ AllFit(d)'
  BY <1>1, <1>9, Proceeds
<1>11. \A j \in Images \ (run'[d].drop \cup run'[d].todo \cup run'[d].broken) :
         Settled(tf'.svc[j], run'[d].goal[j])
  <2> SUFFICES ASSUME NEW j \in Images,
                      j \notin run'[d].drop \cup run'[d].todo \cup run'[d].broken
               PROVE  Settled(tf'.svc[j], run'[d].goal[j])
    OBVIOUS
  <2>1. CASE j = i
    BY <1>1, <1>7, <2>1 DEF World
  <2>2. CASE j # i
    <3>1. /\ j \notin run[d].drop \cup run[d].todo \cup run[d].broken
          /\ tf'.svc[j] = tf.svc[j]
      BY <1>1, <1>7, <2>2 DEF World
    <3> QED
      BY <1>1, <3>1 DEF Applies
  <2> QED
    BY <2>1, <2>2
<1>12. Kept(d)' = Kept(d) /\ \A j \in Images : Wanted(d, j)' = Wanted(d, j)
  BY <1>1 DEF Kept, Wanted, Specs, SameImages, SameReads
<1>13. Applies(d)' /\ Clears(d)'
  BY <1>1, <1>11, <1>12 DEF Applies, Clears, SameImages, SameReads
<1> QED
  BY <1>1, <1>2, <1>7, <1>8, <1>10, <1>13, RunStep DEF RunOK

(* A new service of the gateway or of another image, for GatewayDone.      *)
LEMMA GatewayStays ==
  ASSUME DInv, NEW d \in Deploys, run[d].step = "applying", NEW i \in Images \ {Gateway},
         NEW svc, Written(i, svc), run'[d].goal = run[d].goal,
         run'[d].drop \subseteq run[d].drop, run'[d].todo \subseteq run[d].todo,
         Gateway \in run[d].todo => Gateway \in run'[d].todo
  PROVE  GatewayDone(d)'
<1>1. GatewayDone(d)
  BY DEF DInv, RunOK, Applies
<1>2. tf'.svc[Gateway] = tf.svc[Gateway]
  BY DEF Written, DInv, World, Images
<1>3. Kept(d)' = Kept(d)
  BY DEF Kept
<1> QED
  BY <1>1, <1>2, <1>3 DEF GatewayDone

(* A service is destroyed, or its protection or an error keeps it.         *)
LEMMA DestroyOK ==
  ASSUME DInv, NEW d \in Deploys, NEW i \in Images, Destroy(d, i)
  PROVE  DInv'
<1>1. /\ Shaped /\ World /\ run[d].step = "applying" /\ i \in run[d].drop /\ Applies(d)
  BY DEF DInv, IInv, RunOK, Destroy, Destroyable
<1>2. CASE run' = [run EXCEPT ![d].drop = @ \ {i}] /\ Written(i, None)
  <2>1. /\ StepOf(d) /\ SameImages(d) /\ run'[d].step = "applying"
        /\ run'[d].goal = run[d].goal /\ run'[d].todo = run[d].todo
        /\ run'[d].drop = run[d].drop \ {i} /\ run'[d].broken = run[d].broken
    BY <1>1, <1>2, FieldsOfRun DEF Shaped, StepOf, SameImages, SameReads
  <2>2. i \notin run[d].todo => Settled(None, run[d].goal[i])
    BY <1>1 DEF Applies, Settled
  <2>3. GatewayDone(d)'
    <3>1. CASE i = Gateway
      <4>1. tf'.svc[Gateway] = None
        BY <1>1, <1>2, <3>1 DEF Written, World
      <4> QED
        BY <4>1 DEF GatewayDone
    <3>2. CASE i # Gateway
      BY <1>1, <1>2, <2>1, <3>2, GatewayStays
    <3> QED
      BY <3>1, <3>2
  <2> HIDE DEF Written, StepOf, SameImages, Settled, GatewayDone
  <2> QED
    BY <1>1, <1>2, <2>1, <2>2, <2>3, ServiceStepOK DEF Applies
<1>3. CASE run' = [run EXCEPT ![d].broken = @ \cup {i}] /\ UNCHANGED tf
  <2>1. /\ StepOf(d) /\ SameImages(d) /\ run'[d].step = "applying"
        /\ run'[d].goal = run[d].goal /\ run'[d].todo = run[d].todo
        /\ run'[d].drop = run[d].drop /\ run'[d].broken = run[d].broken \cup {i}
    BY <1>1, <1>3, FieldsOfRun DEF Shaped, StepOf, SameImages, SameReads
  <2>2. Written(i, tf.svc[i]) /\ tf.svc[i] \in Services \cup {None}
    BY <1>1, <1>3 DEF Written, World
  <2>3. GatewayDone(d)'
    <3>1. GatewayDone(d) /\ Kept(d)' = Kept(d)
      BY <1>1, <2>1 DEF Applies, Kept
    <3> QED
      BY <1>3, <2>1, <3>1 DEF GatewayDone
  <2> QED
    BY <1>1, <2>1, <2>2, <2>3, ServiceStepOK DEF Applies
<1> QED
  BY <1>2, <1>3 DEF Destroy

(* A service is created or changed.                                        *)
LEMMA ApplyServiceOK ==
  ASSUME DInv, NEW d \in Deploys, NEW i \in Images, ApplyService(d, i)
  PROVE  DInv'
<1>1. /\ Shaped /\ World /\ run[d].step = "applying" /\ Applies(d)
      /\ i \in run[d].todo \ run[d].drop /\ Ready(d, i)
  BY DEF DInv, IInv, RunOK, ApplyService, Ready
<1> DEFINE want == run[d].goal[i]
<1>2. want \in Goals
  BY <1>1 DEF Applies
<1>3. PICK out \in Outcomes(i, want) :
        /\ Written(i, out[1])
        /\ run' = [run EXCEPT ![d].todo = @ \ {i},
                              ![d].broken = IF out[2] THEN @ ELSE @ \cup {i}]
  BY DEF ApplyService
<1>4. /\ out[1] \in Services \cup {None} /\ out[2] \in BOOLEAN
      /\ out[2] => Settled(out[1], want)
      /\ out[1] = tf.svc[i] \/ out[1] = None \/ out[1].env = want.env
      /\ out[1] = None => tf.svc[i] = None
  BY <1>1, <1>2, <1>3, OutcomeFacts
<1>5. /\ StepOf(d) /\ SameImages(d) /\ run'[d].step = "applying"
      /\ run'[d].goal = run[d].goal /\ run'[d].todo = run[d].todo \ {i}
      /\ run'[d].drop = run[d].drop
      /\ run'[d].broken = IF out[2] THEN run[d].broken ELSE run[d].broken \cup {i}
  BY <1>1, <1>3, FieldsOfRun DEF Shaped, StepOf, SameImages, SameReads
<1>6. GatewayDone(d)'
  <2>1. CASE i = Gateway
    <3>1. Kept(d) \cap run[d].todo = {} /\ (tf.svc[Gateway] # None => run[d].drop = {})
      BY <1>1, <2>1 DEF Ready
    <3>2. tf'.svc[Gateway] = out[1]
      BY <1>1, <1>3, <2>1 DEF Written, World
    <3>3. Kept(d)' = Kept(d) /\ want.env = Kept(d)
      BY <1>1, <1>5, <2>1 DEF Applies, Kept
    <3> QED
      BY <1>4, <1>5, <2>1, <3>1, <3>2, <3>3 DEF GatewayDone
  <2>2. CASE i # Gateway
    <3>1. Gateway \in run[d].todo => Gateway \in run'[d].todo
      BY <1>5, <2>2
    <3> QED
      BY <1>1, <1>3, <1>5, <2>2, <3>1, GatewayStays
  <2> QED
    BY <2>1, <2>2
<1>7. /\ run'[d].broken \subseteq Images
      /\ \A j \in run'[d].drop : run[d].goal[j] # None => j \in run'[d].todo
  BY <1>1, <1>4, <1>5 DEF Applies
<1>8. \A j \in Images \ (run'[d].drop \cup run'[d].todo \cup run'[d].broken) :
        IF j = i THEN Settled(out[1], want)
        ELSE j \notin run[d].drop \cup run[d].todo \cup run[d].broken
  BY <1>4, <1>5
<1> QED
  BY <1>3, <1>4, <1>5, <1>6, <1>7, <1>8, ServiceStepOK

LEMMA EndStepsOK ==
  ASSUME DInv, NEW d \in Deploys, ApplyEnd(d) \/ Abort(d)
  PROVE  DInv'
<1>1. Shaped /\ UNCHANGED << tree, rushed, registry, tf >>
  BY DEF DInv, IInv, ApplyEnd, Abort
<1>2. IInv'
  BY EndSteps DEF DInv
<1>3. StepOf(d) /\ RunOK(d)'
  BY <1>1, EndFacts DEF ApplyEnd, Abort
<1> QED
  BY <1>1, <1>2, <1>3, RegistryStays, QuietRunStep

(* An edit: what was read before is not the checkout any more.             *)
LEMMA EditOK ==
  ASSUME DInv, Edit, IInv'
  PROVE  DInv'
<1>1. UNCHANGED << registry, run, tf, lock >> /\ tree \in Trees /\ rushed \in BOOLEAN
  BY DEF DInv, World, Edit
<1>2. PICK kind \in Edits : tree' \in Edited(kind)
  BY DEF Edit
<1>3. tree' \in Trees /\ tree'.edits = tree.edits + 1
  BY <1>1, <1>2 DEF Edited, Trees
<1>4. rushed' \in BOOLEAN /\ (~rushed' => ~rushed /\ \A d \in Deploys : ~Unstarted(d))
  BY <1>1 DEF Edit
<1>5. World'
  BY <1>1, <1>3, <1>4 DEF DInv, World, RegistryOK
<1>6. ByHash'
  BY <1>1, <1>4 DEF DInv, ByHash
<1>7. \A t : Read(t) => Read(t)' /\ t # tree'
  BY <1>1, <1>3 DEF Read, Trees
<1>8. ASSUME NEW d \in Deploys PROVE RunOK(d)'
  <2>1. RunOK(d)
    BY DEF DInv
  <2>2. /\ Active(d)' = Active(d) /\ Imaging(d)' = Imaging(d) /\ Imaged(d)' = Imaged(d)
        /\ Specs(d)' = Specs(d) /\ Kept(d)' = Kept(d)
        /\ \A i : ImageOK(d, i)' = ImageOK(d, i)
    BY <1>1 DEF Active, Imaging, Imaged, Specs, Kept, ImageOK, HashedTag, InputHash, Inputs
  <2>3. \A t : GpuOk(t)' = GpuOk(t)
    BY DEF GpuOk
  <2>4. Loaded(d)'
    BY <1>1, <1>7, <2>1, <2>2, <2>3 DEF RunOK, Loaded
  <2>5. AllFit(d)'
    <3> SUFFICES ASSUME ~rushed', Imaging(d), NEW i \in Specs(d) PROVE Fits(d, i)'
      BY <2>2 DEF AllFit
    <3>1. Fits(d, i) /\ ~Unstarted(d)
      BY <1>4, <2>1 DEF RunOK, AllFit
    <3>2. run[d].step = "images" \/ Imaged(d)
      BY <3>1, <2>1 DEF Imaging, Active, Imaged, Unstarted
    <3>3. ~run[d].skip => run[d].image[i] \notin {"unknown", "absent"}
      BY <2>1, <3>1, <3>2 DEF RunOK, Loaded, Unstarted
    <3> QED
      BY <1>1, <3>1, <3>3 DEF Fits, HashedTag, InputHash, Inputs
  <2>6. Clears(d)'
    BY <1>1, <2>1 DEF RunOK, Clears, Unprotected
  <2>7. Applies(d)'
    <3>1. run[d].step = "applying" => run[d].loaded # tree'
      BY <1>7, <2>1 DEF RunOK, Loaded, Active, Imaging, Imaged
    <3> QED
      BY <1>1, <2>1, <2>2, <3>1 DEF RunOK, Applies, GatewayDone
  <2> QED
    BY <2>4, <2>5, <2>6, <2>7 DEF RunOK
<1> QED
  BY <1>5, <1>6, <1>8 DEF DInv

LEMMA StepOK ==
  ASSUME DInv, [Next]_vars
  PROVE  DInv'
<1>1. IInv'
  BY StepHolds DEF DInv
<1>2. CASE UNCHANGED vars
  <2>1. UNCHANGED << tree, registry, run, tf, rushed >>
    BY <1>2 DEF vars
  <2>2. World' /\ ByHash'
    BY <2>1 DEF DInv, World, RegistryOK, ByHash
  <2>3. ASSUME NEW d \in Deploys PROVE RunOK(d)'
    <3>1. /\ Active(d)' = Active(d) /\ Imaging(d)' = Imaging(d) /\ Imaged(d)' = Imaged(d)
          /\ Specs(d)' = Specs(d) /\ Kept(d)' = Kept(d)
          /\ \A i : ImageOK(d, i)' = ImageOK(d, i) /\ Fits(d, i)' = Fits(d, i)
      BY <2>1 DEF Active, Imaging, Imaged, Specs, Kept, ImageOK, Fits, HashedTag,
                  InputHash, Inputs
    <3>2. /\ \A t : Read(t)' = Read(t) /\ GpuOk(t)' = GpuOk(t)
          /\ \A i : Wanted(d, i)' = Wanted(d, i)
      BY <2>1, <3>1 DEF Read, GpuOk, Wanted
    <3>3. RunOK(d)
      BY DEF DInv
    <3>4. Loaded(d)' /\ AllFit(d)'
      BY <2>1, <3>1, <3>2, <3>3 DEF RunOK, Loaded, AllFit
    <3>5. Clears(d)'
      BY <2>1, <3>3 DEF RunOK, Clears, Unprotected
    <3>6. Applies(d)'
      BY <2>1, <3>1, <3>2, <3>3 DEF RunOK, Applies, GatewayDone
    <3> QED
      BY <3>4, <3>5, <3>6 DEF RunOK
  <2> QED
    BY <1>1, <2>2, <2>3 DEF DInv
<1> QED
  BY <1>1, <1>2, PlainStepsOK, ImageStepsOK, DestroyOK, ApplyServiceOK, PullOK, PushOK,
     ApplyBeginOK, EndStepsOK, EditOK DEF Next

LEMMA InitOK == Init => DInv
<1> SUFFICES ASSUME Init PROVE DInv
  OBVIOUS
<1>1. IInv
  BY InitHolds
<1>2. tree \in Trees /\ rushed = FALSE
  BY DEF Init, Trees
<1>3. \A d \in Deploys : run[d].step = "idle" /\ run[d].there = {}
  BY FieldsOfRun DEF Init, Idle
<1>4. PICK past \in {"nothing", "legacy", "current"} :
       LET fleet == IF past = "nothing" THEN {} ELSE tree.models \cup {Gateway}
           built(i) == Inputs(i, [tree EXCEPT !.code = IF past = "legacy" THEN 0 ELSE 1])
           tags(i)  == {Latest} \cup (IF past = "legacy" THEN {} ELSE {InputHash(i, tree)})
       IN  /\ registry = [i \in Images |->
                [tag \in IF i \in fleet THEN tags(i) ELSE {} |-> built(i)]]
           /\ tf = [serial |-> 0, svc |-> [i \in Images |->
                IF i \notin fleet THEN None
                ELSE [image |-> built(i),
                      env |-> IF i = Gateway THEN tree.models ELSE {},
                      region |-> tree.region,
                      named |-> i = Gateway \/ past = "current",
                      tainted |-> FALSE, protected |-> Protect]]]
  BY DEF Init
<1> DEFINE fleet == IF past = "nothing" THEN {} ELSE tree.models \cup {Gateway}
           old == [tree EXCEPT !.code = IF past = "legacy" THEN 0 ELSE 1]
           built(i) == Inputs(i, old)
           tags(i)  == {Latest} \cup (IF past = "legacy" THEN {} ELSE {InputHash(i, tree)})
<1>5. /\ old \in Trees /\ old.models = tree.models
      /\ old.code = IF past = "legacy" THEN 0 ELSE 1
  BY <1>2 DEF Trees
<1>6. \A i \in Images :
        built(i) \in Contents /\ InputHash(i, tree) \in Contents
  BY <1>2, <1>5, InputsAreContents DEF InputHash, Inputs
<1>7. \A i \in Images : past # "legacy" => built(i) = InputHash(i, tree)
  BY <1>5 DEF Init, InputHash, Inputs
<1>8. /\ DOMAIN registry = Images
      /\ \A i \in Images : \A tag \in DOMAIN registry[i] :
           tag \in tags(i) /\ registry[i][tag] = built(i)
  BY <1>4
<1>9. tf.svc = [i \in Images |->
                IF i \notin fleet THEN None
                ELSE [image |-> built(i),
                      env |-> IF i = Gateway THEN tree.models ELSE {},
                      region |-> tree.region,
                      named |-> i = Gateway \/ past = "current",
                      tainted |-> FALSE, protected |-> Protect]]
      /\ DOMAIN tf = {"serial", "svc"}
  BY <1>4
<1> HIDE DEF built
<1>10. RegistryOK
  BY <1>6, <1>8 DEF RegistryOK
<1>11. ByHash
  BY <1>7, <1>8 DEF ByHash
<1>12. tf.svc \in [Images -> Services \cup {None}]
  <2> SUFFICES ASSUME NEW i \in Images
               PROVE  [image |-> built(i),
                       env |-> IF i = Gateway THEN tree.models ELSE {},
                       region |-> tree.region,
                       named |-> i = Gateway \/ past = "current",
                       tainted |-> FALSE, protected |-> Protect] \in Services
    BY <1>9
  <2>1. (IF i = Gateway THEN tree.models ELSE {}) \in SUBSET Models /\ tree.region \in Regions
    BY <1>2 DEF Trees
  <2> QED
    BY <1>6, <2>1, FlagsAssumption DEF Services
<1>13. World
  BY <1>2, <1>9, <1>10, <1>12 DEF World
<1>14. \A d \in Deploys : RunOK(d)
  BY <1>3 DEF RunOK, Loaded, AllFit, Clears, Applies, Active, Imaging, Imaged
<1> QED
  BY <1>1, <1>11, <1>13, <1>14 DEF DInv

-----------------------------------------------------------------------------
(* What follows.                                                           *)

(* Whoever ran first, pushed half of an image or moved :latest: a run with *)
(* --skip-build that saw an image of its inputs deploys that one.          *)
THEOREM DeploysReviewed == Spec => []ReviewedIsApplied
<1>1. DInv => ReviewedIsApplied
  <2> SUFFICES ASSUME DInv, NEW d \in Deploys, ~rushed, NEW i \in run[d].there,
                      run[d].image[i] = "pinned"
               PROVE  run[d].pin[i] = Inputs(i, run[d].hashed)
    BY DEF ReviewedIsApplied
  <2>1. Loaded(d) /\ AllFit(d)
    BY DEF DInv, RunOK
  <2>2. Imaging(d) /\ i \in Specs(d)
    BY <2>1 DEF Loaded, Active
  <2> QED
    BY <2>1, <2>2 DEF AllFit, Fits
<1>2. DInv /\ [Next]_vars => DInv'
  BY StepOK
<1> QED
  BY <1>1, <1>2, InitOK, PTL DEF Spec

(* What an apply would replace is not protected when it starts.            *)
THEOREM TargetsAreUnlocked == Spec => []ReplaceTargetsUnlocked
<1>1. DInv => ReplaceTargetsUnlocked
  BY DEF DInv, RunOK, Clears, Unprotected, ReplaceTargetsUnlocked
<1>2. DInv /\ [Next]_vars => DInv'
  BY StepOK
<1> QED
  BY <1>1, <1>2, InitOK, PTL DEF Spec

(* A step of another run leaves d alone; who is done applying has applied  *)
(* everything.                                                             *)
LEMMA SuccessMeansAll ==
  ASSUME DInv, Next, NEW d \in Deploys,
         run[d].step = "applying", run'[d].step = "done"
  PROVE  /\ UNCHANGED << tree, tf >>
         /\ run[d].drop = {} /\ run[d].todo = {} /\ run[d].broken = {}
<1>0. DOMAIN run = Deploys /\ Shaped
  BY DEF DInv, IInv, Shaped
<1>1. run' # run
  OBVIOUS
<1>2. PICK e \in Deploys :
        \/ \E skip \in BOOLEAN : Begin(e, skip) \/ Reject(e, skip)
        \/ Hash(e) \/ ImagesDone(e)
        \/ \E i \in Images :
             \/ Lookup(e, i) \/ LookupFails(e, i) \/ Fallback(e, i) \/ Start(e, i)
             \/ PushImage(e, i) \/ Resolve(e, i) \/ BuildFails(e, i)
             \/ Destroy(e, i) \/ ApplyService(e, i)
        \/ Plan(e) \/ Pull(e) \/ Push(e) \/ ApplyBegin(e) \/ ApplyEnd(e) \/ Abort(e)
  BY <1>1 DEF Next, Edit
<1>3. \A x \in Deploys \ {e} : run'[x] = run[x]
  <2>1. ASSUME NEW skip \in BOOLEAN, Begin(e, skip) \/ Reject(e, skip)
        PROVE  StepOf(e)
    BY <1>0, <2>1, BeginOK, Ends DEF Reject
  <2>2. ASSUME NEW i \in Images,
               \/ Lookup(e, i) \/ LookupFails(e, i) \/ Fallback(e, i) \/ Start(e, i)
               \/ PushImage(e, i) \/ Resolve(e, i) \/ BuildFails(e, i)
        PROVE  StepOf(e)
    BY <1>0, <2>2, Ends, LookupOK, FallbackOK, StartOK, PushImageOK, ResolveOK,
       BuildFailsOK DEF LookupFails
  <2>3. CASE Hash(e) \/ ImagesDone(e) \/ Plan(e) \/ ApplyEnd(e) \/ Abort(e)
    BY <1>0, <2>3, Ends, HashOK, ImagesDoneOK DEF Plan, ApplyEnd, Abort, StepOf
  <2>4. CASE Pull(e) \/ Push(e) \/ ApplyBegin(e)
    BY <1>0, <2>4 DEF Pull, Push, ApplyBegin, End
  <2>5. ASSUME NEW i \in Images, Destroy(e, i) \/ ApplyService(e, i)
        PROVE  \A x \in Deploys \ {e} : run'[x] = run[x]
    BY <1>0, <2>5 DEF Destroy, ApplyService
  <2> QED
    BY <1>2, <2>1, <2>2, <2>3, <2>4, <2>5 DEF StepOf
<1>4. e = d
  BY <1>3
<1>5. \A i \in Images : ~Destroy(d, i) /\ ~ApplyService(d, i)
  <2> SUFFICES ASSUME NEW i \in Images, Destroy(d, i) \/ ApplyService(d, i) PROVE FALSE
    OBVIOUS
  <2>1. run'[d].step = "applying"
    BY <1>0, FieldsOfRun DEF Destroy, ApplyService, Shaped
  <2> QED
    BY <2>1
<1>6. ApplyEnd(d) \/ Abort(d)
  BY <1>2, <1>4, <1>5 DEF Begin, Reject, Hash, ImagesDone, Lookup, LookupFails,
     Fallback, Start, PushImage, Resolve, BuildFails, Plan, Pull, Push, ApplyBegin, In
<1>7. ~End(d, "failed")
  BY <1>0, Ends
<1> QED
  BY <1>6, <1>7 DEF ApplyEnd, Abort

(* A successful apply leaves exactly the fleet of the checkout, if nobody  *)
(* has edited it since it was read, on the images of its inputs.           *)
THEOREM SuccessDeploysCheckout == Spec => SuccessIsCheckout
<1>1. ASSUME DInv, Next, NEW d \in Deploys,
             run[d].step = "applying", run'[d].step = "done", run[d].loaded = tree
      PROVE  /\ GpuOk(tree)
             /\ \A i \in Images :
                  IF i \in tree.models \cup {Gateway}
                  THEN /\ tf.svc[i] # None /\ tf.svc[i].region = tree.region
                       /\ run[d].skip \/ rushed \/ tf.svc[i].image = Inputs(i, tree)
                  ELSE tf.svc[i] = None
  <2>1. /\ Loaded(d) /\ AllFit(d) /\ Applies(d) /\ Active(d) /\ Imaging(d) /\ Imaged(d)
        /\ run[d].drop = {} /\ run[d].todo = {} /\ run[d].broken = {}
    BY <1>1, SuccessMeansAll DEF DInv, RunOK, Active, Imaging, Imaged
  <2>2. GpuOk(tree)
    BY <1>1, <2>1 DEF Loaded
  <2>3. \A i \in Images : Settled(tf.svc[i], Wanted(d, i))
    BY <1>1, <2>1 DEF Applies
  <2>4. run[d].hashed = tree
    BY <1>1, <2>1 DEF Loaded, Read, Trees
  <2>5. Specs(d) = tree.models \cup {Gateway} /\ Specs(d) \subseteq Images
    BY <1>1 DEF Specs, DInv, World, Trees, Images
  <2>6. ASSUME NEW i \in Images, i \in Specs(d)
        PROVE  /\ tf.svc[i] # None /\ tf.svc[i].region = tree.region
               /\ run[d].skip \/ rushed \/ tf.svc[i].image = Inputs(i, tree)
    <3> DEFINE want == [image |-> run[d].pin[i],
                        env   |-> IF i = Gateway THEN tree.models ELSE {},
                        region |-> tree.region]
    <3>1. Wanted(d, i) = want
      BY <2>5, <2>6 DEF Wanted
    <3>2. run[d].image[i] = "pinned" /\ run[d].pin[i] \in Contents
      BY <2>1, <2>6 DEF Loaded, ImageOK
    <3>3. want \in Goals
      BY <1>1, <3>2 DEF DInv, World, Trees, Goals
    <3>4. Settled(tf.svc[i], want) /\ want # None
      BY <2>3, <2>6, <3>1, <3>3, NoneAssumption
    <3>5. tf.svc[i] # None /\ tf.svc[i].region = tree.region /\ tf.svc[i].image = run[d].pin[i]
      BY <3>2, <3>4, NoneAssumption DEF Settled
    <3>6. ~run[d].skip /\ ~rushed => run[d].pin[i] = Inputs(i, tree)
      BY <2>1, <2>4, <2>6, <3>2 DEF AllFit, Fits
    <3> QED
      BY <3>5, <3>6
  <2>7. ASSUME NEW i \in Images, i \notin Specs(d)
        PROVE  tf.svc[i] = None
    BY <2>3, <2>5, <2>7 DEF Wanted, Settled
  <2> QED
    BY <2>2, <2>5, <2>6, <2>7
<1>2. DInv /\ [Next]_vars =>
        [\A d \in Deploys :
           /\ run[d].step = "applying" /\ run'[d].step = "done"
           /\ run[d].loaded = tree
           => /\ GpuOk(tree)
              /\ \A i \in Images :
                   IF i \in tree.models \cup {Gateway}
                   THEN /\ tf.svc[i] # None /\ tf.svc[i].region = tree.region
                        /\ run[d].skip \/ rushed \/ tf.svc[i].image = Inputs(i, tree)
                   ELSE tf.svc[i] = None]_vars
  BY <1>1
<1>3. DInv /\ [Next]_vars => DInv'
  BY StepOK
<1> QED
  BY <1>2, <1>3, InitOK, PTL DEF Spec, SuccessIsCheckout

-----------------------------------------------------------------------------
(* The routes of the gateway.                                              *)

(* A change of the state outside of an apply: the same services are there, *)
(* with the same environment.                                              *)
LEMMA PushKeepsRoutes ==
  ASSUME DInv, NEW d \in Deploys, Push(d)
  PROVE  /\ \A m \in Models : Routed(m)' = Routed(m)
         /\ \A m \in Models : tf'.svc[m] = None => tf.svc[m] = None
<1>1. \A i \in Images : tf'.svc[i] = tf.svc[i] \/ Cleared(tf'.svc[i], tf.svc[i])
  BY PushStep DEF DInv
<1>2. \A i \in Images : tf.svc[i] # None => tf.svc[i] \in Services
  BY DEF DInv, World
<1>3. ASSUME NEW i \in Images, Cleared(tf'.svc[i], tf.svc[i])
      PROVE  /\ tf'.svc[i] # None /\ tf.svc[i] # None
             /\ tf'.svc[i].env = tf.svc[i].env
  <2>1. tf.svc[i] # None /\ tf.svc[i] \in Services
    BY <1>2, <1>3 DEF Cleared
  <2>2. tf'.svc[i] = [tf.svc[i] EXCEPT !.protected = FALSE]
    BY <1>3 DEF Cleared
  <2>3. tf'.svc[i] \in Services /\ tf'.svc[i].env = tf.svc[i].env
    BY <2>1, <2>2 DEF Services
  <2> QED
    BY <2>1, <2>3, NoneAssumption
<1>4. Gateway \in Images /\ Models \subseteq Images
  BY DEF Images
<1> QED
  BY <1>1, <1>3, <1>4 DEF Routed

(* What comes after the gateway in an apply destroys no worker it calls.   *)
LEMMA DestroyKeepsRoutes ==
  ASSUME DInv, NEW d \in Deploys, NEW i \in Images, Destroy(d, i),
         NEW m \in Models, Routed(m)', tf'.svc[m] = None
  PROVE  Routed(m) /\ (tf.svc[m] = None \/ Gateway \in run'[d].todo)
<1>1. /\ World /\ Shaped /\ Applies(d) /\ run[d].step = "applying" /\ Destroyable(d, i)
  BY DEF DInv, IInv, RunOK, Destroy
<1>2. CASE UNCHANGED tf
  BY <1>2 DEF Routed
<1>3. CASE Written(i, None) /\ run' = [run EXCEPT ![d].drop = @ \ {i}]
  <2>1. /\ \A j \in Images : tf'.svc[j] = IF j = i THEN None ELSE tf.svc[j]
        /\ Gateway \in Images /\ m \in Images /\ m # Gateway
    BY <1>1, <1>3, SetsAssumption DEF World, Written, Images
  <2>2. i # Gateway /\ Routed(m) /\ tf.svc[Gateway] # None /\ m \in tf.svc[Gateway].env
    BY <2>1 DEF Routed
  <2>3. CASE tf.svc[m] = None
    BY <2>2, <2>3
  <2>4. CASE tf.svc[m] # None
    <3>1. i = m /\ m \in run[d].drop
      BY <1>1, <2>1, <2>4 DEF Destroyable
    <3>2. Gateway \in run[d].todo
      <4> SUFFICES ASSUME Gateway \notin run[d].todo PROVE FALSE
        OBVIOUS
      <4>1. tf.svc[Gateway].env = Kept(d) /\ Kept(d) \cap run[d].todo = {}
        BY <1>1, <2>2, <3>1 DEF Applies, GatewayDone
      <4>2. m \in run[d].todo
        BY <1>1, <2>2, <3>1, <4>1 DEF Applies, Kept
      <4> QED
        BY <2>2, <4>1, <4>2
    <3>3. run'[d].todo = run[d].todo
      BY <1>1, <1>3, FieldsOfRun DEF Shaped
    <3> QED
      BY <2>2, <3>2, <3>3
  <2> QED
    BY <2>3, <2>4
<1> QED
  BY <1>2, <1>3 DEF Destroy

(* What is created or changed takes no worker away; the gateway comes when *)
(* the workers that it calls are there.                                    *)
LEMMA ApplyKeepsRoutes ==
  ASSUME DInv, NEW d \in Deploys, NEW i \in Images, ApplyService(d, i),
         NEW m \in Models, Routed(m)', tf'.svc[m] = None
  PROVE  Routed(m) /\ tf.svc[m] = None
<1>1. /\ World /\ Applies(d) /\ run[d].step = "applying" /\ Ready(d, i)
  BY DEF DInv, RunOK, ApplyService
<1> DEFINE goal == run[d].goal
<1>2. goal[i] \in Goals /\ goal[Gateway].env = Kept(d)
  BY <1>1 DEF Applies, Ready
<1>3. PICK out \in Outcomes(i, goal[i]) : Written(i, out[1])
  BY DEF ApplyService
<1>4. /\ out[1] = None => tf.svc[i] = None
      /\ out[1] = tf.svc[i] \/ out[1] = None \/ out[1].env = goal[i].env
  BY <1>1, <1>2, <1>3, OutcomeFacts
<1>5. /\ \A j \in Images : tf'.svc[j] = IF j = i THEN out[1] ELSE tf.svc[j]
      /\ Gateway \in Images /\ m \in Images /\ m # Gateway
  BY <1>1, <1>3, SetsAssumption DEF World, Written, Images
<1>6. tf.svc[m] = None
  BY <1>4, <1>5
<1>7. tf'.svc[Gateway] # None /\ m \in tf'.svc[Gateway].env
  BY DEF Routed
<1>8. CASE tf'.svc[Gateway] = tf.svc[Gateway]
  BY <1>6, <1>7, <1>8 DEF Routed
<1>9. CASE tf'.svc[Gateway] # tf.svc[Gateway]
  <2>1. i = Gateway /\ m \in Kept(d)
    BY <1>2, <1>4, <1>5, <1>7, <1>9
  <2>2. m \notin run[d].todo \cup run[d].broken /\ goal[m] # None
    BY <1>1, <2>1 DEF Ready, Kept
  <2>3. m \notin run[d].drop
    BY <1>1, <2>2 DEF Applies
  <2>4. Settled(tf.svc[m], goal[m])
    BY <1>1, <1>5, <2>2, <2>3 DEF Applies
  <2> QED
    BY <1>6, <2>2, <2>4 DEF Settled
<1> QED
  BY <1>8, <1>9

(* A step of the state leads no route to nowhere but the destruction of a  *)
(* worker by an apply that has the gateway ahead.                          *)
LEMMA StepKeepsRoutes ==
  ASSUME DInv, [Next]_vars, NEW m \in Models, Routed(m)', tf'.svc[m] = None
  PROVE  /\ Routed(m)
         /\ \/ tf.svc[m] = None
            \/ \E d \in Deploys : lock = d /\ Gateway \in run'[d].todo
<1>1. CASE UNCHANGED tf
  BY <1>1 DEF Routed
<1>2. ASSUME NEW d \in Deploys, Push(d) PROVE Routed(m) /\ tf.svc[m] = None
  BY <1>2, PushKeepsRoutes
<1>3. ASSUME NEW d \in Deploys, NEW i \in Images, Destroy(d, i)
      PROVE  /\ Routed(m)
             /\ tf.svc[m] = None \/ (lock = d /\ Gateway \in run'[d].todo)
  BY <1>3, DestroyKeepsRoutes, ApplyServiceStep DEF DInv
<1>4. ASSUME NEW d \in Deploys, NEW i \in Images, ApplyService(d, i)
      PROVE  Routed(m) /\ tf.svc[m] = None
  BY <1>4, ApplyKeepsRoutes
<1>5. CASE \E d \in Deploys, i \in Images : Destroy(d, i) \/ ApplyService(d, i)
  BY <1>3, <1>4, <1>5
<1>6. CASE \E d \in Deploys : Push(d)
  BY <1>2, <1>6
<1>7. CASE Edit \/ UNCHANGED vars
  BY <1>1, <1>7 DEF Edit, vars
<1> QED
  BY <1>1, <1>5, <1>6, <1>7, PlainSteps, ImageSteps, PullStep, ApplyBeginStep,
     EndSteps DEF Next, DInv

(* An apply that succeeds has settled the gateway on workers that are there*)
LEMMA SuccessKeepsRoutes ==
  ASSUME DInv, Next, NEW d \in Deploys,
         run[d].step = "applying", run'[d].step = "done",
         NEW m \in Models, Routed(m)'
  PROVE  tf'.svc[m] # None
<1>1. UNCHANGED tf /\ Applies(d) /\ run[d].drop \cup run[d].todo \cup run[d].broken = {}
  BY SuccessMeansAll DEF DInv, RunOK
<1>2. Gateway \in Images /\ m \in Images
  BY DEF Images
<1>3. Settled(tf.svc[Gateway], run[d].goal[Gateway]) /\ Settled(tf.svc[m], run[d].goal[m])
  BY <1>1, <1>2 DEF Applies
<1>4. m \in Kept(d)
  BY <1>1, <1>3 DEF Settled, Applies, Routed
<1> QED
  BY <1>1, <1>3, <1>4 DEF Settled, Kept

(* No step gives the gateway the URL of a worker that is not there, a      *)
(* worker is destroyed under its URL only with the gateway ahead, and a    *)
(* successful apply leaves no URL that leads nowhere.                      *)
THEOREM RoutesLeadToWorkers == Spec => NoDanglingRoute
<1> DEFINE Keeps == \A m \in Models :
             Routed(m)' /\ tf'.svc[m] = None =>
               /\ Routed(m)
               /\ \/ tf.svc[m] = None
                  \/ \E d \in Deploys : lock = d /\ Gateway \in run'[d].todo
           Succeeds == \A d \in Deploys :
             run[d].step = "applying" /\ run'[d].step = "done" =>
               \A m \in Models : Routed(m)' => tf'.svc[m] # None
<1>1. DInv /\ [Next]_vars => Keeps
  BY StepKeepsRoutes
<1>2. DInv /\ [Next]_vars => [Succeeds]_vars
  BY SuccessKeepsRoutes
<1>3. DInv /\ [Next]_vars => [Keeps /\ Succeeds]_vars
  BY <1>1, <1>2
<1>4. DInv /\ [Next]_vars => DInv'
  BY StepOK
<1> QED
  BY <1>3, <1>4, InitOK, PTL DEF Spec, NoDanglingRoute

=============================================================================
