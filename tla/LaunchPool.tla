----------------------------- MODULE LaunchPool -----------------------------
(***************************************************************************)
(* How one pool of the AWS gateway grows: the launch lock, the launch      *)
(* reservation, the count against max_instances, the launch itself and its *)
(* clean-up (launchAndClaim in app/aws/gateway/pool.ts), and what the      *)
(* lifecycle function removes of abandoned launches                        *)
(* (app/aws/lifecycle/service.ts).                                         *)
(*                                                                         *)
(* A call of launchAndClaim writes at most one reservation and, with its   *)
(* stable clientToken, starts at most one MicroVM, so a call names its     *)
(* reservation, its MicroVM and its INSTANCE row.  The life of a worker in *)
(* service is that of LeasePool, reduced to what the count reads: here a   *)
(* worker takes one lease, and is busy or not.                             *)
(***************************************************************************)
EXTENDS Naturals, FiniteSets

CONSTANTS
  Calls,              (* Calls of launchAndClaim.                          *)
  Sweepers,           (* Concurrent runs of the reconciliation.            *)
  MaxInstances,       (* config.max_instances.                             *)
  LockSeconds,        (* launchLockSeconds (180 s).                        *)
  ReservationSeconds, (* ttl_at of a reservation (300 s).                  *)
  SoftTtl,            (* softTtlSeconds.                                   *)
  HardTtl,            (* hardTtlSeconds, also the platform's maximum.      *)
  Headroom,           (* hardExpiryHeadroomSeconds.                        *)
  OrphanGrace,        (* orphanGraceSeconds.                               *)
  SurveyTime,         (* Bound: clock ticks from taking the lock to        *)
                      (* writing the reservation.                          *)
  LaunchTime,         (* Bound: clock ticks from the survey of the pool to *)
                      (* registration: the two readiness waits.            *)
  ClaimLag,           (* Bound: clock ticks from the clock reads of a      *)
                      (* claim to its commit.                              *)
  MaxClock,           (* Bound: the last clock value explored.             *)
  MaxStart,           (* Bound: the last clock value at which a call       *)
                      (* begins.                                           *)
  Faults,             (* The calls that may fail, a subset of FaultKinds.  *)
  Nobody              (* No lock owner.                                    *)

FaultKinds == {"launch", "boot", "register", "undo", "fence", "sweep"}

ASSUME CallsAssumption == IsFiniteSet(Calls) /\ Nobody \notin Calls
ASSUME BoundsAssumption ==
  /\ MaxInstances \in Nat /\ LockSeconds \in Nat
  /\ ReservationSeconds \in Nat /\ SoftTtl \in Nat /\ HardTtl \in Nat
  /\ Headroom \in Nat /\ OrphanGrace \in Nat /\ SurveyTime \in Nat
  /\ LaunchTime \in Nat /\ ClaimLag \in Nat /\ MaxClock \in Nat
  /\ MaxStart \in Nat
ASSUME FaultsAssumption == Faults \subseteq FaultKinds

VARIABLES
  clock,    (* Epoch seconds.                                              *)
  lock,     (* The LOCK#LAUNCH row; its owner is Nobody when it is absent. *)
  call,     (* Program counter and locals of each call.                    *)
  resv,     (* RESERVATION# row of each call; a "husk" is what an          *)
            (* UpdateItem recreates after its deletion.                    *)
  inst,     (* INSTANCE# row of the worker each call started.              *)
  vm,       (* The MicroVM each call started, on the platform.             *)
  removals, (* MicroVMs of REMOVE events not yet handled.                  *)
  sweep,    (* Locals of each reconciliation run.                          *)
  revived   (* History: the workers that were claimed after their soft     *)
            (* expiry, by a claim that had read the clock before it.       *)

vars == << clock, lock, call, resv, inst, vm, removals, sweep, revived >>

-----------------------------------------------------------------------------
MinOf(a, b) == IF a <= b THEN a ELSE b

Stop(w) ==
  vm' = [vm EXCEPT ![w].state = IF @ = "running" THEN "stopped" ELSE @]

Goto(c, step) == call' = [call EXCEPT ![c].step = step]

NoCall(step, launched) ==
  [step |-> step, locked |-> 0, now |-> 0, candidates |-> {}, full |-> FALSE,
   launched |-> launched]

(* The call only has to clean up: its other locals are read no more.       *)
Leave(c, step, launched) == call' = [call EXCEPT ![c] = NoCall(step, launched)]

(* The lock row is not there, or has expired.                              *)
LockFree(now) == lock.owner = Nobody \/ lock.until < now

-----------------------------------------------------------------------------
(* What the survey of the pool counts.                                     *)

Active(now) ==
  {w \in Calls : /\ inst[w].status = "READY"
                 /\ inst[w].hard > now
                 /\ inst[w].soft > now \/ inst[w].busy}

(* Mutant: reservations are not counted.                                   *)
Pending_None(now) == {}

Pending(now) ==
  {c \in Calls : resv[c].status = "pending" /\ resv[c].expires > now}

(* The minimum hard expiry comes from an earlier read of the clock, start. *)
Claimable(w, start, now) ==
  /\ inst[w].status = "READY"
  /\ ~inst[w].busy
  /\ inst[w].soft > now
  /\ inst[w].hard > start + Headroom

(* A claim that commits after the soft expiry it still found to come       *)
(* brings a worker back that a survey or a sweep has written off.          *)
Claim(w, now) ==
  /\ inst' = [inst EXCEPT ![w].busy = TRUE,
                          ![w].soft = MinOf(now + SoftTtl, inst[w].hard)]
  /\ revived' = IF inst[w].soft <= clock THEN revived \cup {w} ELSE revived

-----------------------------------------------------------------------------
(* launchAndClaim.                                                         *)

(* Mutant: the lock is taken whoever holds it.                             *)
AcquireLock_Steals(c) ==
  /\ call[c].step = "idle"
  /\ lock' = [owner |-> c, until |-> clock + LockSeconds]
  /\ call' = [call EXCEPT ![c].step = "survey", ![c].locked = clock]
  /\ UNCHANGED << clock, resv, inst, vm, removals, sweep, revived >>

AcquireLock(c) ==
  /\ call[c].step = "idle"
  /\ LockFree(clock)
  /\ lock' = [owner |-> c, until |-> clock + LockSeconds]
  /\ call' = [call EXCEPT ![c].step = "survey", ![c].locked = clock]
  /\ UNCHANGED << clock, resv, inst, vm, removals, sweep, revived >>

LockRefused(c) ==
  /\ call[c].step = "idle"
  /\ ~LockFree(clock)
  /\ Leave(c, "done", FALSE)
  /\ UNCHANGED << clock, lock, resv, inst, vm, removals, sweep, revived >>

(* One clock read and one consistent query decide both what may be claimed *)
(* and whether the pool is full.                                           *)
Survey(c) ==
  /\ call[c].step = "survey"
  /\ call' = [call EXCEPT
       ![c].step = "decide",
       ![c].now = clock,
       ![c].candidates = {w \in Active(clock) : Claimable(w, clock, clock)},
       ![c].full = Cardinality(Active(clock)) + Cardinality(Pending(clock))
                     >= MaxInstances]
  /\ UNCHANGED << clock, lock, resv, inst, vm, removals, sweep, revived >>

(* claimInstance reads the clock again, but is given the hard expiry that  *)
(* the survey asked for.                                                   *)
TryCandidate(c, w) ==
  /\ call[c].step = "decide"
  /\ w \in call[c].candidates
  /\ \E now \in call[c].now .. clock :
       /\ clock <= now + ClaimLag
       /\ \/ /\ Claimable(w, call[c].now, now)
             /\ Claim(w, now)
             /\ Leave(c, "unlock", FALSE)
          \/ /\ ~Claimable(w, call[c].now, now)
             /\ call' = [call EXCEPT ![c].candidates = @ \ {w}]
             /\ UNCHANGED << inst, revived >>
  /\ UNCHANGED << clock, lock, resv, vm, removals, sweep >>

PoolFull(c) ==
  /\ call[c].step = "decide"
  /\ call[c].candidates = {}
  /\ call[c].full
  /\ Leave(c, "unlock", FALSE)
  /\ UNCHANGED << clock, lock, resv, inst, vm, removals, sweep, revived >>

Reserve(c) ==
  /\ call[c].step = "decide"
  /\ call[c].candidates = {}
  /\ ~call[c].full
  /\ resv' = [resv EXCEPT ![c] =
                [status |-> "pending", vm |-> FALSE,
                 expires |-> call[c].now + ReservationSeconds]]
  /\ Goto(c, "launch")
  /\ UNCHANGED << clock, lock, inst, vm, removals, sweep, revived >>

Launch(c) ==
  /\ call[c].step = "launch"
  /\ vm' = [vm EXCEPT ![c] = [state |-> "running", started |-> clock]]
  /\ call' = [call EXCEPT ![c].step = "record", ![c].launched = TRUE]
  /\ UNCHANGED << clock, lock, resv, inst, removals, sweep, revived >>

(* RunMicrovm failed, or started a MicroVM and its answers were lost.      *)
LaunchFails(c) ==
  /\ "launch" \in Faults
  /\ call[c].step = "launch"
  /\ \/ UNCHANGED vm
     \/ vm' = [vm EXCEPT ![c] = [state |-> "running", started |-> clock]]
  /\ Leave(c, "undo", call[c].launched)
  /\ UNCHANGED << clock, lock, resv, inst, removals, sweep, revived >>

(* An UpdateItem without a condition: it recreates a row that was removed. *)
Record(c) ==
  /\ call[c].step = "record"
  /\ resv' = [resv EXCEPT ![c] =
                IF resv[c].status = "pending"
                THEN [status |-> "pending", vm |-> TRUE,
                      expires |-> resv[c].expires]
                ELSE [status |-> "husk", vm |-> TRUE, expires |-> 0]]
  /\ Goto(c, "boot")
  /\ UNCHANGED << clock, lock, inst, vm, removals, sweep, revived >>

(* waitUntilRunning, createAuthToken and waitUntilReady.                   *)
Boot(c) ==
  /\ call[c].step = "boot"
  /\ vm[c].state = "running"
  /\ Goto(c, "register")
  /\ UNCHANGED << clock, lock, resv, inst, vm, removals, sweep, revived >>

BootFails(c) ==
  /\ \/ call[c].step = "record" /\ "boot" \in Faults
     \/ call[c].step = "boot" /\ ("boot" \in Faults \/ vm[c].state # "running")
  /\ Leave(c, "undo", call[c].launched)
  /\ UNCHANGED << clock, lock, resv, inst, vm, removals, sweep, revived >>

(* The row of the worker and its first lease replace the reservation.      *)
WriteInstance(c) ==
  /\ inst' = [inst EXCEPT ![c] =
                [status |-> "READY", busy |-> TRUE,
                 soft |-> MinOf(clock + SoftTtl, vm[c].started + HardTtl),
                 hard |-> vm[c].started + HardTtl]]
  /\ resv' = [resv EXCEPT ![c] =
                [status |-> "gone", vm |-> FALSE, expires |-> 0]]

Register(c) ==
  /\ call[c].step = "register"
  /\ WriteInstance(c)
  /\ Leave(c, "unlock", FALSE)
  /\ UNCHANGED << clock, lock, vm, removals, sweep, revived >>

(* The transaction failed, or committed and its answers were lost.         *)
RegisterFails(c) ==
  /\ "register" \in Faults
  /\ call[c].step = "register"
  /\ WriteInstance(c) \/ UNCHANGED << inst, resv >>
  /\ Leave(c, "undo", call[c].launched)
  /\ UNCHANGED << clock, lock, vm, removals, sweep, revived >>

(* The catch block: both clean-up calls swallow their errors.              *)
UndoTerminates(c) ==
  /\ call[c].step = "undo"
  /\ \/ call[c].launched /\ Stop(c)
     \/ ~call[c].launched /\ UNCHANGED vm
     \/ "undo" \in Faults /\ UNCHANGED vm
  /\ Leave(c, "unreserve", FALSE)
  /\ UNCHANGED << clock, lock, resv, inst, removals, sweep, revived >>

UndoUnreserves(c) ==
  /\ call[c].step = "unreserve"
  /\ \/ resv' = [resv EXCEPT ![c] =
                   [status |-> "gone", vm |-> FALSE, expires |-> 0]]
     \/ "undo" \in Faults /\ UNCHANGED resv
  /\ Leave(c, "unlock", FALSE)
  /\ UNCHANGED << clock, lock, inst, vm, removals, sweep, revived >>

ReleaseLock(c) ==
  /\ call[c].step = "unlock"
  /\ lock' = IF lock.owner = c THEN [owner |-> Nobody, until |-> 0] ELSE lock
  /\ Leave(c, "done", FALSE)
  /\ UNCHANGED << clock, resv, inst, vm, removals, sweep, revived >>

(* The gateway is killed, or a call outside the try block throws.          *)
Crash(c) ==
  /\ call[c].step \notin {"idle", "done"}
  /\ Leave(c, "done", FALSE)
  /\ UNCHANGED << clock, lock, resv, inst, vm, removals, sweep, revived >>
-----------------------------------------------------------------------------
(* A worker in service: the other requests (see LeasePool).                *)

WorkerClaimed(w) ==
  /\ \E start \in 0 .. clock, now \in 0 .. clock :
       /\ start <= now /\ clock <= start + ClaimLag
       /\ Claimable(w, start, now)
       /\ Claim(w, now)
  /\ UNCHANGED << clock, lock, call, resv, vm, removals, sweep >>

WorkerReleased(w) ==
  /\ inst[w].status = "READY"
  /\ inst[w].busy
  /\ inst' = [inst EXCEPT ![w].busy = FALSE]
  /\ UNCHANGED << clock, lock, call, resv, vm, removals, sweep, revived >>

(* fail(): its transaction fences the worker and takes the lease back; the *)
(* update it falls back on only fences it; and when that fails too, the    *)
(* error is swallowed and the row stays as it is.  Whichever it was, the   *)
(* worker is then terminated, unless this call fails or the gateway dies.  *)
WorkerFails(w) ==
  /\ inst[w].status = "READY"
  /\ inst[w].busy
  /\ \/ \E busy \in BOOLEAN :
          inst' = [inst EXCEPT ![w].status = "FAILED", ![w].busy = busy]
     \/ "fence" \in Faults /\ UNCHANGED inst
  /\ Stop(w) \/ UNCHANGED vm
  /\ UNCHANGED << clock, lock, call, resv, removals, sweep, revived >>

-----------------------------------------------------------------------------
(* DynamoDB TTL, some time after ttl_at, and the stream handler.           *)

DropInstance(w) ==
  inst' = [inst EXCEPT ![w] =
             IF inst[w].status = "none" THEN inst[w]
             ELSE [status |-> "gone", busy |-> FALSE, soft |-> 0, hard |-> 0]]

DropReservation(c) ==
  resv' = [resv EXCEPT ![c] =
             IF resv[c].status = "none" THEN resv[c]
             ELSE [status |-> "gone", vm |-> FALSE, expires |-> 0]]

(* TTL is due only some minutes after the lock has expired; a lock that has *)
(* expired is as good as none to acquireLaunchLock, so any later time will *)
(* do here.                                                                *)
TtlRemovesLock ==
  /\ lock.owner # Nobody
  /\ lock.until < clock
  /\ lock' = [owner |-> Nobody, until |-> 0]
  /\ UNCHANGED << clock, call, resv, inst, vm, removals, sweep, revived >>

TtlRemovesReservation(c) ==
  /\ resv[c].status = "pending"
  /\ resv[c].expires < clock
  /\ removals' = IF resv[c].vm THEN removals \cup {c} ELSE removals
  /\ DropReservation(c)
  /\ UNCHANGED << clock, lock, call, inst, vm, sweep, revived >>

TtlRemovesInstance(w) ==
  /\ \/ inst[w].status = "READY" /\ inst[w].soft < clock
     \/ inst[w].status = "FAILED"
  /\ removals' = removals \cup {w}
  /\ DropInstance(w)
  /\ UNCHANGED << clock, lock, call, resv, vm, sweep, revived >>

StreamTerminates(w) ==
  /\ w \in removals
  /\ removals' = removals \ {w}
  /\ Stop(w)
  /\ UNCHANGED << clock, lock, call, resv, inst, sweep, revived >>

-----------------------------------------------------------------------------
(* The scheduled reconciliation.                                           *)

SweepOff ==
  [on |-> FALSE, doomed |-> {}, stale |-> {}, named |-> {}, orphans |-> {},
   erasing |-> {}, clearing |-> {}]

Doomed(now) ==
  {w \in Calls : \/ inst[w].status = "FAILED"
                 \/ /\ inst[w].status = "READY"
                    /\ inst[w].soft <= now \/ inst[w].hard <= now}

(* Mutants: every reservation, or none, is taken for an expired one.       *)
Stale_All(now) == {c \in Calls : resv[c].status = "pending"}
Stale_None(now) == {}

Stale(now) ==
  {c \in Calls : resv[c].status = "pending" /\ resv[c].expires <= now}

(* MicroVMs that an INSTANCE or RESERVATION row names; a husk has no       *)
(* entity.                                                                 *)
Known ==
  {c \in Calls : \/ inst[c].status \in {"READY", "FAILED"}
                 \/ resv[c].status = "pending" /\ resv[c].vm}

(* Mutants: the age of a MicroVM is not looked at; a MicroVM is an orphan  *)
(* only if it has no reservation of any kind.                              *)
Orphans_Young(now) == {c \in Calls : vm[c].state = "running"} \ Known
Orphans_NoTrace(now) ==
  {c \in Calls : /\ vm[c].state = "running"
                 /\ resv[c].status = "none"
                 /\ vm[c].started + OrphanGrace <= now} \ Known

(* reconcileOrphans: running, in no row of the scan, too old for a launch  *)
(* that has not recorded its MicroVM yet.  The listing comes after the     *)
(* scan; a MicroVM started in between is not old enough.                   *)
Orphans(now) ==
  {c \in Calls : /\ vm[c].state = "running"
                 /\ vm[c].started + OrphanGrace <= now} \ Known

SweepScans(s) ==
  /\ ~sweep[s].on
  /\ sweep' = [sweep EXCEPT ![s] =
       [on |-> TRUE, doomed |-> Doomed(clock), stale |-> Stale(clock),
        named |-> {c \in Stale(clock) : resv[c].vm},
        orphans |-> Orphans(clock), erasing |-> {}, clearing |-> {}]]
  /\ UNCHANGED << clock, lock, call, resv, inst, vm, removals, revived >>

BetweenItems(s) ==
  sweep[s].on /\ sweep[s].erasing = {} /\ sweep[s].clearing = {}

SweepTerminates(s, w) ==
  /\ BetweenItems(s)
  /\ w \in sweep[s].doomed
  /\ Stop(w)
  /\ sweep' = [sweep EXCEPT ![s].doomed = @ \ {w}, ![s].erasing = {w}]
  /\ UNCHANGED << clock, lock, call, resv, inst, removals, revived >>

SweepErases(s, w) ==
  /\ w \in sweep[s].erasing
  /\ DropInstance(w)
  /\ sweep' = [sweep EXCEPT ![s].erasing = {}]
  /\ UNCHANGED << clock, lock, call, resv, vm, removals, revived >>

(* The MicroVM is the one the scanned row named, if any.                   *)
SweepCancels(s, c) ==
  /\ BetweenItems(s)
  /\ c \in sweep[s].stale
  /\ IF c \in sweep[s].named THEN Stop(c) ELSE UNCHANGED vm
  /\ sweep' = [sweep EXCEPT ![s].stale = @ \ {c}, ![s].named = @ \ {c},
                               ![s].clearing = {c}]
  /\ UNCHANGED << clock, lock, call, resv, inst, removals, revived >>

SweepClears(s, c) ==
  /\ c \in sweep[s].clearing
  /\ DropReservation(c)
  /\ sweep' = [sweep EXCEPT ![s].clearing = {}]
  /\ UNCHANGED << clock, lock, call, inst, vm, removals, revived >>

(* A call for one item throws: the item is left as it is.                  *)
SweepSkips(s) ==
  /\ "sweep" \in Faults
  /\ sweep[s].on
  /\ IF BetweenItems(s)
     THEN \E c \in sweep[s].doomed \cup sweep[s].stale :
            sweep' = [sweep EXCEPT ![s].doomed = @ \ {c}, ![s].stale = @ \ {c},
                                   ![s].named = @ \ {c}]
     ELSE sweep' = [sweep EXCEPT ![s].erasing = {}, ![s].clearing = {}]
  /\ UNCHANGED << clock, lock, call, resv, inst, vm, removals, revived >>

ItemsDone(s) ==
  BetweenItems(s) /\ sweep[s].doomed = {} /\ sweep[s].stale = {}

SweepStopsOrphan(s, c) ==
  /\ ItemsDone(s)
  /\ c \in sweep[s].orphans
  /\ Stop(c)
  /\ sweep' = [sweep EXCEPT ![s].orphans = @ \ {c}]
  /\ UNCHANGED << clock, lock, call, resv, inst, removals, revived >>

SweepEnds(s) ==
  /\ ItemsDone(s)
  /\ "sweep" \in Faults \/ sweep[s].orphans = {}
  /\ sweep' = [sweep EXCEPT ![s] = SweepOff]
  /\ UNCHANGED << clock, lock, call, resv, inst, vm, removals, revived >>

-----------------------------------------------------------------------------
(* The platform ends a MicroVM at its maximum duration, or when its native *)
(* idle policy has suspended it for long enough.                           *)
PlatformStops(w) ==
  /\ vm[w].state = "running"
  /\ \/ vm[w].started + HardTtl <= clock
     \/ inst[w].status = "READY" /\ ~inst[w].busy /\ inst[w].soft <= clock
  /\ Stop(w)
  /\ UNCHANGED << clock, lock, call, resv, inst, removals, sweep, revived >>

Tick ==
  /\ clock < MaxClock
  /\ \A c \in Calls :
       /\ call[c].step \in {"survey", "decide"} =>
            clock < call[c].locked + SurveyTime
       /\ call[c].step \in {"launch", "record", "boot", "register"} =>
            clock < call[c].now + LaunchTime
  /\ clock' = clock + 1
  /\ UNCHANGED << lock, call, resv, inst, vm, removals, sweep, revived >>

-----------------------------------------------------------------------------
Init ==
  /\ clock = 0
  /\ lock  = [owner |-> Nobody, until |-> 0]
  /\ call  = [c \in Calls |-> NoCall("idle", FALSE)]
  /\ resv  = [c \in Calls |-> [status |-> "none", vm |-> FALSE, expires |-> 0]]
  /\ inst  = [c \in Calls |-> [status |-> "none", busy |-> FALSE,
                               soft |-> 0, hard |-> 0]]
  /\ vm    = [c \in Calls |-> [state |-> "none", started |-> 0]]
  /\ removals = {}
  /\ sweep = [s \in Sweepers |-> SweepOff]
  /\ revived = {}

CallStarts(c) == clock <= MaxStart /\ (AcquireLock(c) \/ LockRefused(c))

CallProceeds(c) ==
  \/ Survey(c) \/ PoolFull(c) \/ Reserve(c)
  \/ \E w \in Calls : TryCandidate(c, w)
  \/ Launch(c) \/ LaunchFails(c) \/ Record(c) \/ Boot(c) \/ BootFails(c)
  \/ Register(c) \/ RegisterFails(c)
  \/ UndoTerminates(c) \/ UndoUnreserves(c) \/ ReleaseLock(c)
  \/ Crash(c)

WorkerStep(w) ==
  WorkerClaimed(w) \/ WorkerReleased(w) \/ WorkerFails(w) \/ PlatformStops(w)

StreamStep ==
  \/ TtlRemovesLock
  \/ \E c \in Calls : \/ TtlRemovesReservation(c) \/ TtlRemovesInstance(c)
                      \/ StreamTerminates(c)

SweepStep(s) ==
  \/ SweepScans(s) \/ SweepSkips(s) \/ SweepEnds(s)
  \/ \E c \in Calls : \/ SweepTerminates(s, c) \/ SweepErases(s, c)
                      \/ SweepCancels(s, c) \/ SweepClears(s, c)
                      \/ SweepStopsOrphan(s, c)

Next ==
  \/ \E c \in Calls : CallStarts(c) \/ CallProceeds(c) \/ WorkerStep(c)
  \/ StreamStep
  \/ \E s \in Sweepers : SweepStep(s)
  \/ Tick

Spec == Init /\ [][Next]_vars

(* A call that has begun and the scheduled reconciliation do not stop      *)
(* halfway for ever, and time goes on; nothing is assumed of TTL, of the   *)
(* platform's own limits or of the requests that use a worker.             *)
Fairness ==
  /\ SF_vars(Tick)
  /\ \A c \in Calls : WF_vars(CallProceeds(c))
  /\ \A s \in Sweepers : WF_vars(SweepStep(s))

FairSpec == Spec /\ Fairness

-----------------------------------------------------------------------------
(* Safety.                                                                 *)

(* The workers in service and the launches on their way never exceed       *)
(* max_instances, however calls, expiries, crashes and sweeps interleave.  *)
(* The code keeps this only while claims are prompt (ClaimLag = 0).        *)
PoolWithinMax ==
  Cardinality(Active(clock) \cup Pending(clock)) <= MaxInstances

(* However late claims commit: whatever is in the pool beyond max_instances *)
(* are workers that such a claim brought back after their soft expiry; the *)
(* launches, timed lock and take-overs included, never go beyond it.       *)
GrowsWithinMax ==
  Cardinality((Active(clock) \cup Pending(clock)) \ revived) <= MaxInstances

(* No two calls are between taking the lock and writing a reservation,     *)
(* although the lock expires by itself: two calls that counted the same    *)
(* pool would both launch.                                                 *)
OneSurveyor ==
  Cardinality({c \in Calls : call[c].step \in {"survey", "decide"}}) <= 1

(* The MicroVM of a READY row that has not expired is stopped by nobody    *)
(* but a request that fails on it, the catch block of the launch whose     *)
(* registration committed without an answer, or a clean-up that had found  *)
(* the worker expired before a late claim brought it back.                 *)
ReadyWorkerSpared ==
  [][\A w \in Calls :
       /\ inst[w].status = "READY" /\ inst[w].soft > clock
       /\ vm[w].state = "running" /\ vm'[w].state = "stopped"
       => WorkerFails(w) \/ call[w].step = "undo" \/ w \in revived]_vars

(* Nothing but the platform's limits stops a MicroVM whose launch is still *)
(* under way.                                                              *)
LaunchSpared ==
  [][\A c \in Calls :
       call[c].step \in {"record", "boot", "register"} =>
         ~(vm[c].state = "running" /\ vm'[c].state = "stopped")]_vars

-----------------------------------------------------------------------------
(* Liveness, under FairSpec.                                               *)

(* A reservation never holds its place in the pool for ever.               *)
ReservationCleared ==
  \A c \in Calls : resv[c].status = "pending" ~> resv[c].status # "pending"

(* A MicroVM that no worker row describes does not run for ever, wherever  *)
(* its launch was interrupted.                                             *)
StrayWorkerStops ==
  \A c \in Calls :
    (vm[c].state = "running" /\ call[c].step = "done")
      ~> (vm[c].state = "stopped" \/ inst[c].status = "READY")

=============================================================================
