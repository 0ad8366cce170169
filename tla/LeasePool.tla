----------------------------- MODULE LeasePool -----------------------------
(***************************************************************************)
(* The DynamoDB lease registry of the AWS gateway: how requests claim,     *)
(* release and fail registered MicroVM workers (app/aws/gateway/pool.ts)   *)
(* and how the lifecycle function repairs what they leave behind           *)
(* (app/aws/lifecycle/service.ts).                                         *)
(*                                                                         *)
(* One table partition is modelled.  Every DynamoDB call is one step; a    *)
(* handler that makes several calls is several steps, and anything may     *)
(* happen between them, including the handler being killed.  A request     *)
(* identifier stands for the lease it may create: one Lambda invocation    *)
(* uses `base` and `base:retry`, which are two requests here.              *)
(*                                                                         *)
(* state/status: the code always writes the pair READY/AVAILABLE,          *)
(* READY/BUSY or FAILED/UNAVAILABLE, so the field `status` holds the pair. *)
(***************************************************************************)
EXTENDS Naturals, FiniteSets

CONSTANTS
  Requests,       (* Lease identifiers (request_id).                       *)
  Instances,      (* MicroVM identifiers.                                  *)
  Sweepers,       (* Concurrent runs of the scheduled reconciliation.      *)
  Capacity,       (* Leases one worker accepts.                            *)
  LeaseSeconds,   (* leaseSeconds.                                         *)
  SoftTtl,        (* softTtlSeconds.                                       *)
  HardTtl,        (* hardTtlSeconds.                                       *)
  Headroom,       (* hardExpiryHeadroomSeconds.                            *)
  RowGrace,       (* ttl_at of a lease minus lease_expires_at (300 s).     *)
  OrphanGrace,    (* orphanGraceSeconds.                                   *)
  BootTime,       (* Seconds from startedAt to registration.               *)
  MaxLag,         (* Bound: clock ticks from the first clock read of an    *)
                  (* acquisition to the commit of its claim.               *)
  MaxClock,       (* Bound: the last clock value explored.                 *)
  MaxBirth,       (* Bound: the last clock value at which a worker is      *)
                  (* registered.                                           *)
  Faults,         (* The calls that may fail for other reasons than their  *)
                  (* condition, a subset of FaultKinds.                    *)
  NoVM            (* No worker chosen.                                     *)

FaultKinds ==
  {"transact", "fence", "dropLease", "terminate", "stream", "sweep"}

ASSUME RequestsAssumption == IsFiniteSet(Requests)
ASSUME CapacityAssumption == Capacity \in Nat \ {0}
ASSUME TimeAssumption ==
  /\ LeaseSeconds \in Nat /\ SoftTtl \in Nat /\ HardTtl \in Nat
  /\ Headroom \in Nat /\ RowGrace \in Nat /\ OrphanGrace \in Nat
  /\ BootTime \in Nat /\ MaxLag \in Nat /\ MaxClock \in Nat
  /\ MaxBirth \in Nat
ASSUME NoVMAssumption == NoVM \notin Instances
ASSUME FaultsAssumption == Faults \subseteq FaultKinds

VARIABLES
  clock,      (* Epoch seconds, read by every handler.                     *)
  inst,       (* INSTANCE# row of each worker.                             *)
  lease,      (* LEASE# row of each request, and its TTL removal event.    *)
  req,        (* Program counter and locals of each request.               *)
  running,    (* Workers the MicroVM platform still runs.                  *)
  removals,   (* Workers whose TTL REMOVE event is not yet handled.        *)
  marks,      (* Workers a stream handler is about to mark idle.           *)
  sweep       (* Locals of each reconciliation run.                        *)

vars == << clock, inst, lease, req, running, removals, marks, sweep >>

-----------------------------------------------------------------------------
(* Types.                                                                  *)

(* "none": never registered; "partial": recreated by fail() without its    *)
(* other attributes; "removed": deleted.                                   *)
InstanceStatus ==
  {"none", "AVAILABLE", "BUSY", "FAILED", "partial", "removed"}
InstanceRow ==
  [status: InstanceStatus, in_flight: Nat, soft: Nat, hard: Nat]

(* "row": in the table; "queued": removed by TTL, slot not yet returned;   *)
(* "recovered": its RECOVERY# marker is written; "returned": deleted with  *)
(* its slot; "lost": deleted, or its event dropped, without a decrement.   *)
LeaseStatus == {"none", "row", "queued", "recovered", "returned", "lost"}
LeaseRow == [status: LeaseStatus, vm: Instances \cup {NoVM}, expires: Nat]

RequestStep ==
  {"idle", "claim", "hold", "markIdle", "dropLease", "fence",
   "dropFailed", "terminate", "done"}
Request ==
  [step: RequestStep, vm: Instances \cup {NoVM}, start: Nat, now: Nat]

Sweep ==
  [on: BOOLEAN, doomed: SUBSET Instances, expired: SUBSET Requests,
   orphans: SUBSET Instances, deleting: SUBSET Instances,
   marking: SUBSET Instances, dropping: SUBSET Requests]

(* Every row, event and local keeps its domain; in_flight stays a natural  *)
(* number, which the in_flight > 0 conditions of the decrements ensure.    *)
TypeOK ==
  /\ clock    \in Nat
  /\ inst     \in [Instances -> InstanceRow]
  /\ lease    \in [Requests -> LeaseRow]
  /\ req      \in [Requests -> Request]
  /\ running  \in SUBSET Instances
  /\ removals \in SUBSET Instances
  /\ marks    \in SUBSET Instances
  /\ sweep    \in [Sweepers -> Sweep]

-----------------------------------------------------------------------------
(* Reading the table.                                                      *)

Ready(i)   == inst[i].status \in {"AVAILABLE", "BUSY"}
Present(i) == Ready(i) \/ inst[i].status = "FAILED"
Stored(i)  == Present(i) \/ inst[i].status = "partial"

(* The slots of i that in_flight counts and nobody has returned.           *)
Charged(i) ==
  {r \in Requests : /\ lease[r].vm = i
                    /\ lease[r].status \in {"row", "queued", "lost"}}

(* Mutant: the clamp to the hard expiry is forgotten.                      *)
MinOf_Unclamped(a, b) == a

MinOf(a, b) == IF a <= b THEN a ELSE b

(* ADD in_flight :minus_one, guarded by in_flight > 0.                     *)
CanReturnSlot(i) == Present(i) /\ inst[i].in_flight > 0
ReturnSlot(i)    == inst' = [inst EXCEPT ![i].in_flight = @ - 1]

(* Mutant: the status update does not look at the state of the row.        *)
MarkIdle_Unfenced(i) ==
  inst' = [inst EXCEPT ![i].status =
             IF inst[i].in_flight = 0 THEN "AVAILABLE" ELSE @]

(* Mutant: the status update does not look at the occupancy.               *)
MarkIdle_Occupied(i) ==
  inst' = [inst EXCEPT ![i].status = IF Ready(i) THEN "AVAILABLE" ELSE @]

(* SET status = AVAILABLE, guarded by READY and in_flight = 0.             *)
MarkIdle(i) ==
  inst' = [inst EXCEPT ![i].status =
             IF Ready(i) /\ inst[i].in_flight = 0 THEN "AVAILABLE" ELSE @]

(* Deleting a row that is not there changes nothing.                       *)
EraseInstance(i) ==
  inst' = [inst EXCEPT ![i] =
             IF Stored(i)
             THEN [@ EXCEPT !.status = "removed", !.in_flight = 0, !.soft = 0]
             ELSE @]

(* The row is no longer in the table, so its expiry is forgotten.          *)
SetLease(r, status) ==
  lease' = [lease EXCEPT ![r].status = status, ![r].expires = 0]

(* Unconditional delete of a lease row: no slot is returned.               *)
EraseLease(r) ==
  IF lease[r].status = "row" THEN SetLease(r, "lost") ELSE UNCHANGED lease

Goto(r, step) ==
  req' = [req EXCEPT ![r] = [step |-> step, vm |-> req[r].vm, start |-> 0,
                             now |-> 0]]

Finish(r) ==
  req' = [req EXCEPT ![r] = [step |-> "done", vm |-> NoVM, start |-> 0,
                             now |-> 0]]

-----------------------------------------------------------------------------
(* A request: PoolRegistry.                                                *)

(* acquireCompatible fixes minimumHardExpiry from a first clock read, then *)
(* queries the tiers; claimInstance reads the clock again for a candidate. *)
(* Nothing is written in between, so both reads are one step, the first    *)
(* some ticks in the past.  The query may be stale: the transaction checks *)
(* every condition again.                                                  *)
TryCandidate(r, i) ==
  /\ req[r].step = "idle"
  /\ inst[i].status # "none"
  /\ \E start \in 0 .. clock :
       /\ clock <= start + MaxLag
       /\ req' = [req EXCEPT ![r] = [step |-> "claim", vm |-> i,
                                     start |-> start, now |-> clock]]
  /\ UNCHANGED << clock, inst, lease, running, removals, marks, sweep >>

(* Mutant: the capacity test is off by one.                                *)
ClaimCondition_OffByOne(i, now, minimumHardExpiry) ==
  /\ Ready(i)
  /\ inst[i].in_flight <= Capacity
  /\ inst[i].soft > now
  /\ inst[i].hard > minimumHardExpiry

ClaimCondition(i, now, minimumHardExpiry) ==
  /\ Ready(i)
  /\ inst[i].in_flight < Capacity
  /\ inst[i].soft > now
  /\ inst[i].hard > minimumHardExpiry

(* claimInstance's transaction: the instance update and the lease row.     *)
ClaimCommits(r) ==
  LET i   == req[r].vm
      now == req[r].now
  IN  /\ req[r].step = "claim"
      /\ ClaimCondition(i, now, req[r].start + Headroom)
      /\ lease[r].status = "none"
      /\ inst' = [inst EXCEPT ![i] =
                    [status |-> "BUSY", in_flight |-> inst[i].in_flight + 1,
                     soft |-> MinOf(now + SoftTtl, inst[i].hard),
                     hard |-> inst[i].hard]]
      /\ lease' = [lease EXCEPT ![r] = [status  |-> "row",
                                        vm      |-> i,
                                        expires |-> now + LeaseSeconds]]
      /\ req' = [req EXCEPT ![r] = [step |-> "hold", vm |-> i, start |-> 0,
                                    now |-> now]]
      /\ UNCHANGED << clock, running, removals, marks, sweep >>

(* The next candidate, of this acquisition or of the next one that         *)
(* waitForCapacity makes, is another TryCandidate.                         *)
ClaimRefused(r) ==
  /\ req[r].step = "claim"
  /\ \/ ~ClaimCondition(req[r].vm, req[r].now, req[r].start + Headroom)
     \/ lease[r].status # "none"
  /\ req' = [req EXCEPT ![r] = [step |-> "idle", vm |-> NoVM, start |-> 0,
                                now |-> 0]]
  /\ UNCHANGED << clock, inst, lease, running, removals, marks, sweep >>

(* launchAndClaim's last transaction: a worker that is ready and claimed.  *)
Register(r, i) ==
  /\ req[r].step = "idle"
  /\ inst[i].status = "none"
  /\ lease[r].status = "none"
  /\ \E readyAt \in BootTime .. MaxBirth :
       LET hard == readyAt - BootTime + HardTtl
       IN  /\ readyAt <= clock /\ clock <= readyAt + MaxLag
           /\ inst' = [inst EXCEPT ![i] =
                         [status |-> "BUSY", in_flight |-> 1, hard |-> hard,
                          soft |-> MinOf(readyAt + SoftTtl, hard)]]
           /\ lease' = [lease EXCEPT ![r] =
                          [status  |-> "row", vm |-> i,
                           expires |-> readyAt + LeaseSeconds]]
           /\ req' = [req EXCEPT ![r] = [step |-> "hold", vm |-> i,
                                         start |-> 0, now |-> readyAt]]
  /\ running' = running \cup {i}
  /\ UNCHANGED << clock, removals, marks, sweep >>

(* Mutants: the lease's owner is not checked; nor the occupancy; a lease   *)
(* that has expired is refused.                                            *)
ReleaseCondition_AnyOwner(r) ==
  Ready(req[r].vm) /\ inst[req[r].vm].in_flight > 0
ReleaseCondition_ReadyOnly(r) == Ready(req[r].vm)
ReleaseCondition_Unexpired(r) ==
  /\ ReleaseCondition_AnyOwner(r)
  /\ lease[r].status = "row"
  /\ clock < lease[r].expires

(* release: the transaction that deletes the caller's lease and returns    *)
(* its slot, then the status update.                                       *)
ReleaseCondition(r) ==
  /\ lease[r].status = "row"
  /\ Ready(req[r].vm)
  /\ inst[req[r].vm].in_flight > 0

Release(r) ==
  /\ req[r].step = "hold"
  /\ ReleaseCondition(r)
  /\ SetLease(r, "returned")
  /\ ReturnSlot(req[r].vm)
  /\ Goto(r, "markIdle")
  /\ UNCHANGED << clock, running, removals, marks, sweep >>

ReleaseMarksIdle(r) ==
  /\ req[r].step = "markIdle"
  /\ MarkIdle(req[r].vm)
  /\ Finish(r)
  /\ UNCHANGED << clock, lease, running, removals, marks, sweep >>

ReleaseRefused(r) ==
  /\ req[r].step = "hold"
  /\ ~ReleaseCondition(r)
  /\ Goto(r, "dropLease")
  /\ UNCHANGED << clock, inst, lease, running, removals, marks, sweep >>

ReleaseDropsLease(r) ==
  /\ req[r].step = "dropLease"
  /\ \/ EraseLease(r)
     \/ "dropLease" \in Faults /\ UNCHANGED lease
  /\ Finish(r)
  /\ UNCHANGED << clock, inst, running, removals, marks, sweep >>

(* fail: the fencing transaction, or its two unconditional fallbacks, then *)
(* the termination of the worker.                                          *)
FailCondition(r) ==
  /\ CanReturnSlot(req[r].vm)
  /\ lease[r].status = "row"

Fail(r) ==
  /\ req[r].step = "hold"
  /\ FailCondition(r)
  /\ inst' = [inst EXCEPT ![req[r].vm] =
                [status |-> "FAILED", in_flight |-> @.in_flight - 1,
                 soft |-> @.soft, hard |-> @.hard]]
  /\ SetLease(r, "returned")
  /\ Goto(r, "terminate")
  /\ UNCHANGED << clock, running, removals, marks, sweep >>

FailRefused(r) ==
  /\ req[r].step = "hold"
  /\ ~FailCondition(r) \/ "transact" \in Faults
  /\ Goto(r, "fence")
  /\ UNCHANGED << clock, inst, lease, running, removals, marks, sweep >>

(* An UpdateItem without a condition: it recreates a missing row.          *)
FailFences(r) ==
  LET i == req[r].vm
  IN  /\ req[r].step = "fence"
      /\ \/ inst' = [inst EXCEPT ![i].status =
                       IF Present(i) THEN "FAILED" ELSE "partial"]
         \/ "fence" \in Faults /\ UNCHANGED inst
      /\ Goto(r, "dropFailed")
      /\ UNCHANGED << clock, lease, running, removals, marks, sweep >>

FailDropsLease(r) ==
  /\ req[r].step = "dropFailed"
  /\ \/ EraseLease(r)
     \/ "dropLease" \in Faults /\ UNCHANGED lease
  /\ Goto(r, "terminate")
  /\ UNCHANGED << clock, inst, running, removals, marks, sweep >>

FailTerminates(r) ==
  /\ req[r].step = "terminate"
  /\ \/ running' = running \ {req[r].vm}
     \/ "terminate" \in Faults /\ UNCHANGED running
  /\ Finish(r)
  /\ UNCHANGED << clock, inst, lease, removals, marks, sweep >>

(* The gateway times out, or a call throws to its caller: nothing of what  *)
(* remains of the handler runs.                                            *)
Crash(r) ==
  /\ req[r].step \notin {"idle", "done"}
  /\ Finish(r)
  /\ UNCHANGED << clock, inst, lease, running, removals, marks, sweep >>

-----------------------------------------------------------------------------
(* DynamoDB TTL and the stream handler: processStream.                     *)

(* TTL removes a row some time after its ttl_at, which is soft_expires_at  *)
(* of a worker in service.  The 300 s a fenced row keeps are not modelled. *)
TtlRemovesInstance(i) ==
  /\ Stored(i)
  /\ Ready(i) => inst[i].soft < clock
  /\ removals' = IF Present(i) THEN removals \cup {i} ELSE removals
  /\ EraseInstance(i)
  /\ UNCHANGED << clock, lease, req, running, marks, sweep >>

TtlRemovesLease(r) ==
  /\ lease[r].status = "row"
  /\ lease[r].expires + RowGrace < clock
  /\ SetLease(r, "queued")
  /\ UNCHANGED << clock, inst, req, running, removals, marks, sweep >>

(* The REMOVE event of an INSTANCE row: terminateSafely.                   *)
StreamTerminates(i) ==
  /\ i \in removals
  /\ removals' = removals \ {i}
  /\ running' = running \ {i}
  /\ UNCHANGED << clock, inst, lease, req, marks, sweep >>

(* recoverDeletedLease: the marker and the decrement in one transaction.   *)
(* A delivery whose transaction is refused, and every later delivery, only *)
(* goes on to markAvailableWhenIdle.                                       *)
StreamRecovers(r) ==
  LET i == lease[r].vm
  IN  /\ lease[r].status \in {"queued", "recovered"}
      /\ IF lease[r].status = "queued" /\ CanReturnSlot(i)
         THEN /\ SetLease(r, "recovered")
              /\ ReturnSlot(i)
         ELSE UNCHANGED << inst, lease >>
      /\ marks' = marks \cup {i}
      /\ UNCHANGED << clock, req, running, removals, sweep >>

StreamMarksIdle(i) ==
  /\ i \in marks
  /\ MarkIdle(i)
  /\ marks' = marks \ {i}
  /\ UNCHANGED << clock, lease, req, running, removals, sweep >>

(* The handler dies before markAvailableWhenIdle.                          *)
StreamCrashes(i) ==
  /\ i \in marks
  /\ marks' = marks \ {i}
  /\ UNCHANGED << clock, inst, lease, req, running, removals, sweep >>

(* Retries are exhausted or the record is too old: it goes to the DLQ.     *)
StreamDropsLease(r) ==
  /\ "stream" \in Faults
  /\ lease[r].status = "queued"
  /\ SetLease(r, "lost")
  /\ UNCHANGED << clock, inst, req, running, removals, marks, sweep >>

StreamDropsInstance(i) ==
  /\ "stream" \in Faults
  /\ i \in removals
  /\ removals' = removals \ {i}
  /\ UNCHANGED << clock, inst, lease, req, running, marks, sweep >>

-----------------------------------------------------------------------------
(* The scheduled reconciliation: reconcile, recoverLease, reconcileOrphans.*)

SweepOff ==
  [on |-> FALSE, doomed |-> {}, expired |-> {}, orphans |-> {},
   deleting |-> {}, marking |-> {}, dropping |-> {}]

(* Mutants: expiry is off by one; FAILED rows are left alone; rows that    *)
(* are merely expired are left alone.                                      *)
Doomed_Early(now) ==
  {i \in Instances : Present(i) /\ inst[i].soft <= now + 1}
Doomed_NotFailed(now) ==
  {i \in Instances : Ready(i) /\ inst[i].soft <= now}
Doomed_OnlyFailed(now) ==
  {i \in Instances : inst[i].status = "FAILED"}

Doomed(now) ==
  {i \in Instances : /\ Present(i)
                     /\ \/ inst[i].soft <= now
                        \/ inst[i].hard <= now
                        \/ inst[i].status = "FAILED"}

(* Mutants: expiry is off by one; expired leases are not repaired.         *)
ExpiredLeases_Early(now) ==
  {r \in Requests : lease[r].status = "row" /\ lease[r].expires <= now + 1}
ExpiredLeases_None(now) == {}

ExpiredLeases(now) ==
  {r \in Requests : lease[r].status = "row" /\ lease[r].expires <= now}

(* Workers the platform lists that no row names, past the grace period.    *)
Orphans(now) ==
  {i \in running : ~Present(i) /\ inst[i].hard + OrphanGrace <= now + HardTtl}

(* The clock read of reconcile and scanState are one step.  A clock read   *)
(* earlier only selects fewer rows, which a run that ends before it gets   *)
(* to the others does too.  Each row is handled on its own image alone, so *)
(* one step for the whole scan loses nothing.  A lease never changes its   *)
(* expiry, so recoverLease's lease_expires_at <= now needs no later `now`. *)
SweepScans(s) ==
  /\ ~sweep[s].on
  /\ sweep' = [sweep EXCEPT ![s] =
                 [SweepOff EXCEPT !.on      = TRUE,
                                  !.doomed  = Doomed(clock),
                                  !.expired = ExpiredLeases(clock),
                                  !.orphans = Orphans(clock)]]
  /\ UNCHANGED << clock, inst, lease, req, running, removals, marks >>

(* The loop awaits every call, so only one item is between two calls.      *)
BetweenItems(s) ==
  /\ sweep[s].on
  /\ sweep[s].deleting = {}
  /\ sweep[s].marking = {}
  /\ sweep[s].dropping = {}

SweepTerminates(s, i) ==
  /\ BetweenItems(s)
  /\ i \in sweep[s].doomed
  /\ running' = running \ {i}
  /\ sweep' = [sweep EXCEPT ![s].doomed = @ \ {i},
                               ![s].deleting = {i}]
  /\ UNCHANGED << clock, inst, lease, req, removals, marks >>

(* deleteItem has no condition: the row may have changed since the scan.   *)
SweepDeletes(s, i) ==
  /\ i \in sweep[s].deleting
  /\ EraseInstance(i)
  /\ sweep' = [sweep EXCEPT ![s].deleting = {}]
  /\ UNCHANGED << clock, lease, req, running, removals, marks >>

SweepRecovers(s, r) ==
  LET i == lease[r].vm
  IN  /\ BetweenItems(s)
      /\ r \in sweep[s].expired
      /\ IF lease[r].status = "row" /\ CanReturnSlot(i)
         THEN /\ SetLease(r, "returned")
              /\ ReturnSlot(i)
              /\ sweep' = [sweep EXCEPT ![s].expired = @ \ {r},
                               ![s].marking = {i}]
         ELSE /\ sweep' = [sweep EXCEPT ![s].expired = @ \ {r},
                               ![s].dropping = {r}]
              /\ UNCHANGED << inst, lease >>
      /\ UNCHANGED << clock, req, running, removals, marks >>

SweepMarksIdle(s, i) ==
  /\ i \in sweep[s].marking
  /\ MarkIdle(i)
  /\ sweep' = [sweep EXCEPT ![s].marking = {}]
  /\ UNCHANGED << clock, lease, req, running, removals, marks >>

SweepDropsLease(s, r) ==
  /\ r \in sweep[s].dropping
  /\ EraseLease(r)
  /\ sweep' = [sweep EXCEPT ![s].dropping = {}]
  /\ UNCHANGED << clock, inst, req, running, removals, marks >>

SweepKillsOrphan(s, i) ==
  /\ BetweenItems(s)
  /\ i \in sweep[s].orphans
  /\ running' = running \ {i}
  /\ sweep' = [sweep EXCEPT ![s].orphans = @ \ {i}]
  /\ UNCHANGED << clock, inst, lease, req, removals, marks >>

(* A call for one item throws: the item is counted and left as it is.      *)
SweepSkips(s) ==
  /\ "sweep" \in Faults
  /\ sweep[s].on
  /\ \/ /\ BetweenItems(s)
        /\ \/ \E i \in sweep[s].doomed :
                sweep' = [sweep EXCEPT ![s].doomed = @ \ {i}]
           \/ \E r \in sweep[s].expired :
                sweep' = [sweep EXCEPT ![s].expired = @ \ {r}]
     \/ /\ ~BetweenItems(s)
        /\ sweep' = [sweep EXCEPT ![s].deleting = {},
                               ![s].marking = {},
                               ![s].dropping = {}]
  /\ UNCHANGED << clock, inst, lease, req, running, removals, marks >>

SweepEnds(s) ==
  /\ BetweenItems(s)
  /\ \/ sweep[s].doomed = {} /\ sweep[s].expired = {} /\ sweep[s].orphans = {}
     \/ "sweep" \in Faults     (* orphan listing failed, or the run timed out *)
  /\ sweep' = [sweep EXCEPT ![s] = SweepOff]
  /\ UNCHANGED << clock, inst, lease, req, running, removals, marks >>

-----------------------------------------------------------------------------
(* The platform stops a worker at the end of its maximum duration.         *)
PlatformStops(i) ==
  /\ i \in running
  /\ inst[i].hard <= clock
  /\ running' = running \ {i}
  /\ UNCHANGED << clock, inst, lease, req, removals, marks, sweep >>

(* Time.  No acquisition takes longer than MaxLag from its first clock     *)
(* read to the commit of its claim.                                        *)
Tick ==
  /\ clock < MaxClock
  /\ \A r \in Requests :
       req[r].step = "claim" => clock < req[r].start + MaxLag
  /\ clock' = clock + 1
  /\ UNCHANGED << inst, lease, req, running, removals, marks, sweep >>

-----------------------------------------------------------------------------
Init ==
  /\ clock    = 0
  /\ inst     = [i \in Instances |->
                   [status |-> "none", in_flight |-> 0, soft |-> 0, hard |-> 0]]
  /\ lease    = [r \in Requests |->
                   [status |-> "none", vm |-> NoVM, expires |-> 0]]
  /\ req      = [r \in Requests |->
                   [step |-> "idle", vm |-> NoVM, start |-> 0, now |-> 0]]
  /\ running  = {}
  /\ removals = {}
  /\ marks    = {}
  /\ sweep    = [s \in Sweepers |-> SweepOff]

(* What a request does once it has begun; it cannot stop halfway for ever. *)
RequestProceeds(r) ==
  \/ ClaimCommits(r) \/ ClaimRefused(r)
  \/ Release(r) \/ ReleaseMarksIdle(r) \/ ReleaseRefused(r)
  \/ ReleaseDropsLease(r)
  \/ Fail(r) \/ FailRefused(r) \/ FailFences(r) \/ FailDropsLease(r)
  \/ FailTerminates(r)
  \/ Crash(r)

RequestStarts(r) ==
  \E i \in Instances : TryCandidate(r, i) \/ Register(r, i)

StreamStep ==
  \/ \E i \in Instances : \/ TtlRemovesInstance(i) \/ StreamTerminates(i)
                          \/ StreamMarksIdle(i) \/ StreamCrashes(i)
                          \/ StreamDropsInstance(i)
  \/ \E r \in Requests : \/ TtlRemovesLease(r) \/ StreamRecovers(r)
                         \/ StreamDropsLease(r)

SweepStep(s) ==
  \/ SweepScans(s) \/ SweepSkips(s) \/ SweepEnds(s)
  \/ \E i \in Instances : \/ SweepTerminates(s, i) \/ SweepDeletes(s, i)
                          \/ SweepMarksIdle(s, i) \/ SweepKillsOrphan(s, i)
  \/ \E r \in Requests : SweepRecovers(s, r) \/ SweepDropsLease(s, r)

Next ==
  \/ \E r \in Requests : RequestStarts(r) \/ RequestProceeds(r)
  \/ StreamStep
  \/ \E s \in Sweepers : SweepStep(s)
  \/ \E i \in Instances : PlatformStops(i)
  \/ Tick

Spec == Init /\ [][Next]_vars

(* A request that has begun, and the reconciliation that the schedule      *)
(* starts every five minutes, do not stop halfway for ever, and time goes  *)
(* on.  Nothing is assumed of DynamoDB TTL, whose delay has no bound.      *)
Fairness ==
  /\ SF_vars(Tick)
  /\ \A r \in Requests : WF_vars(RequestProceeds(r))
  /\ \A s \in Sweepers : WF_vars(SweepStep(s))

FairSpec == Spec /\ Fairness

-----------------------------------------------------------------------------
(* Safety.                                                                 *)

(* The occupancy of a worker in service is exactly the number of leases    *)
(* whose slot nobody has returned: release, fail, lease expiry, TTL        *)
(* removal, redelivered events and the sweep return each slot once.        *)
SlotsAccounted ==
  \A i \in Instances : Ready(i) =>
    /\ inst[i].in_flight = Cardinality(Charged(i))
    /\ inst[i].in_flight <= Capacity

(* A worker in service loses a slot for good only if a record of the       *)
(* stream is dropped, or if fail() could not fence the worker and went on  *)
(* to delete the lease: no order of the other handlers strands a slot.     *)
NoSlotLeak ==
  [][\A r \in Requests :
       /\ lease[r].status # "lost" /\ lease'[r].status = "lost"
       /\ Ready(lease[r].vm)'
       => StreamDropsLease(r) \/ FailDropsLease(r)]_vars

(* The lease of a request that is still working is in the table until it   *)
(* expires: no sweep, TTL removal or other request takes it away.          *)
Working(r) == req[r].step = "hold" /\ clock < req[r].now + LeaseSeconds

LeaseHeldUntilExpiry ==
  \A r \in Requests : Working(r) =>
    lease[r] = [status  |-> "row", vm |-> req[r].vm,
                expires |-> req[r].now + LeaseSeconds]

(* Whatever happened to its row, a worker never serves more requests with  *)
(* an unexpired lease than its capacity.                                   *)
WorkerNotOversubscribed ==
  \A i \in Instances :
    Cardinality({r \in Requests : Working(r) /\ req[r].vm = i}) <= Capacity

(* A lease on a worker in service ends no later than the worker's soft and *)
(* hard expiry, after which the sweep and TTL may remove the worker.       *)
LeaseWithinExpiry ==
  \A r \in Requests :
    lease[r].status = "row" /\ Ready(lease[r].vm) =>
      /\ lease[r].expires <= inst[lease[r].vm].soft
      /\ inst[lease[r].vm].soft <= inst[lease[r].vm].hard

(* A worker that is marked AVAILABLE has no lease: the mark is written     *)
(* apart from the decrement it follows, with claims in between.            *)
AvailableIsFree ==
  \A i \in Instances : inst[i].status = "AVAILABLE" => inst[i].in_flight = 0

(* The registry implements the abstract room of slots: a worker out of     *)
(* service never returns to it, and slots are entered and left one by one. *)
Door(i) ==
  IF inst[i].status = "none" THEN "unbuilt"
  ELSE IF Ready(i) THEN "open" ELSE "closed"
Inside(i) == IF Ready(i) THEN Charged(i) ELSE {}

Slots == INSTANCE SlotPool WITH
  door   <- [i \in Instances |-> Door(i)],
  inside <- [i \in Instances |-> Inside(i)]

ImplementsSlots == Slots!SlotSpec

-----------------------------------------------------------------------------
(* Liveness, under FairSpec.                                               *)

(* A lease row does not outlive its request for ever: it is released or    *)
(* expires and is recovered.                                               *)
LeaseReclaimed ==
  \A r \in Requests : lease[r].status = "row" ~> lease[r].status # "row"

(* A gateway that dies cannot leave a permanent BUSY flag.                 *)
BusyFlagCleared ==
  \A i \in Instances :
    inst[i].status = "BUSY" ~> inst[i].status # "BUSY"

(* A fenced worker is stopped even if fail() could not terminate it and    *)
(* its REMOVE event was dropped.                                           *)
FailedWorkerStops ==
  \A i \in Instances : inst[i].status = "FAILED" ~> i \notin running

=============================================================================
