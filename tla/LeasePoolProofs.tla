-------------------------- MODULE LeasePoolProofs --------------------------
(***************************************************************************)
(* Leases and slots, for any number of requests, workers and sweeps.       *)
(*                                                                         *)
(* TypeInv says what rows and locals can look like.  With it the count in  *)
(* a worker's row equals its charged leases (SlotsAccounted), and every    *)
(* step is one of SlotPool.  HoldInv: what a sweep has chosen to repair is *)
(* an expired lease, so nobody takes one away from a request at work;      *)
(* Stranded: what is deleted without a decrement has no slot.  TimeInv     *)
(* bounds leases by the worker's expiry; Condemned says whom a sweep stops.*)
(***************************************************************************)
EXTENDS LeaseHistory, FiniteSetTheorems, TLAPS

(* Reading identifiers of rows that exist: a lease row names a registered  *)
(* worker, and a request that is past its first read names the worker of   *)
(* its own lease.                                                          *)
Named ==
  /\ \A r \in Requests :
       lease[r].status # "none" =>
         lease[r].vm \in Instances /\ inst[lease[r].vm].status # "none"
  /\ \A r \in Requests :
       req[r].step \notin {"idle", "done"} =>
         req[r].vm \in Instances /\ inst[req[r].vm].status # "none"
  /\ \A r \in Requests :
       req[r].step \notin {"idle", "claim", "done"} =>
         lease[r].status # "none" /\ lease[r].vm = req[r].vm

TypeInv == TypeOK /\ Named

USE DEF InstanceStatus, LeaseStatus, RequestStep

(* An empty pool satisfies the inductive type invariant.                   *)
LEMMA InitTypeInv == Init => TypeInv
  BY TimeAssumption, NoVMAssumption
  DEF Init, TypeInv, TypeOK, Named, InstanceRow, LeaseRow, Request, Sweep,
      SweepOff

(* Most steps keep which rows have existed and which worker a request or a *)
(* lease names.                                                            *)
RowsKept ==
  /\ inst' \in [Instances -> InstanceRow]
  /\ \A i \in Instances : inst[i].status # "none" => inst'[i].status # "none"
LeasesKept ==
  /\ lease' \in [Requests -> LeaseRow]
  /\ \A r \in Requests : /\ lease'[r].vm = lease[r].vm
                         /\ lease'[r].status = "none" <=> lease[r].status = "none"
RequestsKept ==
  /\ req' \in [Requests -> Request]
  /\ \A r \in Requests :
       \/ req'[r].step \in {"idle", "done"}
       \/ req'[r] = req[r]
       \/ /\ req'[r].vm = req[r].vm
          /\ req[r].step \notin {"idle", "claim", "done"}
OthersTyped ==
  /\ clock' \in Nat /\ running' \in SUBSET Instances
  /\ removals' \in SUBSET Instances /\ marks' \in SUBSET Instances
  /\ sweep' \in [Sweepers -> Sweep]

(* Steps that keep rows, leases and requests named keep the invariant.     *)
LEMMA KeptTypeInv ==
  ASSUME TypeInv, RowsKept, LeasesKept, RequestsKept, OthersTyped
  PROVE  TypeInv'
<1> USE DEF TypeInv, RowsKept, LeasesKept, RequestsKept, OthersTyped
<1>1. TypeOK'
  BY DEF TypeOK
<1>2. Named'
  BY DEF Named
<1>3. QED
  BY <1>1, <1>2

(* Leaving a variable alone keeps what is said of it.                      *)
LEMMA UnchangedKept ==
  ASSUME TypeInv
  PROVE  /\ UNCHANGED inst => RowsKept
         /\ UNCHANGED lease => LeasesKept
         /\ UNCHANGED req => RequestsKept
         /\ UNCHANGED << clock, running, removals, marks, sweep >> => OthersTyped
  BY DEF TypeInv, TypeOK, RowsKept, LeasesKept, RequestsKept, OthersTyped

(* markAvailableWhenIdle changes only the status of a row.                 *)
LEMMA MarkIdleKept ==
  ASSUME TypeInv, NEW i \in Instances, MarkIdle(i)
  PROVE  RowsKept
  BY DEF TypeInv, TypeOK, RowsKept, MarkIdle, Ready, InstanceRow

(* A decrement keeps the rows typed, when there is a slot to return.       *)
LEMMA ReturnSlotKept ==
  ASSUME TypeInv, NEW i \in Instances, ReturnSlot(i), inst[i].in_flight > 0
  PROVE  RowsKept
  BY DEF TypeInv, TypeOK, RowsKept, ReturnSlot, InstanceRow

(* Deleting a row turns it into gone, never back into none.                *)
LEMMA EraseInstanceKept ==
  ASSUME TypeInv, NEW i \in Instances, EraseInstance(i)
  PROVE  RowsKept
  BY DEF TypeInv, TypeOK, RowsKept, EraseInstance, Stored, Present, Ready,
         InstanceRow

(* A change of a lease's status keeps the worker it names.                 *)
LEMMA SetLeaseKept ==
  ASSUME TypeInv, NEW r \in Requests, NEW status \in LeaseStatus \ {"none"},
         SetLease(r, status), lease[r].status # "none"
  PROVE  LeasesKept
  BY DEF TypeInv, TypeOK, LeasesKept, SetLease, LeaseRow

(* Deleting a lease row keeps the worker it names.                         *)
LEMMA EraseLeaseKept ==
  ASSUME TypeInv, NEW r \in Requests, EraseLease(r)
  PROVE  LeasesKept
<1>1. CASE lease[r].status = "row"
  BY <1>1, SetLeaseKept DEF EraseLease
<1>2. CASE lease[r].status # "row"
  BY <1>2, UnchangedKept DEF EraseLease
<1>3. QED
  BY <1>1, <1>2

(* A step inside a request keeps the worker it names.                      *)
LEMMA GotoKept ==
  ASSUME TypeInv, NEW r \in Requests, NEW step \in RequestStep, Goto(r, step),
         req[r].step \notin {"idle", "claim", "done"}
  PROVE  RequestsKept
  BY DEF TypeInv, TypeOK, RequestsKept, Goto, Request

(* The end of a request.                                                   *)
LEMMA FinishKept ==
  ASSUME TypeInv, NEW r \in Requests, Finish(r)
  PROVE  RequestsKept
  BY DEF TypeInv, TypeOK, RequestsKept, Finish, Request

(* Every step of acquire, release and fail preserves the invariant.        *)
LEMMA RequestTypeInv ==
  ASSUME TypeInv, NEW r \in Requests, RequestProceeds(r) \/ RequestStarts(r)
  PROVE  TypeInv'
<1> USE UnchangedKept, KeptTypeInv
<1>1. ASSUME NEW i \in Instances, TryCandidate(r, i) PROVE TypeInv'
  BY <1>1, NoVMAssumption
  DEF TryCandidate, Request, TypeInv, TypeOK, Named
<1>2. ASSUME NEW i \in Instances, Register(r, i) PROVE TypeInv'
  <2>1. PICK readyAt \in BootTime .. MaxBirth :
          LET hard == readyAt - BootTime + HardTtl
          IN  /\ inst' = [inst EXCEPT ![i] =
                            [status |-> "BUSY", in_flight |-> 1, hard |-> hard,
                             soft |-> MinOf(readyAt + SoftTtl, hard)]]
              /\ lease' = [lease EXCEPT ![r] =
                             [status  |-> "row", vm |-> i,
                              expires |-> readyAt + LeaseSeconds]]
              /\ req' = [req EXCEPT ![r] = [step |-> "hold", vm |-> i,
                                            start |-> 0, now |-> readyAt]]
    BY <1>2 DEF Register
  <2>2. /\ readyAt \in Nat
        /\ readyAt - BootTime + HardTtl \in Nat
    BY <2>1, TimeAssumption
  <2>3. inst' \in [Instances -> InstanceRow] /\ inst'[i].status = "BUSY"
    BY <2>1, <2>2, TimeAssumption DEF TypeInv, TypeOK, InstanceRow, MinOf
  <2>4. /\ lease' \in [Requests -> LeaseRow] /\ req' \in [Requests -> Request]
        /\ lease'[r].vm = i /\ req'[r].vm = i /\ lease'[r].status = "row"
    BY <2>1, <2>2, TimeAssumption DEF TypeInv, TypeOK, LeaseRow, Request
  <2>5. TypeOK'
    BY <1>2, <2>3, <2>4 DEF Register, TypeInv, TypeOK
  <2>6. /\ \A j \in Instances : j # i => inst'[j] = inst[j]
        /\ \A q \in Requests : q # r => lease'[q] = lease[q] /\ req'[q] = req[q]
    BY <2>1 DEF TypeInv, TypeOK
  <2>7. Named'
    BY <2>3, <2>4, <2>6 DEF TypeInv, Named
  <2>8. QED
    BY <2>5, <2>7 DEF TypeInv
<1>3. CASE ClaimCommits(r)
  <2> DEFINE i == req[r].vm
             now == req[r].now
  <2>1. i \in Instances /\ now \in Nat /\ inst[i] \in InstanceRow
    BY <1>3 DEF ClaimCommits, TypeInv, TypeOK, Named, Request
  <2>2. MinOf(now + SoftTtl, inst[i].hard) \in Nat
    BY <2>1, TimeAssumption DEF InstanceRow, MinOf
  <2>3. RowsKept
    BY <1>3, <2>1, <2>2
    DEF ClaimCommits, TypeInv, TypeOK, RowsKept, InstanceRow
  <2>4. /\ lease' \in [Requests -> LeaseRow] /\ req' \in [Requests -> Request]
        /\ lease'[r].vm = i /\ req'[r].vm = i /\ lease'[r].status = "row"
        /\ inst[i].status # "none"
    BY <1>3, <2>1, TimeAssumption
    DEF ClaimCommits, ClaimCondition, Ready, TypeInv, TypeOK, LeaseRow, Request
  <2>5. TypeOK'
    BY <1>3, <2>3, <2>4 DEF ClaimCommits, RowsKept, TypeInv, TypeOK
  <2>6. \A q \in Requests : q # r => lease'[q] = lease[q] /\ req'[q] = req[q]
    BY <1>3 DEF ClaimCommits, TypeInv, TypeOK
  <2>7. Named'
    BY <2>1, <2>3, <2>4, <2>6 DEF RowsKept, TypeInv, Named
  <2>8. QED
    BY <2>5, <2>7 DEF TypeInv
<1>4. CASE ClaimRefused(r)
  BY <1>4, TimeAssumption DEF ClaimRefused, Request, TypeInv, TypeOK, Named
<1>5. CASE Release(r)
  <2>1. req[r].vm \in Instances
    BY <1>5 DEF Release, TypeInv, Named
  <2>2. RowsKept /\ LeasesKept /\ RequestsKept
    BY <1>5, <2>1, ReturnSlotKept, SetLeaseKept, GotoKept
    DEF Release, ReleaseCondition
  <2>3. QED
    BY <1>5, <2>2 DEF Release
<1>6. CASE ReleaseMarksIdle(r)
  <2>1. req[r].vm \in Instances
    BY <1>6 DEF ReleaseMarksIdle, TypeInv, Named
  <2>2. QED
    BY <1>6, <2>1, MarkIdleKept, FinishKept DEF ReleaseMarksIdle
<1>7. CASE ReleaseRefused(r)
  BY <1>7, GotoKept DEF ReleaseRefused
<1>8. CASE ReleaseDropsLease(r)
  BY <1>8, EraseLeaseKept, FinishKept DEF ReleaseDropsLease
<1>9. CASE Fail(r)
  <2>1. req[r].vm \in Instances
    BY <1>9 DEF Fail, TypeInv, Named
  <2>2. RowsKept
    BY <1>9, <2>1
    DEF Fail, FailCondition, CanReturnSlot, TypeInv, TypeOK, RowsKept, InstanceRow
  <2>3. LeasesKept /\ RequestsKept
    BY <1>9, SetLeaseKept, GotoKept DEF Fail, FailCondition
  <2>4. QED
    BY <1>9, <2>2, <2>3 DEF Fail
<1>10. CASE FailRefused(r)
  BY <1>10, GotoKept DEF FailRefused
<1>11. CASE FailFences(r)
  <2>1. req[r].vm \in Instances
    BY <1>11 DEF FailFences, TypeInv, Named
  <2>2. RowsKept
    BY <1>11, <2>1 DEF FailFences, TypeInv, TypeOK, RowsKept, InstanceRow
  <2>3. RequestsKept
    BY <1>11, GotoKept DEF FailFences
  <2>4. QED
    BY <1>11, <2>2, <2>3 DEF FailFences
<1>12. CASE FailDropsLease(r)
  BY <1>12, EraseLeaseKept, GotoKept DEF FailDropsLease
<1>13. CASE FailTerminates(r)
  BY <1>13, FinishKept DEF FailTerminates, TypeInv, TypeOK, OthersTyped
<1>14. CASE Crash(r)
  BY <1>14, FinishKept DEF Crash
<1>15. QED
  BY <1>1, <1>2, <1>3, <1>4, <1>5, <1>6, <1>7, <1>8, <1>9, <1>10, <1>11,
     <1>12, <1>13, <1>14
  DEF RequestProceeds, RequestStarts

(* Every step of TTL and of the stream handler preserves it.               *)
LEMMA StreamTypeInv ==
  ASSUME TypeInv, StreamStep
  PROVE  TypeInv'
<1> USE UnchangedKept, KeptTypeInv
<1>1. ASSUME NEW i \in Instances, TtlRemovesInstance(i) PROVE TypeInv'
  BY <1>1, EraseInstanceKept DEF TtlRemovesInstance, TypeInv, TypeOK, OthersTyped
<1>2. ASSUME NEW i \in Instances,
             StreamTerminates(i) \/ StreamCrashes(i) \/ StreamDropsInstance(i)
      PROVE  TypeInv'
  BY <1>2 DEF StreamTerminates, StreamCrashes, StreamDropsInstance, TypeInv,
              TypeOK, OthersTyped
<1>3. ASSUME NEW i \in Instances, StreamMarksIdle(i) PROVE TypeInv'
  BY <1>3, MarkIdleKept DEF StreamMarksIdle, TypeInv, TypeOK, OthersTyped
<1>4. ASSUME NEW r \in Requests, TtlRemovesLease(r) \/ StreamDropsLease(r)
      PROVE  TypeInv'
  BY <1>4, SetLeaseKept DEF TtlRemovesLease, StreamDropsLease
<1>5. ASSUME NEW r \in Requests, StreamRecovers(r) PROVE TypeInv'
  <2>1. lease[r].vm \in Instances
    BY <1>5 DEF StreamRecovers, TypeInv, Named
  <2>2. RowsKept /\ LeasesKept
    BY <1>5, <2>1, ReturnSlotKept, SetLeaseKept
    DEF StreamRecovers, CanReturnSlot
  <2>3. QED
    BY <1>5, <2>1, <2>2 DEF StreamRecovers, TypeInv, TypeOK, OthersTyped
<1>6. QED
  BY <1>1, <1>2, <1>3, <1>4, <1>5 DEF StreamStep

(* Every step of the reconciliation preserves it.                          *)
LEMMA SweepTypeInv ==
  ASSUME TypeInv, NEW s \in Sweepers, SweepStep(s)
  PROVE  TypeInv'
<1> USE UnchangedKept, KeptTypeInv DEF Sweep
<1>1. CASE SweepScans(s)
  BY <1>1 DEF SweepScans, SweepOff, Doomed, ExpiredLeases, Orphans, TypeInv,
              TypeOK, OthersTyped
<1>2. CASE SweepSkips(s)
  <2>1. sweep' \in [Sweepers -> Sweep]
    BY <1>2 DEF SweepSkips, TypeInv, TypeOK
  <2>2. QED
    BY <1>2, <2>1 DEF SweepSkips, TypeInv, TypeOK, OthersTyped
<1>9. CASE SweepEnds(s)
  BY <1>9 DEF SweepEnds, SweepOff, TypeInv, TypeOK, OthersTyped
<1>3. ASSUME NEW i \in Instances, SweepTerminates(s, i) PROVE TypeInv'
  <2>1. sweep' \in [Sweepers -> Sweep]
    BY <1>3 DEF SweepTerminates, TypeInv, TypeOK
  <2>2. QED
    BY <1>3, <2>1 DEF SweepTerminates, TypeInv, TypeOK, OthersTyped
<1>10. ASSUME NEW i \in Instances, SweepKillsOrphan(s, i) PROVE TypeInv'
  BY <1>10 DEF SweepKillsOrphan, TypeInv, TypeOK, OthersTyped
<1>4. ASSUME NEW i \in Instances, SweepDeletes(s, i) PROVE TypeInv'
  BY <1>4, EraseInstanceKept DEF SweepDeletes, TypeInv, TypeOK, OthersTyped
<1>5. ASSUME NEW i \in Instances, SweepMarksIdle(s, i) PROVE TypeInv'
  BY <1>5, MarkIdleKept DEF SweepMarksIdle, TypeInv, TypeOK, OthersTyped
<1>6. ASSUME NEW r \in Requests, SweepRecovers(s, r) PROVE TypeInv'
  <2> DEFINE i == lease[r].vm
  <2>1. CASE lease[r].status = "row" /\ CanReturnSlot(i)
    <3>1. i \in Instances
      BY <2>1 DEF TypeInv, Named
    <3>2. RowsKept /\ LeasesKept
      BY <1>6, <2>1, <3>1, ReturnSlotKept, SetLeaseKept
      DEF SweepRecovers, CanReturnSlot
    <3>3. sweep' \in [Sweepers -> Sweep]
      BY <1>6, <2>1, <3>1 DEF SweepRecovers, TypeInv, TypeOK
    <3>4. QED
      BY <1>6, <3>2, <3>3 DEF SweepRecovers, TypeInv, TypeOK, OthersTyped
  <2>2. CASE ~(lease[r].status = "row" /\ CanReturnSlot(i))
    <3>1. sweep' \in [Sweepers -> Sweep]
      BY <1>6, <2>2 DEF SweepRecovers, TypeInv, TypeOK
    <3>2. QED
      BY <1>6, <2>2, <3>1 DEF SweepRecovers, TypeInv, TypeOK, OthersTyped
  <2>3. QED
    BY <2>1, <2>2
<1>7. ASSUME NEW r \in Requests, SweepDropsLease(s, r) PROVE TypeInv'
  BY <1>7, EraseLeaseKept DEF SweepDropsLease, TypeInv, TypeOK, OthersTyped
<1>8. QED
  BY <1>1, <1>2, <1>3, <1>4, <1>5, <1>6, <1>7, <1>9, <1>10 DEF SweepStep

(* The invariant is inductive.                                             *)
LEMMA NextTypeInv ==
  ASSUME TypeInv, [Next]_vars
  PROVE  TypeInv'
<1>1. ASSUME NEW i \in Instances, PlatformStops(i) PROVE TypeInv'
  BY <1>1, UnchangedKept, KeptTypeInv
  DEF PlatformStops, TypeInv, TypeOK, OthersTyped
<1>2. CASE Tick
  BY <1>2, UnchangedKept, KeptTypeInv DEF Tick, TypeInv, TypeOK, OthersTyped
<1>3. CASE UNCHANGED vars
  BY <1>3, UnchangedKept, KeptTypeInv DEF vars
<1>4. QED
  BY <1>1, <1>2, <1>3, RequestTypeInv, StreamTypeInv, SweepTypeInv DEF Next

(* Every reachable state is typed: rows, leases, requests, events and the  *)
(* sweep stay in their ranges, and no release, recovery or sweep takes     *)
(* in_flight of a worker below zero, whatever the numbers of requests,     *)
(* workers and sweeps.                                                     *)
THEOREM TypeCorrect == Spec => []TypeOK
<1>1. Spec => []TypeInv
  BY InitTypeInv, NextTypeInv, PTL DEF Spec
<1>2. TypeInv => TypeOK
  BY DEF TypeInv
<1>3. QED
  BY <1>1, <1>2, PTL

-----------------------------------------------------------------------------
(* Slot accounting.                                                        *)

(* The leases charged to a worker can be counted.                          *)
LEMMA ChargedFinite ==
  ASSUME NEW i \in Instances
  PROVE  IsFiniteSet(Charged(i)) /\ Cardinality(Charged(i)) \in Nat
<1>1. Charged(i) \in SUBSET Requests
  BY DEF Charged
<1>2. QED
  BY <1>1, RequestsAssumption, FS_Subset, FS_CardinalityType

(* A step that puts no worker into service and leaves the occupancy and    *)
(* the charged leases of those in service alone.                           *)
LEMMA AccountKept ==
  ASSUME SlotsAccounted,
         \A i \in Instances : Ready(i)' =>
           /\ Ready(i)
           /\ inst'[i].in_flight = inst[i].in_flight
           /\ Charged(i)' = Charged(i)
  PROVE  SlotsAccounted'
  BY DEF SlotsAccounted

(* Without a change of the leases, the same ones are charged.              *)
LEMMA LeasesSame ==
  ASSUME UNCHANGED lease
  PROVE  \A i \in Instances : Charged(i)' = Charged(i)
  BY DEF Charged

(* Removing a lease row, or its event, without returning the slot.         *)
LEMMA ChargeStays ==
  ASSUME TypeInv, NEW r \in Requests, NEW status \in {"queued", "lost"},
         lease[r].status \in {"row", "queued"}, SetLease(r, status)
  PROVE  \A i \in Instances : Charged(i)' = Charged(i)
  BY DEF SetLease, Charged, TypeInv, TypeOK, LeaseRow

(* Deleting a lease row returns no slot, so its charge stays.              *)
LEMMA EraseKeepsCharge ==
  ASSUME TypeInv, NEW r \in Requests, EraseLease(r)
  PROVE  \A i \in Instances : Charged(i)' = Charged(i)
<1>1. CASE lease[r].status = "row"
  BY <1>1, ChargeStays DEF EraseLease
<1>2. CASE lease[r].status # "row"
  BY <1>2, LeasesSame DEF EraseLease
<1>3. QED
  BY <1>1, <1>2

(* Returning a slot together with its lease or its event.                  *)
LEMMA SlotReturned ==
  ASSUME TypeInv, SlotsAccounted, NEW r \in Requests,
         NEW i \in Instances, lease[r].vm = i,
         lease[r].status \in {"row", "queued"},
         NEW status \in {"returned", "recovered"},
         SetLease(r, status), ReturnSlot(i), inst[i].in_flight > 0
  PROVE  SlotsAccounted'
<1> SUFFICES ASSUME NEW j \in Instances, Ready(j)'
             PROVE  /\ inst'[j].in_flight = Cardinality(Charged(j)')
                    /\ inst'[j].in_flight <= Capacity
  BY DEF SlotsAccounted
<1>1. inst[j] \in InstanceRow /\ inst[i] \in InstanceRow
  BY DEF TypeInv, TypeOK
<1>2. Ready(j)
  BY <1>1 DEF ReturnSlot, Ready, TypeInv, TypeOK, InstanceRow
<1>3. CASE j = i
  <2>1. Charged(i)' = Charged(i) \ {r}
    BY DEF SetLease, Charged, TypeInv, TypeOK, LeaseRow
  <2>2. r \in Charged(i)
    BY DEF Charged
  <2>3. Cardinality(Charged(i)') = Cardinality(Charged(i)) - 1
    BY <2>1, <2>2, ChargedFinite, FS_RemoveElement
  <2>4. inst'[i].in_flight = inst[i].in_flight - 1
    BY <1>1 DEF ReturnSlot, TypeInv, TypeOK, InstanceRow
  <2>5. inst[i].in_flight \in Nat /\ Capacity \in Nat
    BY <1>1, CapacityAssumption DEF InstanceRow
  <2>6. QED
    BY <1>2, <1>3, <2>3, <2>4, <2>5 DEF SlotsAccounted
<1>4. CASE j # i
  <2>1. Charged(j)' = Charged(j)
    BY <1>4 DEF SetLease, Charged, TypeInv, TypeOK, LeaseRow
  <2>2. inst'[j] = inst[j]
    BY <1>4 DEF ReturnSlot, TypeInv, TypeOK
  <2>3. QED
    BY <1>2, <2>1, <2>2 DEF SlotsAccounted
<1>5. QED
  BY <1>3, <1>4

(* A new lease on a worker that has a free slot, or that is new.           *)
LEMMA SlotTaken ==
  ASSUME TypeInv, SlotsAccounted, NEW r \in Requests, NEW i \in Instances,
         lease[r].status = "none", NEW expires \in Nat,
         lease' = [lease EXCEPT ![r] = [status |-> "row", vm |-> i,
                                        expires |-> expires]],
         \A j \in Instances \ {i} : inst'[j] = inst[j],
         \/ /\ Ready(i) /\ inst[i].in_flight < Capacity
            /\ inst'[i].in_flight = inst[i].in_flight + 1
         \/ inst[i].status = "none" /\ inst'[i].in_flight = 1
  PROVE  SlotsAccounted'
<1> SUFFICES ASSUME NEW j \in Instances, Ready(j)'
             PROVE  /\ inst'[j].in_flight = Cardinality(Charged(j)')
                    /\ inst'[j].in_flight <= Capacity
  BY DEF SlotsAccounted
<1>1. CASE j = i
  <2>1. Charged(i)' = Charged(i) \cup {r} /\ r \notin Charged(i)
    BY DEF Charged, TypeInv, TypeOK, LeaseRow
  <2>2. Cardinality(Charged(i)') = Cardinality(Charged(i)) + 1
    BY <2>1, ChargedFinite, FS_AddElement
  <2>3. inst[i].in_flight \in Nat /\ Capacity \in Nat \ {0}
    BY CapacityAssumption DEF TypeInv, TypeOK, InstanceRow
  <2>4. CASE inst[i].status = "none"
    <3>1. Charged(i) = {}
      BY <2>4 DEF Charged, TypeInv, Named
    <3>2. QED
      BY <1>1, <2>2, <2>3, <2>4, <3>1, FS_EmptySet DEF Ready
  <2>5. CASE Ready(i)
    BY <1>1, <2>2, <2>3, <2>5 DEF SlotsAccounted, Ready
  <2>6. QED
    BY <2>4, <2>5
<1>2. CASE j # i
  <2>1. Charged(j)' = Charged(j)
    BY <1>2 DEF Charged, TypeInv, TypeOK, LeaseRow
  <2>2. inst'[j] = inst[j] /\ Ready(j)
    BY <1>2 DEF Ready
  <2>3. QED
    BY <2>1, <2>2 DEF SlotsAccounted
<1>3. QED
  BY <1>1, <1>2

(* markAvailableWhenIdle neither fences a worker nor counts.               *)
LEMMA MarkIdleAccount ==
  ASSUME TypeInv, NEW i \in Instances, MarkIdle(i), NEW j \in Instances
  PROVE  /\ Ready(j)' <=> Ready(j)
         /\ inst'[j].in_flight = inst[j].in_flight
  BY DEF MarkIdle, Ready, TypeInv, TypeOK, InstanceRow

(* Deleting a row leaves the other workers in service as they are.         *)
LEMMA EraseInstanceAccount ==
  ASSUME TypeInv, NEW i \in Instances, EraseInstance(i), NEW j \in Instances,
         Ready(j)'
  PROVE  Ready(j) /\ inst'[j] = inst[j] /\ j # i
  BY DEF EraseInstance, Stored, Present, Ready, TypeInv, TypeOK, InstanceRow

(* Every step of acquire, release and fail keeps the slots accounted.      *)
LEMMA RequestAccount ==
  ASSUME TypeInv, SlotsAccounted, NEW r \in Requests,
         RequestProceeds(r) \/ RequestStarts(r)
  PROVE  SlotsAccounted'
<1>1. CASE UNCHANGED << inst, lease >>
  BY <1>1, LeasesSame, AccountKept DEF Ready
<1>2. ASSUME NEW i \in Instances, Register(r, i) PROVE SlotsAccounted'
  <2>1. PICK readyAt \in BootTime .. MaxBirth :
          /\ inst' = [inst EXCEPT ![i] =
                [status |-> "BUSY", in_flight |-> 1,
                 hard |-> readyAt - BootTime + HardTtl,
                 soft |-> MinOf(readyAt + SoftTtl, readyAt - BootTime + HardTtl)]]
          /\ lease' = [lease EXCEPT ![r] =
                [status |-> "row", vm |-> i, expires |-> readyAt + LeaseSeconds]]
    BY <1>2 DEF Register
  <2>2. readyAt + LeaseSeconds \in Nat
    BY <2>1, TimeAssumption
  <2>3. inst'[i].in_flight = 1 /\ \A j \in Instances \ {i} : inst'[j] = inst[j]
    BY <2>1 DEF TypeInv, TypeOK
  <2>4. QED
    BY <1>2, <2>1, <2>2, <2>3, SlotTaken DEF Register
<1>3. CASE ClaimCommits(r)
  <2> DEFINE i == req[r].vm
  <2>1. i \in Instances /\ req[r].now + LeaseSeconds \in Nat
    BY <1>3, TimeAssumption DEF ClaimCommits, TypeInv, TypeOK, Named, Request
  <2>2. /\ inst'[i].in_flight = inst[i].in_flight + 1
        /\ \A j \in Instances \ {i} : inst'[j] = inst[j]
    BY <1>3, <2>1 DEF ClaimCommits, TypeInv, TypeOK
  <2>3. /\ lease[r].status = "none"
        /\ lease' = [lease EXCEPT ![r] = [status |-> "row", vm |-> i,
                                expires |-> req[r].now + LeaseSeconds]]
        /\ Ready(i) /\ inst[i].in_flight < Capacity
    BY <1>3 DEF ClaimCommits, ClaimCondition
  <2>4. QED
    BY <2>1, <2>2, <2>3, SlotTaken
<1>4. CASE Release(r)
  <2>1. /\ req[r].vm \in Instances /\ lease[r].vm = req[r].vm
        /\ lease[r].status = "row" /\ inst[req[r].vm].in_flight > 0
        /\ SetLease(r, "returned") /\ ReturnSlot(req[r].vm)
    BY <1>4 DEF Release, ReleaseCondition, TypeInv, Named
  <2>2. QED
    BY <2>1, SlotReturned
<1>5. CASE ReleaseMarksIdle(r)
  <2>1. req[r].vm \in Instances
    BY <1>5 DEF ReleaseMarksIdle, TypeInv, Named
  <2>2. QED
    BY <1>5, <2>1, MarkIdleAccount, LeasesSame, AccountKept DEF ReleaseMarksIdle
<1>6. CASE ReleaseDropsLease(r)
  BY <1>6, EraseKeepsCharge, LeasesSame, AccountKept DEF ReleaseDropsLease, Ready
<1>7. CASE Fail(r)
  <2> DEFINE i == req[r].vm
  <2>1. i \in Instances /\ lease[r].vm = i
    BY <1>7 DEF Fail, TypeInv, Named
  <2>2. \A j \in Instances : Ready(j)' => j # i /\ Ready(j) /\ inst'[j] = inst[j]
    BY <1>7, <2>1 DEF Fail, Ready, TypeInv, TypeOK
  <2>3. \A j \in Instances \ {i} : Charged(j)' = Charged(j)
    BY <1>7, <2>1 DEF Fail, SetLease, Charged, TypeInv, TypeOK, LeaseRow
  <2>4. QED
    BY <2>2, <2>3, AccountKept
<1>8. CASE FailFences(r)
  <2>1. req[r].vm \in Instances
    BY <1>8 DEF FailFences, TypeInv, Named
  <2>2. \A j \in Instances : Ready(j)' => Ready(j) /\ inst'[j] = inst[j]
    BY <1>8, <2>1 DEF FailFences, Ready, TypeInv, TypeOK, InstanceRow
  <2>3. QED
    BY <1>8, <2>2, LeasesSame, AccountKept DEF FailFences
<1>9. CASE FailDropsLease(r)
  BY <1>9, EraseKeepsCharge, LeasesSame, AccountKept DEF FailDropsLease, Ready
<1>10. QED
  BY <1>1, <1>2, <1>3, <1>4, <1>5, <1>6, <1>7, <1>8, <1>9
  DEF RequestProceeds, RequestStarts, TryCandidate, ClaimRefused,
      ReleaseRefused, FailRefused, FailTerminates, Crash

(* Every step of TTL and of the stream handler keeps them accounted.       *)
LEMMA StreamAccount ==
  ASSUME TypeInv, SlotsAccounted, StreamStep
  PROVE  SlotsAccounted'
<1>1. CASE UNCHANGED << inst, lease >>
  BY <1>1, LeasesSame, AccountKept DEF Ready
<1>2. ASSUME NEW i \in Instances, TtlRemovesInstance(i) PROVE SlotsAccounted'
  BY <1>2, EraseInstanceAccount, LeasesSame, AccountKept DEF TtlRemovesInstance
<1>3. ASSUME NEW i \in Instances, StreamMarksIdle(i) PROVE SlotsAccounted'
  BY <1>3, MarkIdleAccount, LeasesSame, AccountKept DEF StreamMarksIdle
<1>4. ASSUME NEW r \in Requests, TtlRemovesLease(r) \/ StreamDropsLease(r)
      PROVE  SlotsAccounted'
  BY <1>4, ChargeStays, AccountKept DEF TtlRemovesLease, StreamDropsLease, Ready
<1>5. ASSUME NEW r \in Requests, StreamRecovers(r) PROVE SlotsAccounted'
  <2>1. CASE lease[r].status = "queued" /\ CanReturnSlot(lease[r].vm)
    BY <1>5, <2>1, SlotReturned DEF StreamRecovers, CanReturnSlot, TypeInv, Named
  <2>2. CASE ~(lease[r].status = "queued" /\ CanReturnSlot(lease[r].vm))
    BY <1>1, <1>5, <2>2 DEF StreamRecovers
  <2>3. QED
    BY <2>1, <2>2
<1>6. QED
  BY <1>1, <1>2, <1>3, <1>4, <1>5
  DEF StreamStep, StreamTerminates, StreamCrashes, StreamDropsInstance

(* Every step of the reconciliation keeps them accounted.                  *)
LEMMA SweepAccount ==
  ASSUME TypeInv, SlotsAccounted, NEW s \in Sweepers, SweepStep(s)
  PROVE  SlotsAccounted'
<1>1. CASE UNCHANGED << inst, lease >>
  BY <1>1, LeasesSame, AccountKept DEF Ready
<1>2. ASSUME NEW i \in Instances, SweepDeletes(s, i) PROVE SlotsAccounted'
  BY <1>2, EraseInstanceAccount, LeasesSame, AccountKept DEF SweepDeletes
<1>3. ASSUME NEW i \in Instances, SweepMarksIdle(s, i) PROVE SlotsAccounted'
  BY <1>3, MarkIdleAccount, LeasesSame, AccountKept DEF SweepMarksIdle
<1>4. ASSUME NEW r \in Requests, SweepRecovers(s, r) PROVE SlotsAccounted'
  <2>1. CASE lease[r].status = "row" /\ CanReturnSlot(lease[r].vm)
    BY <1>4, <2>1, SlotReturned DEF SweepRecovers, CanReturnSlot, TypeInv, Named
  <2>2. CASE ~(lease[r].status = "row" /\ CanReturnSlot(lease[r].vm))
    BY <1>1, <1>4, <2>2 DEF SweepRecovers
  <2>3. QED
    BY <2>1, <2>2
<1>5. ASSUME NEW r \in Requests, SweepDropsLease(s, r) PROVE SlotsAccounted'
  BY <1>5, EraseKeepsCharge, AccountKept DEF SweepDropsLease, Ready
<1>6. QED
  BY <1>1, <1>2, <1>3, <1>4, <1>5
  DEF SweepStep, SweepScans, SweepSkips, SweepEnds, SweepTerminates,
      SweepKillsOrphan

(* Together with TypeInv the slot account is inductive.                    *)
LEMMA NextAccount ==
  ASSUME TypeInv, SlotsAccounted, [Next]_vars
  PROVE  SlotsAccounted'
<1>1. CASE UNCHANGED << inst, lease >>
  BY <1>1, LeasesSame, AccountKept DEF Ready
<1>2. QED
  BY <1>1, RequestAccount, StreamAccount, SweepAccount
  DEF Next, PlatformStops, Tick, vars

(* in_flight of a worker in service is the number of slots not yet         *)
(* returned, and at most its capacity, whatever the numbers of requests,   *)
(* workers and concurrent sweeps, the timing and the failing calls.        *)
THEOREM SlotsAreAccounted == Spec => []SlotsAccounted
<1>1. Init => TypeInv /\ SlotsAccounted
  BY InitTypeInv DEF Init, SlotsAccounted, Ready
<1>2. TypeInv /\ SlotsAccounted /\ [Next]_vars => TypeInv' /\ SlotsAccounted'
  BY NextTypeInv, NextAccount
<1>3. QED
  BY <1>1, <1>2, PTL DEF Spec

-----------------------------------------------------------------------------
(* LeasePool implements SlotPool: what the conditional writes, the TTL     *)
(* removals, the stream and the sweep do to a worker's row is that its     *)
(* slots are entered and left one by one, below its capacity, and that it  *)
(* never comes back into service.                                          *)

(* SlotPool counts as LeasePool does: an instance has its own copy of the  *)
(* operators its module extends.                                           *)
LEMMA SameCardinality == ASSUME NEW S PROVE Slots!Cardinality(S) = Cardinality(S)
  BY DEF Cardinality, Slots!Cardinality

(* The room of a worker is left alone.                                     *)
SameRoom(j) == Door(j)' = Door(j) /\ Inside(j)' = Inside(j)

(* A step that leaves every room alone.                                    *)
LEMMA StuttersSlots ==
  ASSUME \A j \in Instances : SameRoom(j)
  PROVE  UNCHANGED Slots!slotVars
  BY DEF SameRoom, Slots!slotVars

(* What SameRoom needs of the row and of the leases.                       *)
LEMMA SameRoomFacts ==
  ASSUME NEW j \in Instances, inst'[j].status = "none" <=> inst[j].status = "none",
         Ready(j)' <=> Ready(j), Charged(j)' = Charged(j)
  PROVE  SameRoom(j)
  BY DEF SameRoom, Door, Inside

(* A worker is taken out of service, or was not in service any more.       *)
LEMMA ShutsRoom ==
  ASSUME NEW i \in Instances, inst[i].status # "none",
         inst'[i].status # "none", ~Ready(i)',
         \A j \in Instances \ {i} : SameRoom(j)
  PROVE  [Slots!SlotNext]_(Slots!slotVars)
<1>1. Door(i)' = "closed" /\ Inside(i)' = {}
  BY DEF Door, Inside
<1>2. CASE Ready(i)
  <2>1. Door(i) = "open"
    BY <1>2 DEF Door
  <2>2. /\ [j \in Instances |-> Door(j)]' =
             [[j \in Instances |-> Door(j)] EXCEPT ![i] = "closed"]
        /\ [j \in Instances |-> Inside(j)]' =
             [[j \in Instances |-> Inside(j)] EXCEPT ![i] = {}]
    BY <1>1 DEF SameRoom
  <2>3. Slots!Close(i)
    BY <2>1, <2>2 DEF Slots!Close
  <2>4. QED
    BY <2>3 DEF Slots!SlotNext
<1>3. CASE ~Ready(i)
  <2>1. SameRoom(i)
    BY <1>1, <1>3 DEF SameRoom, Door, Inside
  <2>2. QED
    BY <2>1, StuttersSlots
<1>4. QED
  BY <1>2, <1>3

(* A slot is given back, or was gone with its worker.                      *)
LEMMA LeavesRoom ==
  ASSUME TypeInv, NEW r \in Requests, NEW i \in Instances, lease[r].vm = i,
         lease[r].status \in {"row", "queued"},
         NEW status \in {"returned", "recovered"},
         SetLease(r, status), ReturnSlot(i)
  PROVE  [Slots!SlotNext]_(Slots!slotVars)
<1>1. \A j \in Instances : /\ inst'[j].status = inst[j].status
                           /\ Ready(j)' <=> Ready(j)
  BY DEF ReturnSlot, Ready, TypeInv, TypeOK, InstanceRow
<1>2. /\ Charged(i)' = Charged(i) \ {r} /\ r \in Charged(i)
      /\ \A j \in Instances \ {i} : Charged(j)' = Charged(j)
  BY DEF SetLease, Charged, TypeInv, TypeOK, LeaseRow
<1>3. \A j \in Instances \ {i} : SameRoom(j)
  BY <1>1, <1>2, SameRoomFacts
<1>4. CASE Ready(i)
  <2>1. /\ [j \in Instances |-> Inside(j)]' =
             [[j \in Instances |-> Inside(j)] EXCEPT ![i] = @ \ {r}]
        /\ [j \in Instances |-> Door(j)]' = [j \in Instances |-> Door(j)]
        /\ r \in Inside(i)
    BY <1>1, <1>2, <1>3, <1>4 DEF SameRoom, Inside, Door
  <2>2. Slots!Leave(i, r)
    BY <2>1 DEF Slots!Leave
  <2>3. QED
    BY <2>2 DEF Slots!SlotNext
<1>5. CASE ~Ready(i)
  <2>1. SameRoom(i)
    BY <1>1, <1>5 DEF SameRoom, Door, Inside
  <2>2. QED
    BY <1>3, <2>1, StuttersSlots
<1>6. QED
  BY <1>4, <1>5

(* A slot is taken: a new worker is opened, or one in service is entered.  *)
LEMMA EntersRoom ==
  ASSUME TypeInv, SlotsAccounted, NEW r \in Requests, NEW i \in Instances,
         lease[r].status = "none", NEW expires \in Nat,
         lease' = [lease EXCEPT ![r] = [status |-> "row", vm |-> i,
                                        expires |-> expires]],
         \A j \in Instances \ {i} : inst'[j] = inst[j],
         Ready(i)',
         \/ Ready(i) /\ inst[i].in_flight < Capacity
         \/ inst[i].status = "none"
  PROVE  Slots!SlotNext
<1>1. /\ Charged(i)' = Charged(i) \cup {r} /\ r \notin Charged(i)
      /\ \A j \in Instances \ {i} : Charged(j)' = Charged(j)
  BY DEF Charged, TypeInv, TypeOK, LeaseRow
<1>2. \A j \in Instances \ {i} : SameRoom(j)
  BY <1>1, SameRoomFacts DEF Ready
<1>3. Door(i)' = "open" /\ Inside(i)' = Charged(i) \cup {r}
  BY <1>1 DEF Door, Inside, Ready
<1>4. CASE inst[i].status = "none"
  <2>1. Charged(i) = {} /\ Door(i) = "unbuilt"
    BY <1>4 DEF Charged, Door, TypeInv, Named
  <2>2. /\ [j \in Instances |-> Door(j)]' =
             [[j \in Instances |-> Door(j)] EXCEPT ![i] = "open"]
        /\ [j \in Instances |-> Inside(j)]' =
             [[j \in Instances |-> Inside(j)] EXCEPT ![i] = {r}]
    BY <1>2, <1>3, <2>1 DEF SameRoom
  <2>3. Slots!Open(i, r)
    BY <2>1, <2>2 DEF Slots!Open
  <2>4. QED
    BY <2>3 DEF Slots!SlotNext
<1>5. CASE Ready(i) /\ inst[i].in_flight < Capacity
  <2>1. Door(i) = "open" /\ Inside(i) = Charged(i)
    BY <1>5 DEF Door, Inside, Ready
  <2>2. /\ [j \in Instances |-> Inside(j)]' =
             [[j \in Instances |-> Inside(j)] EXCEPT ![i] = @ \cup {r}]
        /\ [j \in Instances |-> Door(j)]' = [j \in Instances |-> Door(j)]
    BY <1>2, <1>3, <2>1 DEF SameRoom
  <2>3. [j \in Instances |-> Inside(j)][i] = Charged(i)
    BY <2>1
  <2>4. Slots!Cardinality([j \in Instances |-> Inside(j)][i]) < Capacity
    BY <1>5, <2>3, SameCardinality DEF SlotsAccounted
  <2>5. Slots!Enter(i, r)
    BY <1>1, <2>1, <2>2, <2>3, <2>4 DEF Slots!Enter
  <2>6. QED
    BY <2>5 DEF Slots!SlotNext
<1>6. QED
  BY <1>4, <1>5

(* markAvailableWhenIdle leaves every room alone.                          *)
LEMMA MarkIdleRoom ==
  ASSUME TypeInv, NEW i \in Instances, MarkIdle(i), UNCHANGED lease
  PROVE  UNCHANGED Slots!slotVars
<1>1. ASSUME NEW j \in Instances
      PROVE  inst'[j].status = "none" <=> inst[j].status = "none"
  BY DEF MarkIdle, Ready, TypeInv, TypeOK, InstanceRow
<1>2. \A j \in Instances : SameRoom(j)
  BY <1>1, MarkIdleAccount, LeasesSame, SameRoomFacts
<1>3. QED
  BY <1>2, StuttersSlots

(* Deleting a row shuts the worker's room.                                 *)
LEMMA EraseInstanceRoom ==
  ASSUME TypeInv, NEW i \in Instances, EraseInstance(i), UNCHANGED lease
  PROVE  [Slots!SlotNext]_(Slots!slotVars)
<1>1. \A j \in Instances \ {i} : inst'[j] = inst[j]
  BY DEF EraseInstance, TypeInv, TypeOK
<1>2. \A j \in Instances \ {i} : SameRoom(j)
  BY <1>1, LeasesSame, SameRoomFacts DEF Ready
<1>3. CASE Stored(i)
  <2>1. inst[i].status # "none" /\ inst'[i].status = "removed"
    BY <1>3 DEF EraseInstance, Stored, Present, Ready, TypeInv, TypeOK, InstanceRow
  <2>2. QED
    BY <1>2, <2>1, ShutsRoom DEF Ready
<1>4. CASE ~Stored(i)
  <2>1. inst'[i] = inst[i]
    BY <1>4 DEF EraseInstance, TypeInv, TypeOK
  <2>2. SameRoom(i)
    BY <2>1, LeasesSame, SameRoomFacts DEF Ready
  <2>3. QED
    BY <1>2, <2>2, StuttersSlots
<1>5. QED
  BY <1>3, <1>4

(* Without a change of the rows, what keeps the charges keeps the rooms.   *)
LEMMA ChargesSameRoom ==
  ASSUME UNCHANGED inst, \A j \in Instances : Charged(j)' = Charged(j)
  PROVE  UNCHANGED Slots!slotVars
  BY SameRoomFacts, StuttersSlots DEF Ready

(* Every step of acquire, release and fail is one of SlotPool.             *)
LEMMA RequestSlots ==
  ASSUME TypeInv, SlotsAccounted, NEW r \in Requests,
         RequestProceeds(r) \/ RequestStarts(r)
  PROVE  [Slots!SlotNext]_(Slots!slotVars)
<1> DEFINE Goal == [Slots!SlotNext]_(Slots!slotVars)
<1>1. CASE UNCHANGED << inst, lease >>
  BY <1>1, LeasesSame, ChargesSameRoom
<1>2. ASSUME NEW i \in Instances, Register(r, i) PROVE Goal
  <2>1. PICK readyAt \in BootTime .. MaxBirth :
          /\ inst' = [inst EXCEPT ![i] =
                [status |-> "BUSY", in_flight |-> 1,
                 hard |-> readyAt - BootTime + HardTtl,
                 soft |-> MinOf(readyAt + SoftTtl, readyAt - BootTime + HardTtl)]]
          /\ lease' = [lease EXCEPT ![r] =
                [status |-> "row", vm |-> i, expires |-> readyAt + LeaseSeconds]]
    BY <1>2 DEF Register
  <2>2. readyAt + LeaseSeconds \in Nat
    BY <2>1, TimeAssumption
  <2>3. Ready(i)' /\ \A j \in Instances \ {i} : inst'[j] = inst[j]
    BY <2>1 DEF TypeInv, TypeOK, Ready
  <2>4. lease[r].status = "none" /\ inst[i].status = "none"
    BY <1>2 DEF Register
  <2>5. Slots!SlotNext
    BY <2>1, <2>2, <2>3, <2>4, EntersRoom
  <2>6. QED
    BY <2>5
<1>3. CASE ClaimCommits(r)
  <2>1. PICK i \in Instances :
          i = req[r].vm /\ req[r].now + LeaseSeconds \in Nat
    BY <1>3, TimeAssumption DEF ClaimCommits, TypeInv, TypeOK, Named, Request
  <2>2. Ready(i)' /\ \A j \in Instances \ {i} : inst'[j] = inst[j]
    BY <1>3, <2>1 DEF ClaimCommits, TypeInv, TypeOK, Ready
  <2>3. /\ lease[r].status = "none"
        /\ lease' = [lease EXCEPT ![r] = [status |-> "row", vm |-> i,
                                expires |-> req[r].now + LeaseSeconds]]
        /\ Ready(i) /\ inst[i].in_flight < Capacity
    BY <1>3, <2>1 DEF ClaimCommits, ClaimCondition
  <2>4. Slots!SlotNext
    BY <2>1, <2>2, <2>3, EntersRoom
  <2>5. QED
    BY <2>4
<1>4. CASE Release(r)
  <2>1. /\ req[r].vm \in Instances /\ lease[r].vm = req[r].vm
        /\ lease[r].status = "row"
        /\ SetLease(r, "returned") /\ ReturnSlot(req[r].vm)
    BY <1>4 DEF Release, ReleaseCondition, TypeInv, Named
  <2>2. QED
    BY <2>1, LeavesRoom
<1>5. CASE ReleaseMarksIdle(r)
  <2>1. req[r].vm \in Instances
    BY <1>5 DEF ReleaseMarksIdle, TypeInv, Named
  <2>2. QED
    BY <1>5, <2>1, MarkIdleRoom DEF ReleaseMarksIdle
<1>6. CASE ReleaseDropsLease(r) \/ FailDropsLease(r)
  BY <1>6, EraseKeepsCharge, LeasesSame, ChargesSameRoom
  DEF ReleaseDropsLease, FailDropsLease
<1>7. CASE Fail(r)
  <2> DEFINE i == req[r].vm
  <2>1. i \in Instances /\ lease[r].vm = i /\ inst[i].status # "none"
    BY <1>7 DEF Fail, TypeInv, Named
  <2>2. /\ inst'[i].status = "FAILED"
        /\ \A j \in Instances \ {i} : inst'[j] = inst[j]
    BY <1>7, <2>1 DEF Fail, TypeInv, TypeOK
  <2>3. \A j \in Instances \ {i} : Charged(j)' = Charged(j)
    BY <1>7, <2>1 DEF Fail, SetLease, Charged, TypeInv, TypeOK, LeaseRow
  <2>4. \A j \in Instances \ {i} : SameRoom(j)
    BY <2>2, <2>3, SameRoomFacts DEF Ready
  <2>5. QED
    BY <2>1, <2>2, <2>4, ShutsRoom DEF Ready
<1>8. CASE FailFences(r) /\ ~UNCHANGED inst
  <2> DEFINE i == req[r].vm
  <2>1. i \in Instances /\ inst[i].status # "none"
    BY <1>8 DEF FailFences, TypeInv, Named
  <2>2. /\ inst'[i].status \in {"FAILED", "partial"}
        /\ \A j \in Instances \ {i} : inst'[j] = inst[j]
        /\ UNCHANGED lease
    BY <1>8, <2>1 DEF FailFences, TypeInv, TypeOK, InstanceRow
  <2>3. \A j \in Instances \ {i} : SameRoom(j)
    BY <2>2, LeasesSame, SameRoomFacts DEF Ready
  <2>4. QED
    BY <2>1, <2>2, <2>3, ShutsRoom DEF Ready
<1>9. CASE FailFences(r) /\ UNCHANGED inst
  BY <1>1, <1>9 DEF FailFences
<1>10. QED
  BY <1>1, <1>2, <1>3, <1>4, <1>5, <1>6, <1>7, <1>8, <1>9
  DEF RequestProceeds, RequestStarts, TryCandidate, ClaimRefused,
      ReleaseRefused, FailRefused, FailTerminates, Crash

(* Every step of TTL and of the stream handler is one of SlotPool.         *)
LEMMA StreamSlots ==
  ASSUME TypeInv, StreamStep
  PROVE  [Slots!SlotNext]_(Slots!slotVars)
<1> DEFINE Goal == [Slots!SlotNext]_(Slots!slotVars)
<1>1. CASE UNCHANGED << inst, lease >>
  BY <1>1, LeasesSame, ChargesSameRoom
<1>2. ASSUME NEW i \in Instances, TtlRemovesInstance(i) PROVE Goal
  BY <1>2, EraseInstanceRoom DEF TtlRemovesInstance
<1>3. ASSUME NEW i \in Instances, StreamMarksIdle(i) PROVE Goal
  BY <1>3, MarkIdleRoom DEF StreamMarksIdle
<1>4. ASSUME NEW r \in Requests, TtlRemovesLease(r) \/ StreamDropsLease(r)
      PROVE  Goal
  BY <1>4, ChargeStays, ChargesSameRoom DEF TtlRemovesLease, StreamDropsLease
<1>5. ASSUME NEW r \in Requests, StreamRecovers(r) PROVE Goal
  <2>1. CASE lease[r].status = "queued" /\ CanReturnSlot(lease[r].vm)
    BY <1>5, <2>1, LeavesRoom DEF StreamRecovers, TypeInv, Named
  <2>2. CASE ~(lease[r].status = "queued" /\ CanReturnSlot(lease[r].vm))
    BY <1>1, <1>5, <2>2 DEF StreamRecovers
  <2>3. QED
    BY <2>1, <2>2
<1>6. QED
  BY <1>1, <1>2, <1>3, <1>4, <1>5
  DEF StreamStep, StreamTerminates, StreamCrashes, StreamDropsInstance

(* Every step of the reconciliation is one of SlotPool.                    *)
LEMMA SweepSlots ==
  ASSUME TypeInv, NEW s \in Sweepers, SweepStep(s)
  PROVE  [Slots!SlotNext]_(Slots!slotVars)
<1> DEFINE Goal == [Slots!SlotNext]_(Slots!slotVars)
<1>1. CASE UNCHANGED << inst, lease >>
  BY <1>1, LeasesSame, ChargesSameRoom
<1>2. ASSUME NEW i \in Instances, SweepDeletes(s, i) PROVE Goal
  BY <1>2, EraseInstanceRoom DEF SweepDeletes
<1>3. ASSUME NEW i \in Instances, SweepMarksIdle(s, i) PROVE Goal
  BY <1>3, MarkIdleRoom DEF SweepMarksIdle
<1>4. ASSUME NEW r \in Requests, SweepRecovers(s, r) PROVE Goal
  <2>1. CASE lease[r].status = "row" /\ CanReturnSlot(lease[r].vm)
    BY <1>4, <2>1, LeavesRoom DEF SweepRecovers, TypeInv, Named
  <2>2. CASE ~(lease[r].status = "row" /\ CanReturnSlot(lease[r].vm))
    BY <1>1, <1>4, <2>2 DEF SweepRecovers
  <2>3. QED
    BY <2>1, <2>2
<1>5. ASSUME NEW r \in Requests, SweepDropsLease(s, r) PROVE Goal
  BY <1>5, EraseKeepsCharge, ChargesSameRoom DEF SweepDropsLease
<1>6. QED
  BY <1>1, <1>2, <1>3, <1>4, <1>5
  DEF SweepStep, SweepScans, SweepSkips, SweepEnds, SweepTerminates,
      SweepKillsOrphan

(* Every step is one of SlotPool, or leaves its variables alone.           *)
LEMMA NextSlots ==
  ASSUME TypeInv, SlotsAccounted, [Next]_vars
  PROVE  [Slots!SlotNext]_(Slots!slotVars)
<1>1. CASE UNCHANGED << inst, lease >>
  BY <1>1, LeasesSame, ChargesSameRoom
<1>2. QED
  BY <1>1, RequestSlots, StreamSlots, SweepSlots
  DEF Next, PlatformStops, Tick, vars

(* The registry implements the room of slots, for any number of requests,  *)
(* workers and sweeps, any capacity and timing, and whatever calls fail.   *)
THEOREM RegistryImplementsSlots == Spec => ImplementsSlots
<1>1. Init => TypeInv /\ SlotsAccounted /\ Slots!SlotInit
  <2>1. Init => TypeInv /\ SlotsAccounted
    BY InitTypeInv DEF Init, SlotsAccounted, Ready
  <2>2. Init => Slots!SlotInit
    BY DEF Init, Slots!SlotInit, Door, Inside, Ready
  <2>3. QED
    BY <2>1, <2>2
<1>2. TypeInv /\ SlotsAccounted /\ [Next]_vars => TypeInv' /\ SlotsAccounted'
  BY NextTypeInv, NextAccount
<1>3. TypeInv /\ SlotsAccounted /\ [Next]_vars
        => [Slots!SlotNext]_(Slots!slotVars)
  BY NextSlots
<1>4. QED
  BY <1>1, <1>2, <1>3, PTL DEF Spec, ImplementsSlots, Slots!SlotSpec

-----------------------------------------------------------------------------
(* What a lease is worth to the request that holds it: nobody takes it     *)
(* away before it expires, no worker is overloaded by leases that have not *)
(* expired, no slot is stranded, and the worker outlives its leases.       *)

Known(i) == inst[i].status # "none"

-----------------------------------------------------------------------------
(* What the steps of one handler do to the leases and to the rows.         *)

(* A row only loses: what is not in the table, not in service or not       *)
(* registered stays so, and a worker that stays in service keeps its       *)
(* expiries.                                                               *)
Fades(i) ==
  /\ Known(i)' <=> Known(i)
  /\ Present(i)' => Present(i)
  /\ Ready(i)' => /\ Ready(i)
                  /\ inst'[i].soft = inst[i].soft /\ inst'[i].hard = inst[i].hard

(* Request r takes a new lease on worker i: it claims it or registers it.  *)
Takes(r, i) ==
  /\ lease[r].status = "none"
  /\ lease'[r] = [status  |-> "row", vm |-> i,
                  expires |-> req'[r].now + LeaseSeconds]
  /\ req'[r].step = "hold" /\ req'[r].vm = i /\ req'[r].now \in Nat
  /\ Ready(i)' /\ (Known(i) => Ready(i))
  /\ \A j \in Instances \ {i} : Fades(j)

(* Request r is without a lease from here on.                              *)
Yields(r) ==
  /\ req'[r].step # "hold"
  /\ \/ lease'[r] = lease[r]
     \/ lease[r].status = "row" /\ lease'[r].status \in {"returned", "lost"}
  /\ \A j \in Instances : Fades(j)

(* A row that is left alone, marked idle, decremented or deleted fades.    *)
LEMMA UnchangedFades ==
  ASSUME UNCHANGED inst
  PROVE  \A j \in Instances : Fades(j)
BY DEF Fades, Known, Present, Ready

LEMMA MarkIdleFades ==
  ASSUME TypeInv, NEW i \in Instances, MarkIdle(i)
  PROVE  \A j \in Instances : Fades(j)
BY DEF MarkIdle, Fades, Known, Present, Ready, TypeInv, TypeOK, InstanceRow

LEMMA ReturnSlotFades ==
  ASSUME TypeInv, NEW i \in Instances, ReturnSlot(i)
  PROVE  \A j \in Instances : Fades(j)
BY DEF ReturnSlot, Fades, Known, Present, Ready, TypeInv, TypeOK, InstanceRow

LEMMA EraseInstanceFades ==
  ASSUME TypeInv, NEW i \in Instances, EraseInstance(i)
  PROVE  (\A j \in Instances : Fades(j)) /\ ~Present(i)'
BY DEF EraseInstance, Stored, Fades, Known, Present, Ready, TypeInv, TypeOK, InstanceRow

(* Deleting a lease row loses it, if it is there.                          *)
LEMMA EraseLeaseYields ==
  ASSUME TypeInv, NEW r \in Requests, EraseLease(r)
  PROVE  /\ \/ lease'[r] = lease[r]
            \/ /\ lease[r].status = "row" /\ lease'[r].status = "lost"
               /\ lease'[r].vm = lease[r].vm
         /\ \A q \in Requests \ {r} : lease'[q] = lease[q]
BY DEF EraseLease, SetLease, TypeInv, TypeOK, LeaseRow

(* A step of a request takes a lease or leaves it without one, and does    *)
(* not touch the leases of others.                                         *)
LEMMA RequestSummary ==
  ASSUME TypeInv, NEW r \in Requests, RequestProceeds(r) \/ RequestStarts(r)
  PROVE  /\ UNCHANGED << clock, removals, marks, sweep >>
         /\ \A q \in Requests \ {r} : lease'[q] = lease[q] /\ req'[q] = req[q]
         /\ (\E i \in Instances : Takes(r, i)) \/ Yields(r)
<1>1. UNCHANGED << clock, removals, marks, sweep >>
  BY DEF RequestProceeds, RequestStarts, TryCandidate, Register, ClaimCommits,
         ClaimRefused, Release, ReleaseMarksIdle, ReleaseRefused,
         ReleaseDropsLease, Fail, FailRefused, FailFences, FailDropsLease,
         FailTerminates, Crash
<1>2. ASSUME NEW q \in Requests \ {r}
      PROVE  lease'[q] = lease[q] /\ req'[q] = req[q]
  BY DEF RequestProceeds, RequestStarts, TryCandidate, Register, ClaimCommits,
         ClaimRefused, Release, ReleaseMarksIdle, ReleaseRefused,
         ReleaseDropsLease, Fail, FailRefused, FailFences, FailDropsLease,
         FailTerminates, Crash, SetLease, EraseLease, Goto, Finish, TypeInv, TypeOK
<1>3. ASSUME NEW i \in Instances, Register(r, i) PROVE Takes(r, i)
  <2>1. PICK readyAt \in BootTime .. MaxBirth :
          LET hard == readyAt - BootTime + HardTtl
          IN  /\ inst' = [inst EXCEPT ![i] =
                            [status |-> "BUSY", in_flight |-> 1, hard |-> hard,
                             soft |-> MinOf(readyAt + SoftTtl, hard)]]
              /\ lease' = [lease EXCEPT ![r] =
                             [status  |-> "row", vm |-> i,
                              expires |-> readyAt + LeaseSeconds]]
              /\ req' = [req EXCEPT ![r] = [step |-> "hold", vm |-> i,
                                            start |-> 0, now |-> readyAt]]
    BY <1>3 DEF Register
  <2>2. readyAt \in Nat
    BY <2>1, TimeAssumption
  <2>3. Ready(i)' /\ \A j \in Instances \ {i} : inst'[j] = inst[j]
    BY <2>1 DEF TypeInv, TypeOK, Ready
  <2>4. \A j \in Instances \ {i} : Fades(j)
    BY <2>3 DEF Fades, Known, Present, Ready
  <2>5. /\ lease'[r] = [status |-> "row", vm |-> i, expires |-> readyAt + LeaseSeconds]
        /\ req'[r] = [step |-> "hold", vm |-> i, start |-> 0, now |-> readyAt]
    BY <2>1 DEF TypeInv, TypeOK
  <2> QED
    BY <1>3, <2>2, <2>3, <2>4, <2>5 DEF Register, Takes, Known
<1>4. ASSUME ClaimCommits(r) PROVE \E i \in Instances : Takes(r, i)
  <2>1. PICK i \in Instances : i = req[r].vm
    BY <1>4 DEF ClaimCommits, TypeInv, Named
  <2>2. /\ req[r].now \in Nat
        /\ lease[r].status = "none" /\ Ready(i)
        /\ lease'[r] = [status |-> "row", vm |-> i, expires |-> req[r].now + LeaseSeconds]
        /\ req'[r] = [step |-> "hold", vm |-> i, start |-> 0, now |-> req[r].now]
    BY <1>4, <2>1 DEF ClaimCommits, ClaimCondition, TypeInv, TypeOK, Request
  <2>3. Ready(i)' /\ \A j \in Instances \ {i} : inst'[j] = inst[j]
    BY <1>4, <2>1 DEF ClaimCommits, TypeInv, TypeOK, Ready
  <2>4. \A j \in Instances \ {i} : Fades(j)
    BY <2>3 DEF Fades, Known, Present, Ready
  <2> QED
    BY <2>2, <2>3, <2>4 DEF Takes
<1>5. ASSUME ~ClaimCommits(r), \A i \in Instances : ~Register(r, i)
      PROVE  Yields(r)
  <2>1. req'[r].step # "hold"
    BY <1>5
    DEF RequestProceeds, RequestStarts, TryCandidate, ClaimRefused, Release,
        ReleaseMarksIdle, ReleaseRefused, ReleaseDropsLease, Fail, FailRefused,
        FailFences, FailDropsLease, FailTerminates, Crash, Goto, Finish,
        TypeInv, TypeOK
  <2>2. \/ lease'[r] = lease[r]
        \/ lease[r].status = "row" /\ lease'[r].status \in {"returned", "lost"}
    <3>1. CASE Release(r) \/ Fail(r)
      BY <3>1 DEF Release, ReleaseCondition, Fail, FailCondition, SetLease,
                  TypeInv, TypeOK, LeaseRow
    <3>2. CASE ReleaseDropsLease(r) \/ FailDropsLease(r)
      BY <3>2, EraseLeaseYields DEF ReleaseDropsLease, FailDropsLease
    <3> QED
      BY <1>5, <3>1, <3>2
      DEF RequestProceeds, RequestStarts, TryCandidate, ClaimRefused,
          ReleaseMarksIdle, ReleaseRefused, FailRefused, FailFences,
          FailTerminates, Crash
  <2>3. \A j \in Instances : Fades(j)
    <3>1. CASE UNCHANGED inst
      BY <3>1, UnchangedFades
    <3>2. CASE Release(r)
      BY <3>2, ReturnSlotFades DEF Release, TypeInv, Named
    <3>3. CASE ReleaseMarksIdle(r)
      BY <3>3, MarkIdleFades DEF ReleaseMarksIdle, TypeInv, Named
    <3>4. CASE Fail(r)
      BY <3>4 DEF Fail, FailCondition, CanReturnSlot, Fades, Known, Present,
                  Ready, TypeInv, TypeOK, Named, InstanceRow
    <3>5. CASE FailFences(r)
      BY <3>5 DEF FailFences, Fades, Known, Present, Ready, TypeInv, TypeOK,
                  Named, InstanceRow
    <3> QED
      BY <1>5, <3>1, <3>2, <3>3, <3>4, <3>5
      DEF RequestProceeds, RequestStarts, TryCandidate, ClaimRefused,
          ReleaseRefused, ReleaseDropsLease, FailRefused, FailDropsLease,
          FailTerminates, Crash
  <2> QED
    BY <2>1, <2>2, <2>3 DEF Yields
<1> QED
  BY <1>1, <1>2, <1>3, <1>4, <1>5

(* TTL removes a lease row only after its expiry; the stream handler deals *)
(* with its removal, and stops workers whose row is gone.                  *)
LEMMA StreamSummary ==
  ASSUME TypeInv, StreamStep
  PROVE  /\ UNCHANGED << clock, req, sweep >>
         /\ \A j \in Instances : Fades(j)
         /\ \A i \in removals' \ removals : Known(i) /\ ~Present(i)'
         /\ \A i \in running \ running' : i \in removals
         /\ running' \subseteq running
         /\ \A q \in Requests :
              \/ lease'[q] = lease[q]
              \/ /\ lease[q].status \in {"row", "queued"}
                 /\ lease'[q].status \in {"queued", "recovered", "lost"}
                 /\ lease[q].status = "row" => lease[q].expires + RowGrace < clock
                 /\ lease'[q].status = "lost" => StreamDropsLease(q)
<1> DEFINE Shape == /\ UNCHANGED << clock, req, sweep >>
                    /\ \A j \in Instances : Fades(j)
                    /\ \A i \in removals' \ removals : Known(i) /\ ~Present(i)'
                    /\ \A i \in running \ running' : i \in removals
                    /\ running' \subseteq running
           Loses == \A q \in Requests :
              \/ lease'[q] = lease[q]
              \/ /\ lease[q].status \in {"row", "queued"}
                 /\ lease'[q].status \in {"queued", "recovered", "lost"}
                 /\ lease[q].status = "row" => lease[q].expires + RowGrace < clock
                 /\ lease'[q].status = "lost" => StreamDropsLease(q)
<1>1. ASSUME NEW i \in Instances, TtlRemovesInstance(i) PROVE Shape /\ Loses
  <2>1. Known(i)
    BY <1>1 DEF TtlRemovesInstance, Stored, Present, Ready, Known
  <2>2. removals' \subseteq removals \cup {i}
    BY <1>1 DEF TtlRemovesInstance
  <2> QED
    BY <1>1, <2>1, <2>2, EraseInstanceFades DEF TtlRemovesInstance
<1>2. ASSUME NEW i \in Instances,
             StreamTerminates(i) \/ StreamCrashes(i) \/ StreamDropsInstance(i)
      PROVE  Shape /\ Loses
  BY <1>2, UnchangedFades DEF StreamTerminates, StreamCrashes, StreamDropsInstance
<1>3. ASSUME NEW i \in Instances, StreamMarksIdle(i) PROVE Shape /\ Loses
  BY <1>3, MarkIdleFades DEF StreamMarksIdle
<1>4. ASSUME NEW r \in Requests, TtlRemovesLease(r) \/ StreamDropsLease(r)
      PROVE  Shape /\ Loses
  <2>1. Shape
    BY <1>4, UnchangedFades DEF TtlRemovesLease, StreamDropsLease
  <2>2. Loses
    BY <1>4 DEF TtlRemovesLease, StreamDropsLease, SetLease, TypeInv, TypeOK, LeaseRow
  <2> QED
    BY <2>1, <2>2
<1>5. ASSUME NEW r \in Requests, StreamRecovers(r) PROVE Shape /\ Loses
  <2>1. Shape
    BY <1>5, UnchangedFades, ReturnSlotFades DEF StreamRecovers, TypeInv, Named
  <2>2. Loses
    BY <1>5 DEF StreamRecovers, SetLease, TypeInv, TypeOK, LeaseRow
  <2> QED
    BY <2>1, <2>2
<1> QED
  BY <1>1, <1>2, <1>3, <1>4, <1>5 DEF StreamStep

(* A reconciliation touches only what its scan selected, and the selection *)
(* grows only by a scan.                                                   *)
LEMMA SweepSummary ==
  ASSUME TypeInv, NEW s \in Sweepers, SweepStep(s)
  PROVE  /\ UNCHANGED << clock, req, removals >>
         /\ \A j \in Instances : Fades(j)
         /\ \A i \in running \ running' : i \in sweep[s].doomed \cup sweep[s].orphans
         /\ running' \subseteq running
         /\ \A q \in Requests :
              \/ lease'[q] = lease[q]
              \/ /\ lease[q].status = "row"
                 /\ \/ lease'[q].status = "returned" /\ q \in sweep[s].expired
                    \/ /\ lease'[q].status = "lost" /\ q \in sweep[s].dropping
                       /\ lease'[q].vm = lease[q].vm
         /\ \A t \in Sweepers \ {s} : sweep'[t] = sweep[t]
         /\ sweep'[s].doomed \subseteq sweep[s].doomed \cup Doomed(clock)
         /\ sweep'[s].orphans \subseteq sweep[s].orphans \cup Orphans(clock)
         /\ sweep'[s].expired \subseteq sweep[s].expired \cup ExpiredLeases(clock)
         /\ \A q \in sweep'[s].dropping \ sweep[s].dropping :
              /\ q \in sweep[s].expired /\ UNCHANGED << lease, inst >>
              /\ ~(lease[q].status = "row" /\ CanReturnSlot(lease[q].vm))
<1>1. /\ UNCHANGED << clock, req, removals >>
      /\ \A t \in Sweepers \ {s} : sweep'[t] = sweep[t]
  BY DEF SweepStep, SweepScans, SweepSkips, SweepEnds, SweepTerminates,
         SweepDeletes, SweepMarksIdle, SweepKillsOrphan, SweepRecovers,
         SweepDropsLease, TypeInv, TypeOK
<1>2. /\ \A i \in running \ running' : i \in sweep[s].doomed \cup sweep[s].orphans
      /\ running' \subseteq running
  BY DEF SweepStep, SweepScans, SweepSkips, SweepEnds, SweepTerminates,
         SweepDeletes, SweepMarksIdle, SweepKillsOrphan, SweepRecovers,
         SweepDropsLease
<1>3. \A j \in Instances : Fades(j)
  <2>1. CASE UNCHANGED inst
    BY <2>1, UnchangedFades
  <2>2. ASSUME NEW i \in Instances, SweepDeletes(s, i) \/ SweepMarksIdle(s, i)
        PROVE  \A j \in Instances : Fades(j)
    BY <2>2, EraseInstanceFades, MarkIdleFades DEF SweepDeletes, SweepMarksIdle
  <2>3. ASSUME NEW r \in Requests, SweepRecovers(s, r), ~UNCHANGED inst
        PROVE  \A j \in Instances : Fades(j)
    BY <2>3, ReturnSlotFades DEF SweepRecovers, TypeInv, Named
  <2> QED
    BY <2>1, <2>2, <2>3
    DEF SweepStep, SweepScans, SweepSkips, SweepEnds, SweepTerminates,
        SweepKillsOrphan, SweepDropsLease
<1>4. ASSUME NEW q \in Requests
      PROVE  \/ lease'[q] = lease[q]
             \/ /\ lease[q].status = "row"
                /\ \/ lease'[q].status = "returned" /\ q \in sweep[s].expired
                   \/ /\ lease'[q].status = "lost" /\ q \in sweep[s].dropping
                      /\ lease'[q].vm = lease[q].vm
  <2>1. ASSUME NEW r \in Requests, SweepDropsLease(s, r), q = r \/ q # r
        PROVE  \/ lease'[q] = lease[q]
               \/ /\ lease[q].status = "row"
                  /\ lease'[q].status = "lost" /\ q \in sweep[s].dropping
                  /\ lease'[q].vm = lease[q].vm
    BY <2>1, EraseLeaseYields DEF SweepDropsLease
  <2>2. ASSUME NEW r \in Requests, SweepRecovers(s, r)
        PROVE  \/ lease'[q] = lease[q]
               \/ /\ lease[q].status = "row"
                  /\ lease'[q].status = "returned" /\ q \in sweep[s].expired
    BY <2>2 DEF SweepRecovers, SetLease, TypeInv, TypeOK, LeaseRow
  <2> QED
    BY <2>1, <2>2
    DEF SweepStep, SweepScans, SweepSkips, SweepEnds, SweepTerminates,
        SweepDeletes, SweepMarksIdle, SweepKillsOrphan
<1>5. /\ DOMAIN sweep[s] = {"on", "doomed", "expired", "orphans", "deleting",
                            "marking", "dropping"}
      /\ s \in DOMAIN sweep
  BY DEF TypeInv, TypeOK, Sweep
<1> DEFINE Selects == /\ sweep'[s].doomed \subseteq sweep[s].doomed \cup Doomed(clock)
                      /\ sweep'[s].orphans \subseteq sweep[s].orphans \cup Orphans(clock)
                      /\ sweep'[s].expired \subseteq sweep[s].expired \cup ExpiredLeases(clock)
           Drops == \A q \in sweep'[s].dropping \ sweep[s].dropping :
              /\ q \in sweep[s].expired /\ UNCHANGED << lease, inst >>
              /\ ~(lease[q].status = "row" /\ CanReturnSlot(lease[q].vm))
<1>6. ASSUME SweepScans(s)
      PROVE  Selects /\ sweep'[s].dropping = {}
  <2>1. /\ sweep'[s].doomed = Doomed(clock) /\ sweep'[s].orphans = Orphans(clock)
        /\ sweep'[s].expired = ExpiredLeases(clock) /\ sweep'[s].dropping = {}
    BY <1>5, <1>6 DEF SweepScans, SweepOff
  <2> QED
    BY <2>1
<1>7. ASSUME SweepEnds(s)
       PROVE  Selects /\ sweep'[s].dropping = {}
  BY <1>5, <1>7 DEF SweepEnds, SweepOff
<1>8. ASSUME SweepSkips(s)
      PROVE  Selects /\ sweep'[s].dropping \subseteq sweep[s].dropping
  BY <1>5, <1>8 DEF SweepSkips
<1>9. ASSUME NEW i \in Instances,
             \/ SweepTerminates(s, i) \/ SweepDeletes(s, i)
             \/ SweepMarksIdle(s, i) \/ SweepKillsOrphan(s, i)
      PROVE  Selects /\ sweep'[s].dropping \subseteq sweep[s].dropping
  BY <1>5, <1>9 DEF SweepTerminates, SweepDeletes, SweepMarksIdle, SweepKillsOrphan
<1>10. ASSUME NEW r \in Requests, SweepRecovers(s, r) PROVE Selects /\ Drops
  BY <1>5, <1>10 DEF SweepRecovers
<1>11. ASSUME NEW r \in Requests, SweepDropsLease(s, r)
       PROVE  Selects /\ sweep'[s].dropping \subseteq sweep[s].dropping
  BY <1>5, <1>11 DEF SweepDropsLease
<1>12. Selects /\ Drops
  BY <1>6, <1>8, <1>9, <1>10, <1>11, <1>7 DEF SweepStep
<1> QED
  BY <1>1, <1>2, <1>3, <1>4, <1>12

(* Outside the three handlers only the platform stops workers and time     *)
(* goes on.                                                                *)
LEMMA OtherSummary ==
  ASSUME TypeInv, [Next]_vars,
         ~\E r \in Requests : RequestStarts(r) \/ RequestProceeds(r),
         ~StreamStep, ~\E s \in Sweepers : SweepStep(s)
  PROVE  /\ UNCHANGED << inst, lease, req, removals, sweep >>
         /\ \A j \in Instances : Fades(j)
         /\ clock' \in Nat /\ clock <= clock' /\ running' \subseteq running
         /\ \A i \in running \ running' : UNCHANGED clock /\ inst[i].hard <= clock
         /\ \/ UNCHANGED clock
            \/ \A r \in Requests :
                 req[r].step = "claim" => clock' <= req[r].start + MaxLag
<1>1. clock \in Nat /\ \A r \in Requests : req[r].start \in Nat
  BY DEF TypeInv, TypeOK, Request
<1>2. UNCHANGED << inst, lease, req, removals, sweep >> /\ running' \subseteq running
  BY DEF Next, PlatformStops, Tick, vars
<1>3. \A i \in running \ running' : UNCHANGED clock /\ inst[i].hard <= clock
  BY DEF Next, PlatformStops, Tick, vars
<1>4. /\ clock' \in Nat /\ clock <= clock'
      /\ \/ UNCHANGED clock
         \/ \A r \in Requests :
              req[r].step = "claim" => clock' <= req[r].start + MaxLag
  BY <1>1, TimeAssumption DEF Next, PlatformStops, Tick, vars
<1> QED
  BY <1>2, <1>3, <1>4, UnchangedFades

-----------------------------------------------------------------------------
(* The lease of a request at work.                                         *)

(* What a sweep selected to repair are leases that had expired: they do    *)
(* not come back to life.                                                  *)
Chosen ==
  \A s \in Sweepers : \A r \in sweep[s].expired \cup sweep[s].dropping :
    /\ lease[r].status # "none"
    /\ lease[r].status = "row" => lease[r].expires <= clock

HoldInv == LeaseHeldUntilExpiry /\ Chosen

(* Every step keeps the lease of a request at work and what was chosen.    *)
LEMMA NextHoldInv ==
  ASSUME TypeInv, TypeInv', HoldInv, [Next]_vars
  PROVE  HoldInv'
<1>1. /\ \A q \in Requests : lease[q] \in LeaseRow /\ req[q] \in Request
      /\ \A s \in Sweepers : sweep[s] \in Sweep
      /\ clock \in Nat /\ LeaseSeconds \in Nat /\ RowGrace \in Nat
  BY TimeAssumption DEF TypeInv, TypeOK
<1>2. ASSUME NEW q \in Requests, Working(q), UNCHANGED clock,
             lease[q].status = "row" => lease[q].expires + RowGrace < clock
                                          \/ lease[q].expires <= clock
      PROVE  FALSE
  <2>1. lease[q] = [status  |-> "row", vm |-> req[q].vm,
                    expires |-> req[q].now + LeaseSeconds]
    BY <1>2, Zenon DEF HoldInv, LeaseHeldUntilExpiry
  <2>2. clock < req[q].now + LeaseSeconds /\ req[q].now \in Nat
    BY <1>1, <1>2 DEF Working, Request
  <2> QED
    BY <1>1, <1>2, <2>1, <2>2
<1>3. ASSUME NEW r \in Requests, RequestStarts(r) \/ RequestProceeds(r)
      PROVE  HoldInv'
  <2>1. LeaseHeldUntilExpiry'
    <3> SUFFICES ASSUME NEW q \in Requests, Working(q)'
                 PROVE  lease'[q] = [status  |-> "row", vm |-> req'[q].vm,
                                     expires |-> req'[q].now + LeaseSeconds]
      BY DEF LeaseHeldUntilExpiry
    <3>1. CASE q = r
      BY <1>3, <3>1, RequestSummary DEF Takes, Yields, Working
    <3>2. CASE q # r
      BY <1>3, <3>2, RequestSummary DEF HoldInv, LeaseHeldUntilExpiry, Working
    <3> QED
      BY <3>1, <3>2
  <2>2. Chosen'
    <3> SUFFICES ASSUME NEW s \in Sweepers,
                        NEW q \in sweep[s].expired \cup sweep[s].dropping
                 PROVE  /\ lease'[q].status # "none"
                        /\ lease'[q].status = "row" => lease'[q].expires <= clock
      BY <1>3, RequestSummary DEF Chosen
    <3>1. /\ q \in Requests /\ lease[q].status # "none"
          /\ lease[q].status = "row" => lease[q].expires <= clock
      BY <1>1 DEF HoldInv, Chosen, Sweep
    <3> QED
      BY <1>3, <3>1, RequestSummary DEF Takes, Yields
  <2> QED
    BY <2>1, <2>2 DEF HoldInv
<1>4. ASSUME StreamStep PROVE HoldInv'
  <2>1. UNCHANGED << clock, req, sweep >>
    BY <1>4, StreamSummary
  <2>2. ASSUME NEW q \in Requests, Working(q)
        PROVE  lease'[q] = lease[q]
    BY <1>2, <1>4, <2>1, <2>2, StreamSummary
       DEF HoldInv, LeaseHeldUntilExpiry
  <2>3. LeaseHeldUntilExpiry'
    BY <2>1, <2>2 DEF HoldInv, LeaseHeldUntilExpiry, Working
  <2>4. \A q \in Requests : lease'[q] = lease[q]
                            \/ lease'[q].status \notin {"none", "row"}
    BY <1>4, StreamSummary
  <2>5. Chosen'
    BY <1>1, <2>1, <2>4 DEF HoldInv, Chosen, Sweep
  <2> QED
    BY <2>3, <2>5 DEF HoldInv
<1>5. ASSUME NEW s \in Sweepers, SweepStep(s) PROVE HoldInv'
  <2>1. UNCHANGED << clock, req >>
    BY <1>5, SweepSummary
  <2>2. ASSUME NEW q \in Requests, Working(q)
        PROVE  lease'[q] = lease[q]
    BY <1>2, <1>5, <2>1, <2>2, SweepSummary DEF HoldInv, Chosen
  <2>3. LeaseHeldUntilExpiry'
    BY <2>1, <2>2 DEF HoldInv, LeaseHeldUntilExpiry, Working
  <2>4. \A q \in Requests : lease'[q] = lease[q]
                            \/ lease'[q].status \notin {"none", "row"}
    BY <1>5, SweepSummary
  <2>5. ASSUME NEW t \in Sweepers,
               NEW q \in sweep'[t].expired \cup sweep'[t].dropping
        PROVE  /\ q \in Requests /\ lease[q].status # "none"
               /\ lease[q].status = "row" => lease[q].expires <= clock
    <3>1. CASE q \in sweep[t].expired \cup sweep[t].dropping
      BY <1>1, <3>1 DEF HoldInv, Chosen, Sweep
    <3>2. CASE q \notin sweep[t].expired \cup sweep[t].dropping
      <4>1. t = s /\ q \in ExpiredLeases(clock) \cup sweep[s].expired
        BY <1>5, <2>5, <3>2, SweepSummary
      <4> QED
        BY <1>1, <3>2, <4>1 DEF ExpiredLeases
    <3> QED
      BY <3>1, <3>2
  <2>6. Chosen'
    BY <2>1, <2>4, <2>5 DEF Chosen
  <2> QED
    BY <2>3, <2>6 DEF HoldInv
<1>6. CASE /\ ~\E r \in Requests : RequestStarts(r) \/ RequestProceeds(r)
           /\ ~StreamStep /\ ~\E s \in Sweepers : SweepStep(s)
  <2>1. /\ UNCHANGED << lease, req, sweep >>
        /\ clock' \in Nat /\ clock <= clock'
    BY <1>6, OtherSummary
  <2>2. \A q \in Requests : Working(q)' => Working(q)
    BY <1>1, <2>1 DEF Working, Request
  <2>3. LeaseHeldUntilExpiry'
    BY <2>1, <2>2 DEF HoldInv, LeaseHeldUntilExpiry
  <2>4. Chosen'
    <3> SUFFICES ASSUME NEW s \in Sweepers,
                        NEW q \in sweep[s].expired \cup sweep[s].dropping
                 PROVE  /\ lease[q].status # "none"
                        /\ lease[q].status = "row" => lease[q].expires <= clock'
      BY <2>1 DEF Chosen
    <3>1. /\ lease[q].expires \in Nat /\ lease[q].status # "none"
          /\ lease[q].status = "row" => lease[q].expires <= clock
      BY <1>1 DEF HoldInv, Chosen, Sweep, LeaseRow
    <3> QED
      BY <1>1, <2>1, <3>1
  <2> QED
    BY <2>3, <2>4 DEF HoldInv
<1> QED
  BY <1>3, <1>4, <1>5, <1>6

(* Nothing is chosen and nobody works at the start.                        *)
LEMMA InitHoldInv == Init => HoldInv
BY DEF Init, HoldInv, LeaseHeldUntilExpiry, Working, Chosen, SweepOff

(* While a request works under an unexpired lease, its row stays in the    *)
(* table as the request wrote it: TTL, redelivered stream records, any     *)
(* number of concurrent sweeps and the other requests' releases and        *)
(* failures leave it alone.                                                *)
THEOREM LeasesAreHeld == Spec => []LeaseHeldUntilExpiry
<1>1. Init => TypeInv /\ HoldInv
  BY InitTypeInv, InitHoldInv
<1>2. TypeInv /\ HoldInv /\ [Next]_vars => TypeInv' /\ HoldInv'
  BY NextTypeInv, NextHoldInv
<1>3. HoldInv => LeaseHeldUntilExpiry
  BY DEF HoldInv
<1> QED
  BY <1>1, <1>2, <1>3, PTL DEF Spec

-----------------------------------------------------------------------------
(* The load of a worker.                                                   *)

(* A worker in service has a slot for each of its requests at work; one    *)
(* that is out of service gets no new request.                             *)
LEMMA NextNotOversubscribed ==
  ASSUME TypeInv, WorkerNotOversubscribed, [Next]_vars,
         TypeInv', SlotsAccounted', HoldInv'
  PROVE  WorkerNotOversubscribed'
<1> DEFINE Load(i) == {r \in Requests : Working(r) /\ req[r].vm = i}
<1> SUFFICES ASSUME NEW i \in Instances
             PROVE  Cardinality(Load(i)') <= Capacity
  BY DEF WorkerNotOversubscribed
<1>1. CASE Ready(i)'
  <2>1. Load(i)' \subseteq Charged(i)'
    <3> SUFFICES ASSUME NEW q \in Requests, Working(q)', req'[q].vm = i
                 PROVE  lease'[q].vm = i /\ lease'[q].status = "row"
      BY DEF Charged
    <3>1. lease'[q] = [status  |-> "row", vm |-> req'[q].vm,
                       expires |-> req'[q].now + LeaseSeconds]
      BY DEF HoldInv, LeaseHeldUntilExpiry
    <3> QED
      BY <3>1
  <2>2. Charged(i)' \in SUBSET Requests
    BY DEF Charged
  <2>3. IsFiniteSet(Charged(i)')
    BY <2>2, RequestsAssumption, FS_Subset
  <2>4. Cardinality(Load(i)') <= Cardinality(Charged(i)')
    BY <2>1, <2>3, FS_Subset
  <2>5. Cardinality(Charged(i)') <= Capacity
    BY <1>1 DEF SlotsAccounted
  <2>6. IsFiniteSet(Load(i)')
    BY <2>1, <2>3, FS_Subset
  <2>7. /\ Cardinality(Load(i)') \in Nat /\ Cardinality(Charged(i)') \in Nat
        /\ Capacity \in Nat
    BY <2>3, <2>6, FS_CardinalityType, CapacityAssumption
  <2> QED
    BY <2>4, <2>5, <2>7
<1>2. CASE ~Ready(i)'
  <2>1. ASSUME NEW q \in Requests, Working(q)', req'[q].vm = i
        PROVE  Working(q) /\ req[q].vm = i
    <3>1. ASSUME NEW r \in Requests, RequestStarts(r) \/ RequestProceeds(r)
          PROVE  UNCHANGED clock /\ req'[q] = req[q]
      BY <1>2, <2>1, <3>1, RequestSummary DEF Takes, Yields, Working
    <3>2. /\ clock \in Nat /\ clock' \in Nat /\ LeaseSeconds \in Nat
          /\ req[q].now \in Nat
      BY TimeAssumption DEF TypeInv, TypeOK, Request
    <3>3. req'[q] = req[q] /\ clock <= clock'
      BY <3>1, <3>2, StreamSummary, SweepSummary, OtherSummary
    <3> QED
      BY <2>1, <3>2, <3>3 DEF Working
  <2>2. Load(i)' \subseteq Load(i)
    BY <2>1
  <2>3. Load(i) \in SUBSET Requests
    OBVIOUS
  <2>4. IsFiniteSet(Load(i)) /\ IsFiniteSet(Load(i)')
    BY <2>2, <2>3, RequestsAssumption, FS_Subset
  <2>5. Cardinality(Load(i)') <= Cardinality(Load(i))
    BY <2>2, <2>4, FS_Subset
  <2>6. /\ Cardinality(Load(i)') \in Nat /\ Cardinality(Load(i)) \in Nat
        /\ Capacity \in Nat
    BY <2>4, FS_CardinalityType, CapacityAssumption
  <2>7. Cardinality(Load(i)) <= Capacity
    BY DEF WorkerNotOversubscribed
  <2> QED
    BY <2>5, <2>6, <2>7
<1> QED
  BY <1>1, <1>2

(* However its row was fenced, deleted or recreated, a worker serves at    *)
(* most Capacity requests whose leases have not expired, for any number of *)
(* requests, workers and sweeps.                                           *)
THEOREM WorkersAreNotOversubscribed == Spec => []WorkerNotOversubscribed
<1> DEFINE Inv == TypeInv /\ SlotsAccounted /\ HoldInv /\ WorkerNotOversubscribed
<1>1. Init => Inv
  <2> SUFFICES ASSUME Init PROVE Inv
    OBVIOUS
  <2>1. TypeInv /\ HoldInv /\ SlotsAccounted
    BY InitTypeInv, InitHoldInv DEF Init, SlotsAccounted, Ready
  <2>2. ASSUME NEW i \in Instances
        PROVE  {r \in Requests : Working(r) /\ req[r].vm = i} = {}
    BY DEF Init, Working
  <2>3. WorkerNotOversubscribed
    BY <2>2, FS_EmptySet, CapacityAssumption DEF WorkerNotOversubscribed
  <2> QED
    BY <2>1, <2>3
<1>2. Inv /\ [Next]_vars => Inv'
  BY NextTypeInv, NextAccount, NextHoldInv, NextNotOversubscribed
<1>3. Inv => WorkerNotOversubscribed
  OBVIOUS
<1> QED
  BY <1>1, <1>2, <1>3, PTL DEF Spec

-----------------------------------------------------------------------------
(* No slot is stranded.                                                    *)

(* A lease that may be deleted without a decrement: it is not in the table *)
(* any more, or its worker is out of service.                              *)
Dead(r) ==
  /\ lease[r].status # "none"
  /\ lease[r].status = "row" => ~Ready(lease[r].vm)

(* The unconditional deletes of release() and of the sweep are only        *)
(* reached for such leases.                                                *)
Stranded ==
  /\ \A r \in Requests : req[r].step = "dropLease" => Dead(r)
  /\ \A s \in Sweepers : \A r \in sweep[s].dropping : Dead(r)

(* A worker in service that is named by a lease has a slot to return.      *)
LEMMA Occupied ==
  ASSUME TypeInv, SlotsAccounted, NEW r \in Requests,
         lease[r].status = "row", Ready(lease[r].vm)
  PROVE  lease[r].vm \in Instances /\ inst[lease[r].vm].in_flight > 0
<1> DEFINE i == lease[r].vm
<1>1. i \in Instances /\ inst[i].in_flight \in Nat
  BY DEF TypeInv, TypeOK, Named, InstanceRow
<1>2. r \in Charged(i) /\ IsFiniteSet(Charged(i))
  BY <1>1, ChargedFinite DEF Charged
<1>3. Cardinality(Charged(i)) # 0
  BY <1>2, FS_EmptySet
<1> QED
  BY <1>1, <1>3 DEF SlotsAccounted

(* A dead lease stays dead: no worker comes back into service.             *)
LEMMA DeadStays ==
  ASSUME TypeInv, TypeInv', NEW r \in Requests, Dead(r), [Next]_vars
  PROVE  Dead(r)'
<1>1. lease[r].vm \in Instances /\ Known(lease[r].vm)
  BY DEF Dead, TypeInv, Named, Known
<1>2. lease'[r] = lease[r] \/ lease'[r].status \notin {"none", "row"}
  BY RequestSummary, StreamSummary, SweepSummary, OtherSummary
     DEF Takes, Yields, Dead
<1>3. Ready(lease[r].vm) \/ inst'[lease[r].vm].status \notin {"AVAILABLE", "BUSY"}
  BY <1>1, RequestSummary, StreamSummary, SweepSummary, OtherSummary
     DEF Takes, Yields, Fades, Ready
<1> QED
  BY <1>2, <1>3 DEF Dead, Ready

(* Every step keeps it so, and loses no slot of a worker in service other  *)
(* than by dropping a stream record or in fail().                          *)
LEMMA NextStranded ==
  ASSUME TypeInv, TypeInv', SlotsAccounted, Stranded, Chosen, [Next]_vars
  PROVE  /\ Stranded'
         /\ \A r \in Requests :
              /\ lease[r].status # "lost" /\ lease'[r].status = "lost"
              /\ Ready(lease[r].vm)'
              => StreamDropsLease(r) \/ FailDropsLease(r)
<1>1. ASSUME NEW r \in Requests, req'[r].step = "dropLease" PROVE Dead(r)
  <2>1. CASE req[r].step = "dropLease"
    BY <2>1 DEF Stranded
  <2>2. CASE ReleaseRefused(r)
    <3>1. lease[r].status # "none" /\ lease[r].vm = req[r].vm
      BY <2>2 DEF ReleaseRefused, TypeInv, Named
    <3> QED
      BY <2>2, <3>1, Occupied DEF ReleaseRefused, ReleaseCondition, Dead
  <2>3. CASE req[r].step # "dropLease" /\ ~ReleaseRefused(r)
    <3>1. ASSUME RequestStarts(r) \/ RequestProceeds(r) PROVE FALSE
      BY <1>1, <2>3, <3>1
      DEF RequestProceeds, RequestStarts, TryCandidate, Register, ClaimCommits,
          ClaimRefused, Release, ReleaseMarksIdle, ReleaseDropsLease, Fail,
          FailRefused, FailFences, FailDropsLease, FailTerminates, Crash, Goto,
          Finish, TypeInv, TypeOK
    <3>2. req'[r] = req[r]
      BY <3>1, RequestSummary, StreamSummary, SweepSummary, OtherSummary
    <3> QED
      BY <1>1, <2>3, <3>2
  <2> QED
    BY <2>1, <2>2, <2>3
<1>2. ASSUME NEW s \in Sweepers, NEW r \in sweep'[s].dropping
      PROVE  r \in Requests /\ Dead(r)
  <2>1. r \in Requests
    BY DEF TypeInv, TypeOK, Sweep
  <2>2. CASE r \in sweep[s].dropping
    BY <2>1, <2>2 DEF Stranded
  <2>3. CASE r \notin sweep[s].dropping
    <3>1. /\ r \in sweep[s].expired
          /\ ~(lease[r].status = "row" /\ CanReturnSlot(lease[r].vm))
      BY <2>3, RequestSummary, StreamSummary, SweepSummary, OtherSummary
    <3> QED
      BY <2>1, <3>1, Occupied DEF Chosen, CanReturnSlot, Present, Dead
  <2> QED
    BY <2>2, <2>3
<1>3. Stranded'
  BY <1>1, <1>2, DeadStays DEF Stranded
<1>4. ASSUME NEW r \in Requests,
             lease[r].status # "lost", lease'[r].status = "lost",
             Ready(lease[r].vm)'
      PROVE  StreamDropsLease(r) \/ FailDropsLease(r)
  <2>1. CASE RequestStarts(r) \/ RequestProceeds(r)
    <3>1. lease[r].status = "row"
      <4>1. ASSUME NEW i \in Instances, Takes(r, i) PROVE FALSE
        BY <1>4, <4>1 DEF Takes
      <4>2. Yields(r)
        BY <2>1, <4>1, RequestSummary
      <4> QED
        BY <1>4, <4>2 DEF Yields
    <3>2. CASE ReleaseDropsLease(r)
      <4>1. lease'[r].vm = lease[r].vm
        BY <1>4, <3>2, EraseLeaseYields DEF ReleaseDropsLease
      <4>2. ~Ready(lease[r].vm) /\ UNCHANGED inst
        BY <3>1, <3>2 DEF ReleaseDropsLease, Stranded, Dead
      <4> QED
        BY <1>4, <4>1, <4>2 DEF Ready
    <3> QED
      BY <1>4, <2>1, <3>2
      DEF RequestProceeds, RequestStarts, TryCandidate, Register, ClaimCommits,
          ClaimRefused, Release, ReleaseMarksIdle, ReleaseRefused, Fail,
          FailRefused, FailFences, FailTerminates, Crash, SetLease, TypeInv,
          TypeOK, LeaseRow
  <2>2. ASSUME NEW s \in Sweepers, SweepStep(s) PROVE FALSE
    <3>1. /\ lease[r].status = "row" /\ r \in sweep[s].dropping
          /\ lease'[r].vm = lease[r].vm
      BY <1>4, <2>2, SweepSummary
    <3>2. Ready(lease[r].vm)
      <4>1. lease[r].vm \in Instances
        BY <3>1 DEF TypeInv, Named
      <4> QED
        BY <1>4, <2>2, <3>1, <4>1, SweepSummary DEF Fades, Ready
    <3> QED
      BY <3>1, <3>2 DEF Stranded, Dead
  <2> QED
    BY <1>4, <2>1, <2>2, RequestSummary, StreamSummary, OtherSummary
<1> QED
  BY <1>3, <1>4

(* A worker in service loses a slot for good only with a stream record     *)
(* that was dropped or in a fail() that could not fence it: release() and  *)
(* the sweep delete a lease without a decrement only when there is nothing *)
(* to return, whatever happened between their transaction and the delete.  *)
THEOREM NoSlotLeaks == Spec => NoSlotLeak
<1> DEFINE Inv == TypeInv /\ SlotsAccounted /\ HoldInv /\ Stranded
<1>1. Init => Inv
  BY InitTypeInv, InitHoldInv
     DEF Init, SlotsAccounted, Ready, Stranded, SweepOff
<1>2. Inv /\ [Next]_vars => Inv'
  BY NextTypeInv, NextAccount, NextHoldInv, NextStranded DEF HoldInv
<1>3. Inv /\ [Next]_vars
        => [\A r \in Requests :
              /\ lease[r].status # "lost" /\ lease'[r].status = "lost"
              /\ Ready(lease[r].vm)'
              => StreamDropsLease(r) \/ FailDropsLease(r)]_vars
  BY NextTypeInv, NextStranded DEF HoldInv
<1> QED
  BY <1>1, <1>2, <1>3, PTL DEF Spec, NoSlotLeak

-----------------------------------------------------------------------------
(* Workers outlive their leases.                                           *)

(* What the deployment's settings must give: Terraform requires a headroom *)
(* of at least a lease (lambda.tf), which covers a lag of one second, and  *)
(* the defaults of the other durations leave far more room than a lease.   *)
LeaseFits ==
  /\ LeaseSeconds + MaxLag <= Headroom + 1
  /\ LeaseSeconds + MaxLag <= SoftTtl
  /\ LeaseSeconds + BootTime <= HardTtl

(* A claim carries clock reads of at most MaxLag ago.                      *)
Lagging ==
  \A r \in Requests : req[r].step = "claim" =>
    /\ req[r].start <= req[r].now /\ req[r].now <= clock
    /\ clock <= req[r].start + MaxLag

(* No lease reaches further than a lease taken now.                        *)
Recent ==
  \A r \in Requests :
    lease[r].status = "row" => lease[r].expires <= clock + LeaseSeconds

(* The soft expiry is clamped to the hard one.                             *)
Lasting == \A i \in Instances : Ready(i) => inst[i].soft <= inst[i].hard

TimeInv == Lagging /\ Recent /\ Lasting /\ LeaseWithinExpiry

(* A claim carries on a worker that outlives the new lease and every lease *)
(* it already has, although it may lower the soft expiry.                  *)
LEMMA ClaimFits ==
  ASSUME TypeInv, TimeInv, LeaseFits, NEW r \in Requests, ClaimCommits(r),
         NEW i \in Instances, i = req[r].vm
  PROVE  /\ req'[r].now <= clock
         /\ req'[r].now + LeaseSeconds <= inst'[i].soft
         /\ inst'[i].soft <= inst'[i].hard
         /\ \A q \in Requests : lease[q].status = "row" /\ lease[q].vm = i
                                  => lease[q].expires <= inst'[i].soft
<1> DEFINE now == req[r].now
           start == req[r].start
<1>1. /\ now \in Nat /\ start \in Nat /\ clock \in Nat
      /\ inst[i].soft \in Nat /\ inst[i].hard \in Nat
      /\ \A q \in Requests : lease[q].expires \in Nat
      /\ LeaseSeconds \in Nat /\ SoftTtl \in Nat /\ MaxLag \in Nat /\ Headroom \in Nat
  BY TimeAssumption DEF TypeInv, TypeOK, Request, LeaseRow, InstanceRow
<1>2. /\ start <= now /\ now <= clock /\ clock <= start + MaxLag
      /\ inst[i].hard > start + Headroom /\ Ready(i)
      /\ req[r].step = "claim"
  BY DEF ClaimCommits, ClaimCondition, TimeInv, Lagging
<1>3. /\ inst'[i].soft = MinOf(now + SoftTtl, inst[i].hard)
      /\ inst'[i].hard = inst[i].hard /\ req'[r].now = now
  BY DEF ClaimCommits, TypeInv, TypeOK
<1>4. /\ MinOf(now + SoftTtl, inst[i].hard) <= inst[i].hard
      /\ now + LeaseSeconds <= MinOf(now + SoftTtl, inst[i].hard)
  <2>1. now + LeaseSeconds <= inst[i].hard /\ now + LeaseSeconds <= now + SoftTtl
    BY <1>1, <1>2 DEF LeaseFits
  <2> QED
    BY <1>1, <2>1 DEF MinOf
<1>5. ASSUME NEW q \in Requests, lease[q].status = "row", lease[q].vm = i
      PROVE  lease[q].expires <= MinOf(now + SoftTtl, inst[i].hard)
  <2>1. /\ lease[q].expires <= clock + LeaseSeconds
        /\ lease[q].expires <= inst[i].soft /\ inst[i].soft <= inst[i].hard
    BY <1>2, <1>5 DEF TimeInv, Recent, LeaseWithinExpiry
  <2>2. lease[q].expires <= inst[i].hard /\ lease[q].expires <= now + SoftTtl
    BY <1>1, <1>2, <2>1 DEF LeaseFits
  <2> QED
    BY <1>1, <2>2 DEF MinOf
<1> QED
  BY <1>2, <1>3, <1>4, <1>5

(* A new worker outlives the lease of the request that registered it.      *)
LEMMA RegisterFits ==
  ASSUME TypeInv, TimeInv, LeaseFits, NEW r \in Requests, NEW i \in Instances,
         Register(r, i)
  PROVE  /\ req'[r].now <= clock
         /\ req'[r].now + LeaseSeconds <= inst'[i].soft
         /\ inst'[i].soft <= inst'[i].hard
         /\ \A q \in Requests : lease[q].status = "row" => lease[q].vm # i
<1>1. PICK readyAt \in BootTime .. MaxBirth :
        /\ readyAt <= clock
        /\ inst' = [inst EXCEPT ![i] =
              [status |-> "BUSY", in_flight |-> 1,
               hard |-> readyAt - BootTime + HardTtl,
               soft |-> MinOf(readyAt + SoftTtl, readyAt - BootTime + HardTtl)]]
        /\ req' = [req EXCEPT ![r] = [step |-> "hold", vm |-> i,
                                      start |-> 0, now |-> readyAt]]
  BY DEF Register
<1> DEFINE hard == readyAt - BootTime + HardTtl
<1>2. /\ inst'[i].soft = MinOf(readyAt + SoftTtl, hard)
      /\ inst'[i].hard = hard /\ req'[r].now = readyAt
  BY <1>1 DEF TypeInv, TypeOK
<1>3. /\ MinOf(readyAt + SoftTtl, hard) <= hard
      /\ readyAt + LeaseSeconds <= MinOf(readyAt + SoftTtl, hard)
  <2>1. /\ readyAt \in Nat /\ BootTime \in Nat /\ HardTtl \in Nat
        /\ LeaseSeconds \in Nat /\ SoftTtl \in Nat /\ MaxLag \in Nat
    BY <1>1, TimeAssumption
  <2>2. readyAt + LeaseSeconds <= hard /\ readyAt + LeaseSeconds <= readyAt + SoftTtl
    BY <2>1 DEF LeaseFits
  <2> QED
    BY <2>1, <2>2 DEF MinOf
<1>4. \A q \in Requests : lease[q].status = "row" => lease[q].vm # i
  BY DEF Register, TypeInv, Named
<1> QED
  BY <1>1, <1>2, <1>3, <1>4

(* Both ways to take a lease, on a worker that outlives all its leases.    *)
LEMMA TakesFits ==
  ASSUME TypeInv, TimeInv, LeaseFits, NEW r \in Requests, NEW i \in Instances,
         RequestProceeds(r) \/ RequestStarts(r), Takes(r, i)
  PROVE  /\ req'[r].now <= clock
         /\ lease'[r].expires <= inst'[i].soft /\ inst'[i].soft <= inst'[i].hard
         /\ \A q \in Requests : lease[q].status = "row" /\ lease[q].vm = i
                                  => lease[q].expires <= inst'[i].soft
<1>1. req'[r].step = "hold" /\ req'[r].vm = i
      /\ lease'[r].expires = req'[r].now + LeaseSeconds
  BY DEF Takes
<1>2. CASE ClaimCommits(r)
  <2>1. i = req[r].vm
    BY <1>1, <1>2 DEF ClaimCommits, TypeInv, TypeOK
  <2> QED
    BY <1>1, <1>2, <2>1, ClaimFits
<1>3. ASSUME NEW j \in Instances, Register(r, j)
      PROVE  /\ req'[r].now <= clock
             /\ req'[r].now + LeaseSeconds <= inst'[i].soft
             /\ inst'[i].soft <= inst'[i].hard
             /\ \A q \in Requests : lease[q].status = "row" => lease[q].vm # i
  <2>1. i = j
    BY <1>1, <1>3 DEF Register, TypeInv, TypeOK
  <2> QED
    BY <1>3, <2>1, RegisterFits
<1>4. ClaimCommits(r) \/ \E j \in Instances : Register(r, j)
  BY <1>1
  DEF RequestProceeds, RequestStarts, TryCandidate, ClaimRefused, Release,
      ReleaseMarksIdle, ReleaseRefused, ReleaseDropsLease, Fail, FailRefused,
      FailFences, FailDropsLease, FailTerminates, Crash, Goto, Finish,
      TypeInv, TypeOK
<1> QED
  BY <1>1, <1>2, <1>3, <1>4

(* Clock reads stay recent.                                                *)
LEMMA NextLagging ==
  ASSUME TypeInv, Lagging, [Next]_vars
  PROVE  Lagging'
<1> SUFFICES ASSUME NEW r \in Requests, req'[r].step = "claim"
             PROVE  /\ req'[r].start <= req'[r].now /\ req'[r].now <= clock'
                    /\ clock' <= req'[r].start + MaxLag
  BY DEF Lagging
<1>1. ASSUME NEW i \in Instances, TryCandidate(r, i)
      PROVE  /\ req'[r].start <= req'[r].now /\ req'[r].now <= clock'
             /\ clock' <= req'[r].start + MaxLag
  BY <1>1 DEF TryCandidate, TypeInv, TypeOK
<1>2. ASSUME RequestStarts(r) \/ RequestProceeds(r),
             \A i \in Instances : ~TryCandidate(r, i)
      PROVE  FALSE
  BY <1>2
  DEF RequestProceeds, RequestStarts, Register, ClaimCommits, ClaimRefused,
      Release, ReleaseMarksIdle, ReleaseRefused, ReleaseDropsLease, Fail,
      FailRefused, FailFences, FailDropsLease, FailTerminates, Crash, Goto,
      Finish, TypeInv, TypeOK
<1>3. CASE ~(RequestStarts(r) \/ RequestProceeds(r))
  <2>1. req'[r] = req[r]
    BY <1>3, RequestSummary, StreamSummary, SweepSummary, OtherSummary
  <2>2. \/ UNCHANGED clock
        \/ clock' \in Nat /\ clock <= clock' /\ clock' <= req[r].start + MaxLag
    BY <2>1, RequestSummary, StreamSummary, SweepSummary, OtherSummary
  <2>3. clock \in Nat /\ req[r].start \in Nat /\ req[r].now \in Nat
    BY DEF TypeInv, TypeOK, Request
  <2> QED
    BY <2>1, <2>2, <2>3 DEF Lagging
<1> QED
  BY <1>1, <1>2, <1>3

(* Steps that take no lease keep what is said of rows and leases.          *)
LEMMA FadesFits ==
  ASSUME TypeInv, TimeInv, \A j \in Instances : Fades(j),
         \A q \in Requests : lease'[q] = lease[q] \/ lease'[q].status # "row",
         clock' \in Nat, clock <= clock'
  PROVE  Recent' /\ Lasting' /\ LeaseWithinExpiry'
<1>1. ASSUME NEW q \in Requests, lease'[q].status = "row"
      PROVE  lease'[q] = lease[q] /\ lease[q].vm \in Instances
  BY <1>1 DEF TypeInv, Named
<1>2. /\ clock \in Nat /\ LeaseSeconds \in Nat
      /\ \A q \in Requests : lease[q].expires \in Nat
  BY TimeAssumption DEF TypeInv, TypeOK, LeaseRow
<1>3. Recent'
  BY <1>1, <1>2 DEF TimeInv, Recent
<1>4. Lasting'
  BY DEF TimeInv, Lasting, Fades
<1>5. LeaseWithinExpiry'
  <2> SUFFICES ASSUME NEW q \in Requests, lease'[q].status = "row",
                      Ready(lease[q].vm)'
               PROVE  /\ lease[q].expires <= inst'[lease[q].vm].soft
                      /\ inst'[lease[q].vm].soft <= inst'[lease[q].vm].hard
    BY <1>1 DEF LeaseWithinExpiry, Ready
  <2>1. Ready(lease[q].vm) /\ inst'[lease[q].vm].soft = inst[lease[q].vm].soft
        /\ inst'[lease[q].vm].hard = inst[lease[q].vm].hard
    BY <1>1 DEF Fades, Ready
  <2> QED
    BY <1>1, <2>1 DEF TimeInv, LeaseWithinExpiry
<1> QED
  BY <1>3, <1>4, <1>5

(* A step that takes a lease keeps it too.                                 *)
LEMMA TakeFits ==
  ASSUME TypeInv, TypeInv', TimeInv, LeaseFits,
         NEW r \in Requests, NEW i \in Instances,
         RequestProceeds(r) \/ RequestStarts(r), Takes(r, i)
  PROVE  Recent' /\ Lasting' /\ LeaseWithinExpiry'
<1>1. /\ lease'[r].expires = req'[r].now + LeaseSeconds /\ lease'[r].vm = i
      /\ req'[r].now \in Nat
      /\ \A j \in Instances \ {i} : Fades(j)
  BY DEF Takes
<1>2. UNCHANGED clock /\ \A q \in Requests \ {r} : lease'[q] = lease[q]
  BY RequestSummary
<1>3. /\ req'[r].now <= clock
      /\ lease'[r].expires <= inst'[i].soft /\ inst'[i].soft <= inst'[i].hard
      /\ \A q \in Requests : lease[q].status = "row" /\ lease[q].vm = i
                               => lease[q].expires <= inst'[i].soft
  BY TakesFits
<1>4. clock \in Nat /\ LeaseSeconds \in Nat
  BY TimeAssumption DEF TypeInv, TypeOK
<1>5. Recent'
  <2>1. lease'[r].expires <= clock + LeaseSeconds
    BY <1>1, <1>3, <1>4
  <2> QED
    BY <1>2, <2>1 DEF TimeInv, Recent
<1>6. Lasting'
  <2> SUFFICES ASSUME NEW j \in Instances, Ready(j)'
               PROVE  inst'[j].soft <= inst'[j].hard
    BY DEF Lasting
  <2>1. CASE j = i
    BY <1>3, <2>1
  <2>2. CASE j # i
    BY <1>1, <2>2 DEF TimeInv, Lasting, Fades
  <2> QED
    BY <2>1, <2>2
<1>7. LeaseWithinExpiry'
  <2> SUFFICES ASSUME NEW q \in Requests, lease'[q].status = "row",
                      NEW j, j = lease'[q].vm, Ready(j)'
               PROVE  lease'[q].expires <= inst'[j].soft
    <3>1. \A q \in Requests : lease'[q].status = "row" => lease'[q].vm \in Instances
      BY DEF TypeInv, Named
    <3> QED
      BY <1>6, <3>1 DEF LeaseWithinExpiry, Lasting, Ready
  <2>1. CASE q = r
    BY <1>1, <1>3, <2>1
  <2>2. CASE q # r
    <3>1. lease'[q] = lease[q] /\ lease[q].status = "row" /\ lease[q].vm = j
          /\ j \in Instances
      BY <1>2, <2>2 DEF TypeInv, Named
    <3>2. CASE j = i
      BY <1>3, <3>1, <3>2
    <3>3. CASE j # i
      BY <1>1, <3>1, <3>3 DEF TimeInv, LeaseWithinExpiry, Fades
    <3> QED
      BY <3>2, <3>3
  <2> QED
    BY <2>1, <2>2
<1> QED
  BY <1>5, <1>6, <1>7

(* The time invariant is inductive.                                        *)
LEMMA NextTimeInv ==
  ASSUME TypeInv, TypeInv', TimeInv, LeaseFits, [Next]_vars
  PROVE  TimeInv'
<1>1. Lagging'
  BY NextLagging DEF TimeInv
<1>2. ASSUME NEW r \in Requests, RequestStarts(r) \/ RequestProceeds(r)
      PROVE  Recent' /\ Lasting' /\ LeaseWithinExpiry'
  <2>1. CASE \E i \in Instances : Takes(r, i)
    BY <1>2, <2>1, TakeFits
  <2>2. CASE Yields(r)
    <3>1. /\ \A q \in Requests : lease'[q] = lease[q] \/ lease'[q].status # "row"
          /\ \A j \in Instances : Fades(j)
      BY <1>2, <2>2, RequestSummary DEF Yields
    <3>2. clock' \in Nat /\ clock <= clock'
      BY <1>2, RequestSummary DEF TypeInv, TypeOK
    <3> QED
      BY <3>1, <3>2, FadesFits
  <2> QED
    BY <1>2, <2>1, <2>2, RequestSummary
<1>3. CASE ~\E r \in Requests : RequestStarts(r) \/ RequestProceeds(r)
  <2>1. clock' \in Nat /\ clock <= clock'
    <3>1. clock \in Nat /\ clock' \in Nat
      BY DEF TypeInv, TypeOK
    <3> QED
      BY <1>3, <3>1, StreamSummary, SweepSummary, OtherSummary
  <2>2. /\ \A j \in Instances : Fades(j)
        /\ \A q \in Requests : lease'[q] = lease[q] \/ lease'[q].status # "row"
    BY <1>3, StreamSummary, SweepSummary, OtherSummary
  <2> QED
    BY <1>1, <2>1, <2>2, FadesFits DEF TimeInv
<1> QED
  BY <1>1, <1>2, <1>3 DEF TimeInv

(* An empty pool satisfies it.                                             *)
LEMMA InitTimeInv == Init => TimeInv
BY DEF Init, TimeInv, Lagging, Recent, Lasting, LeaseWithinExpiry, Ready

(* An accepted lease does not outlive its worker: although a later claim   *)
(* may lower the worker's soft expiry, and clock reads are up to MaxLag    *)
(* old, if the headroom covers a lease and that lag.                       *)
THEOREM LeasesEndInTime ==
  ASSUME LeaseFits
  PROVE  Spec => []LeaseWithinExpiry
<1>1. Init => TypeInv /\ TimeInv
  BY InitTypeInv, InitTimeInv
<1>2. TypeInv /\ TimeInv /\ [Next]_vars => TypeInv' /\ TimeInv'
  BY NextTypeInv, NextTimeInv
<1>3. TimeInv => LeaseWithinExpiry
  BY DEF TimeInv
<1> QED
  BY <1>1, <1>2, <1>3, PTL DEF Spec

-----------------------------------------------------------------------------
(* A worker marked AVAILABLE is free.                                      *)

(* No status write races a claim: it is conditional on the occupancy that  *)
(* the claim raises.                                                       *)
LEMMA NextAvailable ==
  ASSUME TypeInv, AvailableIsFree, [Next]_vars
  PROVE  AvailableIsFree'
<1> DEFINE Free(j) == inst[j].status = "AVAILABLE" => inst[j].in_flight = 0
<1>1. ASSUME UNCHANGED inst PROVE AvailableIsFree'
  BY <1>1 DEF AvailableIsFree
<1>2. ASSUME NEW i \in Instances, MarkIdle(i) PROVE AvailableIsFree'
  BY <1>2 DEF MarkIdle, AvailableIsFree, TypeInv, TypeOK, InstanceRow
<1>3. ASSUME NEW i \in Instances, ReturnSlot(i), CanReturnSlot(i) PROVE AvailableIsFree'
  BY <1>3 DEF ReturnSlot, CanReturnSlot, AvailableIsFree, TypeInv, TypeOK, InstanceRow
<1>4. ASSUME NEW i \in Instances, EraseInstance(i) PROVE AvailableIsFree'
  BY <1>4 DEF EraseInstance, AvailableIsFree, TypeInv, TypeOK, InstanceRow
<1>5. ASSUME NEW r \in Requests, RequestStarts(r) \/ RequestProceeds(r)
      PROVE  AvailableIsFree'
  <2>1. CASE Release(r)
    <3>1. req[r].vm \in Instances
      BY <2>1 DEF Release, ReleaseCondition, TypeInv, Named
    <3> QED
      BY <1>3, <2>1, <3>1 DEF Release, ReleaseCondition, CanReturnSlot, Present
  <2>2. CASE ReleaseMarksIdle(r)
    <3>1. req[r].vm \in Instances
      BY <2>2 DEF ReleaseMarksIdle, TypeInv, Named
    <3> QED
      BY <1>2, <2>2, <3>1 DEF ReleaseMarksIdle
  <2>3. CASE Fail(r) \/ FailFences(r) \/ ClaimCommits(r) \/ \E i \in Instances : Register(r, i)
    BY <2>3 DEF Fail, FailFences, ClaimCommits, Register, AvailableIsFree, TypeInv,
       TypeOK, InstanceRow
  <2> QED
    BY <1>1, <1>5, <2>1, <2>2, <2>3
    DEF RequestStarts, RequestProceeds, TryCandidate, ClaimRefused, ReleaseRefused,
        ReleaseDropsLease, FailRefused, FailDropsLease, FailTerminates, Crash
<1>6. ASSUME StreamStep PROVE AvailableIsFree'
  <2>1. ASSUME NEW r \in Requests, StreamRecovers(r), ~UNCHANGED inst
        PROVE  AvailableIsFree'
    <3>1. lease[r].vm \in Instances /\ CanReturnSlot(lease[r].vm) /\ ReturnSlot(lease[r].vm)
      BY <2>1 DEF StreamRecovers, TypeInv, Named
    <3> QED
      BY <1>3, <3>1
  <2> QED
    BY <1>1, <1>2, <1>4, <1>6, <2>1
    DEF StreamStep, TtlRemovesInstance, StreamTerminates, StreamMarksIdle, StreamCrashes,
        StreamDropsInstance, TtlRemovesLease, StreamDropsLease
<1>7. ASSUME NEW s \in Sweepers, SweepStep(s) PROVE AvailableIsFree'
  <2>1. ASSUME NEW r \in Requests, SweepRecovers(s, r), ~UNCHANGED inst
        PROVE  AvailableIsFree'
    <3>1. lease[r].vm \in Instances /\ CanReturnSlot(lease[r].vm) /\ ReturnSlot(lease[r].vm)
      BY <2>1 DEF SweepRecovers, TypeInv, Named
    <3> QED
      BY <1>3, <3>1
  <2> QED
    BY <1>1, <1>2, <1>4, <1>7, <2>1
    DEF SweepStep, SweepScans, SweepSkips, SweepEnds, SweepTerminates, SweepDeletes,
        SweepMarksIdle, SweepKillsOrphan, SweepDropsLease
<1> QED
  BY <1>1, <1>5, <1>6, <1>7 DEF Next, PlatformStops, Tick, vars

(* A worker that is offered as free has no lease: the writes of the mark,  *)
(* by releases, the stream and the sweep, are conditional on the count.    *)
THEOREM FreeWorkersAreFree == Spec => []AvailableIsFree
<1>1. Init => TypeInv /\ AvailableIsFree
  BY InitTypeInv DEF Init, AvailableIsFree
<1>2. TypeInv /\ AvailableIsFree /\ [Next]_vars => TypeInv' /\ AvailableIsFree'
  BY NextTypeInv, NextAvailable
<1> QED
  BY <1>1, <1>2, PTL DEF Spec

-----------------------------------------------------------------------------
(* Nobody stops a worker under an unexpired lease.                         *)

(* Workers whose row is gone, which a stream record or an orphan listing   *)
(* names, never return to service; and a worker that a sweep has selected  *)
(* is out of service, past its soft expiry, or was revived since.          *)
Condemned ==
  /\ \A i \in running : Known(i)
  /\ \A i \in removals : Known(i) /\ ~Present(i)
  /\ \A s \in Sweepers :
       /\ \A i \in sweep[s].orphans : Known(i) /\ ~Present(i)
       /\ \A i \in Selected(s) \ revived[s] :
            Known(i) /\ (Ready(i) => inst[i].soft <= clock)

(* A request starts no worker but the one it registers; it stops none and  *)
(* takes none out of service but the one it fails.                         *)
LEMMA RequestRuns ==
  ASSUME TypeInv, NEW r \in Requests, RequestProceeds(r) \/ RequestStarts(r)
  PROVE  /\ \A i \in running' \ running : i \in Instances /\ Known(i)'
         /\ \A i \in Instances :
              \/ i \in running /\ i \notin running'
              \/ Ready(i) /\ ~Ready(i)'
              => /\ req[r].vm = i
                 /\ Fail(r) \/ FailFences(r) \/ FailTerminates(r)
<1>1. ASSUME NEW i \in Instances, Register(r, i)
      PROVE  running' = running \cup {i} /\ Known(i)'
             /\ \A j \in Instances : Ready(j) => Ready(j)'
  BY <1>1 DEF Register, Known, Ready, TypeInv, TypeOK
<1>2. CASE \E i \in Instances : Register(r, i)
  BY <1>1, <1>2
<1>3. CASE FailTerminates(r)
  BY <1>3 DEF FailTerminates, Ready
<1>4. CASE Fail(r) \/ FailFences(r)
  BY <1>4 DEF Fail, FailFences, Ready, TypeInv, TypeOK, InstanceRow
<1>5. CASE ClaimCommits(r)
  BY <1>5 DEF ClaimCommits, ClaimCondition, Ready, TypeInv, TypeOK, InstanceRow
<1>6. CASE Release(r) \/ ReleaseMarksIdle(r)
  BY <1>6 DEF Release, ReleaseMarksIdle, ReturnSlot, MarkIdle, Ready, TypeInv, TypeOK,
     InstanceRow
<1> QED
  BY <1>2, <1>3, <1>4, <1>5, <1>6
  DEF RequestProceeds, RequestStarts, TryCandidate, ClaimRefused, ReleaseRefused,
      ReleaseDropsLease, FailRefused, FailDropsLease, Crash, Ready

(* Outside requests, a worker goes out of service by TTL, after its soft   *)
(* expiry, or by a sweep that has selected it.                             *)
LEMMA StreamShuts ==
  ASSUME TypeInv, StreamStep, NEW i \in Instances, Ready(i), ~Ready(i)'
  PROVE  inst[i].soft < clock
<1>1. ASSUME NEW j \in Instances, TtlRemovesInstance(j)
      PROVE  inst[i].soft < clock
  BY <1>1 DEF TtlRemovesInstance, EraseInstance, Ready, TypeInv, TypeOK
<1>2. ASSUME NEW j \in Instances, StreamMarksIdle(j) PROVE FALSE
  BY <1>2 DEF StreamMarksIdle, MarkIdle, Ready, TypeInv, TypeOK, InstanceRow
<1>3. ASSUME NEW r \in Requests, StreamRecovers(r) PROVE FALSE
  BY <1>3 DEF StreamRecovers, ReturnSlot, Ready, TypeInv, TypeOK, InstanceRow
<1> QED
  BY <1>1, <1>2, <1>3
  DEF StreamStep, StreamTerminates, StreamCrashes, StreamDropsInstance,
      TtlRemovesLease, StreamDropsLease, Ready

LEMMA SweepShuts ==
  ASSUME TypeInv, NEW s \in Sweepers, SweepStep(s), NEW i \in Instances, Ready(i),
         (i \in running /\ i \notin running') \/ ~Ready(i)'
  PROVE  \/ i \in sweep[s].orphans
         \/ i \in Selected(s) /\ (SweepTerminates(s, i) \/ SweepDeletes(s, i))
<1>1. ASSUME NEW j \in Instances, SweepTerminates(s, j) \/ SweepDeletes(s, j)
      PROVE  i \in Selected(s) /\ (SweepTerminates(s, i) \/ SweepDeletes(s, i))
  BY <1>1 DEF SweepTerminates, SweepDeletes, EraseInstance, Selected, Ready, TypeInv,
     TypeOK
<1>2. ASSUME NEW j \in Instances, SweepKillsOrphan(s, j)
      PROVE  i \in sweep[s].orphans
  BY <1>2 DEF SweepKillsOrphan, Ready
<1>3. ASSUME NEW j \in Instances, SweepMarksIdle(s, j) PROVE FALSE
  BY <1>3 DEF SweepMarksIdle, MarkIdle, Ready, TypeInv, TypeOK, InstanceRow
<1>4. ASSUME NEW r \in Requests, SweepRecovers(s, r) PROVE FALSE
  BY <1>4 DEF SweepRecovers, ReturnSlot, Ready, TypeInv, TypeOK, InstanceRow
<1> QED
  BY <1>1, <1>2, <1>3, <1>4
  DEF SweepStep, SweepScans, SweepSkips, SweepEnds, SweepDropsLease, Ready

(* What a sweep has selected comes from its scan.                          *)
LEMMA SweepSelects ==
  ASSUME TypeInv, NEW s \in Sweepers, SweepStep(s)
  PROVE  Selected(s)' \subseteq Selected(s) \cup Doomed(clock)
<1>1. /\ DOMAIN sweep[s] = {"on", "doomed", "expired", "orphans", "deleting",
                            "marking", "dropping"}
      /\ s \in DOMAIN sweep
  BY DEF TypeInv, TypeOK, Sweep
<1>2. CASE SweepScans(s) \/ SweepEnds(s)
  <2>1. CASE SweepScans(s)
    <3>1. sweep'[s].doomed = Doomed(clock) /\ sweep'[s].deleting = {}
      BY <1>1, <2>1 DEF SweepScans, SweepOff
    <3> QED
      BY <3>1 DEF Selected
  <2>2. CASE SweepEnds(s)
    <3>1. sweep'[s].doomed = {} /\ sweep'[s].deleting = {}
      BY <1>1, <2>2 DEF SweepEnds, SweepOff
    <3> QED
      BY <3>1 DEF Selected
  <2> QED
    BY <1>2, <2>1, <2>2
<1>3. CASE SweepSkips(s)
  BY <1>1, <1>3 DEF SweepSkips, Selected
<1>4. ASSUME NEW i \in Instances,
             \/ SweepTerminates(s, i) \/ SweepDeletes(s, i)
             \/ SweepMarksIdle(s, i) \/ SweepKillsOrphan(s, i)
      PROVE  Selected(s)' \subseteq Selected(s)
  BY <1>1, <1>4 DEF SweepTerminates, SweepDeletes, SweepMarksIdle, SweepKillsOrphan,
     Selected
<1>5. ASSUME NEW r \in Requests, SweepRecovers(s, r) \/ SweepDropsLease(s, r)
      PROVE  Selected(s)' \subseteq Selected(s)
  BY <1>1, <1>5 DEF SweepRecovers, SweepDropsLease, Selected
<1> QED
  BY <1>2, <1>3, <1>4, <1>5 DEF SweepStep

(* The condemned stay condemned, or are revived.                           *)
LEMMA CondemnedStays ==
  ASSUME TypeInv, TypeInv', [Next]_vars, NEW i \in Instances, Known(i)
  PROVE  /\ Known(i)'
         /\ ~Present(i) => ~Present(i)'
         /\ (Ready(i) => inst[i].soft <= clock)
              => (Ready(i)' => inst'[i].soft <= clock') \/ Revives(i)
<1>1. clock \in Nat /\ clock' \in Nat /\ clock <= clock'
  <2>1. clock \in Nat /\ clock' \in Nat
    BY DEF TypeInv, TypeOK
  <2> QED
    BY <2>1, RequestSummary, StreamSummary, SweepSummary, OtherSummary
<1>2. inst[i].soft \in Nat /\ inst'[i].soft \in Nat
  BY DEF TypeInv, TypeOK, InstanceRow
<1>3. CASE Fades(i)
  BY <1>1, <1>2, <1>3 DEF Fades
<1>4. ASSUME NEW r \in Requests, Takes(r, i)
      PROVE  Ready(i) /\ Ready(i)'
  BY <1>4 DEF Takes
<1>5. Fades(i) \/ \E r \in Requests : Takes(r, i)
  BY RequestSummary, StreamSummary, SweepSummary, OtherSummary DEF Takes, Yields
<1>6. CASE Ready(i) /\ Ready(i)'
  BY <1>1, <1>2, <1>6 DEF Revives, Present, Ready, Known
<1> QED
  BY <1>3, <1>4, <1>5, <1>6

(* What a scan selects is condemned.                                       *)
LEMMA ScanCondemns ==
  ASSUME TypeInv, TimeInv, Condemned
  PROVE  /\ \A i \in Doomed(clock) : Known(i) /\ (Ready(i) => inst[i].soft <= clock)
         /\ \A i \in Orphans(clock) : Known(i) /\ ~Present(i)
<1>1. \A i \in Instances : inst[i].soft \in Nat /\ inst[i].hard \in Nat /\ clock \in Nat
  BY DEF TypeInv, TypeOK, InstanceRow
<1>2. ASSUME NEW i \in Doomed(clock)
      PROVE  Known(i) /\ (Ready(i) => inst[i].soft <= clock)
  <2>1. i \in Instances /\ Present(i)
    BY <1>2 DEF Doomed
  <2>2. Known(i)
    BY <2>1 DEF Present, Ready, Known
  <2>3. ASSUME Ready(i) PROVE inst[i].soft <= clock
    <3>1. inst[i].soft <= inst[i].hard
      BY <2>1, <2>3 DEF TimeInv, Lasting
    <3>2. inst[i].soft <= clock \/ inst[i].hard <= clock
      BY <1>2, <2>3 DEF Doomed, Ready
    <3> QED
      BY <1>1, <2>1, <3>1, <3>2
  <2> QED
    BY <2>2, <2>3
<1>3. \A i \in Orphans(clock) : Known(i) /\ ~Present(i)
  BY DEF Orphans, Condemned
<1> QED
  BY <1>2, <1>3

(* Every step keeps the condemned condemned.                               *)
LEMMA NextCondemned ==
  ASSUME TypeInv, TypeInv', TimeInv, Condemned, HistoryNext
  PROVE  Condemned'
<1>0. [Next]_vars
  BY DEF HistoryNext
<1>1. /\ running \subseteq Instances /\ removals \subseteq Instances
      /\ \A s \in Sweepers : /\ sweep[s].orphans \subseteq Instances
                             /\ Selected(s) \subseteq Instances
  BY DEF TypeInv, TypeOK, Sweep, Selected
<1>2. \A i \in running' : i \in running \/ Known(i)'
  BY <1>0, RequestRuns, StreamSummary, SweepSummary, OtherSummary
<1>3. \A i \in removals' : i \in removals \/ (Known(i) /\ ~Present(i)')
  BY <1>0, RequestSummary, StreamSummary, SweepSummary, OtherSummary
<1>4. ASSUME NEW s \in Sweepers
      PROVE  /\ sweep'[s].orphans \subseteq sweep[s].orphans \cup Orphans(clock)
             /\ Selected(s)' \subseteq Selected(s) \cup Doomed(clock)
  <2>1. CASE \E t \in Sweepers : SweepStep(t)
    BY <2>1, SweepSummary, SweepSelects DEF Selected
  <2>2. CASE ~\E t \in Sweepers : SweepStep(t)
    <3>1. sweep' = sweep
      BY <1>0, <2>2, RequestSummary, StreamSummary, OtherSummary
    <3> QED
      BY <3>1 DEF Selected
  <2> QED
    BY <2>1, <2>2
<1>5. \A i \in running' : Known(i)'
  BY <1>0, <1>1, <1>2, CondemnedStays DEF Condemned
<1>6. \A i \in removals' : Known(i)' /\ ~Present(i)'
  <2> SUFFICES ASSUME NEW i \in removals' PROVE Known(i)' /\ ~Present(i)'
    OBVIOUS
  <2>1. i \in Instances
    BY DEF TypeInv, TypeOK
  <2> QED
    BY <1>0, <1>3, <2>1, CondemnedStays DEF Condemned
<1>7. ASSUME NEW s \in Sweepers, NEW i \in sweep'[s].orphans
      PROVE  Known(i)' /\ ~Present(i)'
  <2>1. i \in Instances /\ Known(i) /\ ~Present(i)
    BY <1>1, <1>4, <1>7, ScanCondemns DEF Condemned, Orphans
  <2> QED
    BY <1>0, <2>1, CondemnedStays
<1>8. ASSUME NEW s \in Sweepers, NEW i \in Selected(s)', i \notin revived'[s]
      PROVE  Known(i)' /\ (Ready(i)' => inst'[i].soft <= clock')
  <2>1. i \notin revived[s] /\ ~Revives(i)
    BY <1>8 DEF HistoryNext
  <2>2. i \in Instances
    BY <1>1, <1>4 DEF Doomed
  <2>3. Known(i) /\ (Ready(i) => inst[i].soft <= clock)
    BY <1>4, <2>1, ScanCondemns DEF Condemned
  <2> QED
    BY <1>0, <2>1, <2>2, <2>3, CondemnedStays
<1> QED
  BY <1>5, <1>6, <1>7, <1>8 DEF Condemned

(* The lifecycle function and the platform neither stop a worker nor take  *)
(* it out of service under the unexpired lease of a request at work, unless*)
(* a request fails it, however old the scan and the stream records are that*)
(* they act on, with one exception: a worker that a late claim revived     *)
(* after the scan that had found it expired.                               *)
THEOREM LifecycleSpares ==
  ASSUME LeaseFits
  PROVE  HistorySpec => LifecycleSparesLeases
<1> DEFINE Inv == TypeInv /\ HoldInv /\ TimeInv /\ Condemned
           Fails(i) == \E q \in Requests :
                         /\ req[q].vm = i
                         /\ Fail(q) \/ FailFences(q) \/ FailTerminates(q)
           Stale(i) == \E s \in Sweepers :
                         /\ i \in revived[s]
                         /\ SweepTerminates(s, i) \/ SweepDeletes(s, i)
<1>1. HistoryInit => Inv
  <2>1. HistoryInit => TypeInv /\ HoldInv /\ TimeInv
    BY InitTypeInv, InitHoldInv, InitTimeInv DEF HistoryInit
  <2>2. HistoryInit => Condemned
    BY DEF HistoryInit, Init, Condemned, SweepOff, Selected
  <2> QED
    BY <2>1, <2>2
<1>2. Inv /\ [HistoryNext]_historyVars => Inv'
  <2>1. CASE HistoryNext
    BY <2>1, NextTypeInv, NextHoldInv, NextTimeInv, NextCondemned DEF HistoryNext
  <2>2. CASE UNCHANGED historyVars
    <3>1. Inv => TypeInv' /\ HoldInv' /\ TimeInv'
      BY <2>2, NextTypeInv, NextHoldInv, NextTimeInv DEF historyVars
    <3>2. Condemned => Condemned'
      BY <2>2 DEF historyVars, vars, Condemned, Selected, Known, Present, Ready
    <3> QED
      BY <3>1, <3>2
  <2> QED
    BY <2>1, <2>2
<1>3. Inv /\ [HistoryNext]_historyVars
        => [\A i \in Instances : SparesLease(i)]_historyVars
  <2> SUFFICES ASSUME Inv, Next, NEW i \in Instances, Ready(i),
                      NEW q \in Requests, Working(q), req[q].vm = i,
                      i \in running \ running' \/ ~Ready(i)'
               PROVE  Fails(i) \/ Stale(i)
    BY DEF HistoryNext, SparesLease
  <2>1. /\ clock \in Nat /\ req[q].now \in Nat
        /\ LeaseSeconds \in Nat
        /\ inst[i].soft \in Nat /\ inst[i].hard \in Nat
    BY TimeAssumption DEF TypeInv, TypeOK, InstanceRow, Request
  <2>2. lease[q] = [status  |-> "row", vm |-> req[q].vm,
                    expires |-> req[q].now + LeaseSeconds]
    BY Zenon DEF HoldInv, LeaseHeldUntilExpiry
  <2>3. req[q].now + LeaseSeconds <= inst[i].soft /\ inst[i].soft <= inst[i].hard
    BY <2>2 DEF TimeInv, LeaseWithinExpiry
  <2>4. clock < inst[i].soft /\ clock < inst[i].hard
    BY <2>1, <2>3 DEF Working
  <2>5. Present(i)
    BY DEF Present
  <2>6. ASSUME NEW r \in Requests, RequestStarts(r) \/ RequestProceeds(r)
        PROVE  Fails(i)
    BY <2>6, RequestRuns
  <2>7. CASE StreamStep
    <3>1. i \notin removals
      BY <2>5 DEF Condemned
    <3>2. ~Ready(i)'
      BY <2>7, <3>1, StreamSummary
    <3> QED
      BY <2>1, <2>4, <2>7, <3>2, StreamShuts
  <2>8. ASSUME NEW s \in Sweepers, SweepStep(s)
        PROVE  Stale(i)
    <3>1. i \notin sweep[s].orphans
      BY <2>5 DEF Condemned
    <3>2. i \in Selected(s) /\ (SweepTerminates(s, i) \/ SweepDeletes(s, i))
      BY <2>8, <3>1, SweepShuts
    <3>3. i \in revived[s]
      BY <2>1, <2>4, <3>2 DEF Condemned
    <3> QED
      BY <3>2, <3>3
  <2>9. ~(inst[i].hard <= clock)
    BY <2>1, <2>4
  <2>10. \/ \E r \in Requests : RequestStarts(r) \/ RequestProceeds(r)
         \/ StreamStep \/ \E s \in Sweepers : SweepStep(s)
    <3> SUFFICES ASSUME ~\E r \in Requests : RequestStarts(r) \/ RequestProceeds(r),
                        ~StreamStep, ~\E s \in Sweepers : SweepStep(s)
                 PROVE  FALSE
      OBVIOUS
    <3>1. inst' = inst /\ \A j \in running \ running' : inst[j].hard <= clock
      BY OtherSummary
    <3> QED
      BY <2>9, <3>1 DEF Ready
  <2> QED
    BY <2>6, <2>7, <2>8, <2>10
<1> QED
  BY <1>1, <1>2, <1>3, PTL DEF HistorySpec, LifecycleSparesLeases

=============================================================================
