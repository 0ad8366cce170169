---------------------------- MODULE LeaseHistory ------------------------------
(***************************************************************************)
(* LeasePool with a history variable: the workers that a claim brought     *)
(* back after a sweep had found them expired.  A claim compares the        *)
(* worker's soft expiry with a clock it read up to MaxLag before its       *)
(* transaction commits (pool.ts), and the sweep deletes what it scanned    *)
(* without a condition (service.ts), so a worker can be selected as        *)
(* expired, be revived, and be stopped all the same.  The history tells    *)
(* these workers from all the others.                                      *)
(***************************************************************************)
EXTENDS LeasePool

VARIABLE
  revived     (* Per sweep, the selected workers revived since its scan.   *)

historyVars == << vars, revived >>

(* What a sweep still has to do away with.                                 *)
Selected(s) == sweep[s].doomed \cup sweep[s].deleting

(* A step that extends the life of a worker that had expired.              *)
Revives(i) ==
  /\ Ready(i) /\ inst[i].soft <= clock
  /\ Ready(i)' /\ inst'[i].soft > clock'

-----------------------------------------------------------------------------
HistoryInit == Init /\ revived = [s \in Sweepers |-> {}]

HistoryNext ==
  /\ Next
  /\ revived' = [s \in Sweepers |->
                   {i \in Selected(s)' : i \in revived[s] \/ Revives(i)}]

HistorySpec == HistoryInit /\ [][HistoryNext]_historyVars

(* The history adds no condition to any step.                              *)
FairHistorySpec == HistorySpec /\ Fairness

-----------------------------------------------------------------------------
(* A step that stops worker i, or takes it out of service, under the       *)
(* unexpired lease of a request at work is excused if a request fails it,  *)
(* or if it was revived after the sweep that stops it had selected it.     *)
SparesLease(i) ==
  /\ Ready(i) /\ \E r \in Requests : Working(r) /\ req[r].vm = i
  /\ i \in running \ running' \/ ~Ready(i)'
  => \/ \E q \in Requests : /\ req[q].vm = i
                            /\ Fail(q) \/ FailFences(q) \/ FailTerminates(q)
     \/ \E s \in Sweepers : /\ i \in revived[s]
                            /\ SweepTerminates(s, i) \/ SweepDeletes(s, i)

(* TTL, stream records, sweeps and the platform spare every worker with    *)
(* an unexpired lease of a request at work, except one that a late claim   *)
(* revived under a sweep's feet.                                           *)
LifecycleSparesLeases ==
  [][\A i \in Instances : SparesLease(i)]_historyVars

=============================================================================
