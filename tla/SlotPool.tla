------------------------------ MODULE SlotPool ------------------------------
(***************************************************************************)
(* What the worker registry promises, with none of its mechanism: every    *)
(* worker is a room of Capacity slots that is opened once by the request   *)
(* that started it, is entered and left by requests while it is open, and  *)
(* never reopens once it is closed.  LeasePool implements this with        *)
(* conditional writes, lease rows, TTL removals and a periodic sweep.      *)
(***************************************************************************)
EXTENDS Naturals, FiniteSets

CONSTANTS
  Requests,     (* Lease identifiers; each is used for one lease.          *)
  Instances,    (* MicroVM identifiers; each is registered at most once.   *)
  Capacity      (* Concurrent leases one worker accepts.                   *)

VARIABLES
  door,         (* door[i] is "unbuilt", "open" or "closed".               *)
  inside        (* inside[i] is the set of requests that occupy a slot.    *)

slotVars == << door, inside >>

SlotInit ==
  /\ door   = [i \in Instances |-> "unbuilt"]
  /\ inside = [i \in Instances |-> {}]

Open(i, r) ==
  /\ door[i] = "unbuilt"
  /\ door'   = [door EXCEPT ![i] = "open"]
  /\ inside' = [inside EXCEPT ![i] = {r}]

Enter(i, r) ==
  /\ door[i] = "open"
  /\ r \notin inside[i]
  /\ Cardinality(inside[i]) < Capacity
  /\ inside' = [inside EXCEPT ![i] = @ \cup {r}]
  /\ UNCHANGED door

Leave(i, r) ==
  /\ r \in inside[i]
  /\ inside' = [inside EXCEPT ![i] = @ \ {r}]
  /\ UNCHANGED door

Close(i) ==
  /\ door[i] = "open"
  /\ door'   = [door EXCEPT ![i] = "closed"]
  /\ inside' = [inside EXCEPT ![i] = {}]

SlotNext ==
  \E i \in Instances :
    \/ Close(i)
    \/ \E r \in Requests : Open(i, r) \/ Enter(i, r) \/ Leave(i, r)

SlotSpec == SlotInit /\ [][SlotNext]_slotVars

=============================================================================
