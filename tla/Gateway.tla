------------------------------ MODULE Gateway ------------------------------
(***************************************************************************)
(* One embedding request through the AWS gateway: the two attempts of      *)
(* invokeEmbedding (app/aws/gateway/app.ts), each with its own lease, and  *)
(* the streaming handler that ends the last one (app/aws/gateway/index.ts).*)
(*                                                                         *)
(* Each execution environment serves one request at a time, so requests    *)
(* meet only in the registry.  The registry is used through its promise:   *)
(* a worker has Capacity slots and is closed for good once it is fenced    *)
(* (SlotPool); how it keeps that promise is the subject of LeasePool.      *)
(***************************************************************************)
EXTENDS Naturals, FiniteSets

CONSTANTS
  Requests,   (* Invocations of the handler.                               *)
  Workers,    (* MicroVMs.                                                 *)
  Capacity,   (* Leases one worker accepts.                                *)
  Faults,     (* What may go wrong, a subset of FaultKinds.                *)
  NoWorker    (* `instance` is undefined.                                  *)

(* "acquire", "release", "fail": the state-store call throws, or commits   *)
(* and its answer is lost; "invoke": the token or the fetch throws;        *)
(* "stream": the response stream cannot be opened; "kill": the Lambda      *)
(* deadline, or the end of its environment.                                *)
FaultKinds == {"acquire", "release", "fail", "invoke", "stream", "kill"}

ASSUME RequestsAssumption == IsFiniteSet(Requests)
ASSUME CapacityAssumption == Capacity \in Nat \ {0}
ASSUME NoWorkerAssumption == NoWorker \notin Workers
ASSUME FaultsAssumption == Faults \subseteq FaultKinds

Attempts == {0, 1}
Leases == Requests \X Attempts

(* "busy" is 429 or 500, "gone" 404, 502 or 503, "other" any other status  *)
(* but 200 and 403.                                                        *)
Status == {"none", "200", "403", "busy", "gone", "other"}

VARIABLES
  req,      (* Program counter and locals of each request.                 *)
  lease,    (* The lease of each attempt, and the worker it is on.         *)
  door,     (* Whether a worker is registered, and not fenced.             *)
  sent,     (* Upstream calls of the current attempt of each request.      *)
  struck    (* History: requests whose end of a lease was out of the       *)
            (* handler's hands.                                            *)

vars == << req, lease, door, sent, struck >>

Step ==
  {"idle", "acquire", "token", "invoke", "judge", "fail", "body", "caught",
   "stream", "cleanup", "done"}

(* `asked` is the last kind of call made on this worker: the first one,    *)
(* the one after a token refresh, or the one after a busy answer.          *)
Request ==
  [step: Step, attempt: Attempts, worker: Workers \cup {NoWorker},
   asked: {"first", "refreshed", "again"}, status: Status]
Lease ==
  [status: {"none", "held", "released", "failed"},
   worker: Workers \cup {NoWorker}]

(* Locals, leases and doors keep their domains; no attempt makes more than *)
(* three upstream calls, so an embedding is never computed more than six   *)
(* times for one client call.                                              *)
TypeOK ==
  /\ req   \in [Requests -> Request]
  /\ lease \in [Leases -> Lease]
  /\ door  \in [Workers -> {"unbuilt", "open", "closed"}]
  /\ sent  \in [Requests -> 0 .. 3]
  /\ struck \subseteq Requests

Current(q) == << q, req[q].attempt >>

Seated(w) == {l \in Leases : lease[l] = [status |-> "held", worker |-> w]}

Goto(q, step) == req' = [req EXCEPT ![q].step = step]

SetLease(l, status, w) ==
  lease' = [lease EXCEPT ![l] = [status |-> status, worker |-> w]]

(* A call of the registry that gives a lease back fails, one that takes it *)
(* commits and throws, the stream cannot be opened, or the process dies.   *)
Strike(q) == struck' = struck \cup {q}

Send(q) == sent' = [sent EXCEPT ![q] = @ + 1]

Fresh(step, attempt) ==
  [step |-> step, attempt |-> attempt, worker |-> NoWorker,
   asked |-> "first", status |-> "none"]

(* The handler returns or throws; its locals are gone.                     *)
End(q) ==
  /\ req'  = [req EXCEPT ![q] = Fresh("done", 0)]
  /\ sent' = [sent EXCEPT ![q] = 0]

(* attempt += 1, or the end of the loop.                                   *)
NextAttempt(q) ==
  IF req[q].attempt = 0
  THEN /\ req'  = [req EXCEPT ![q] = Fresh("acquire", 1)]
       /\ sent' = [sent EXCEPT ![q] = 0]
  ELSE End(q)

-----------------------------------------------------------------------------
(* Acquiring: acquireCompatible, launchAndClaim, waitForCapacity.          *)

(* The body is parsed and validated, the rate limit and the model checked. *)
Accept(q) ==
  /\ req[q].step = "idle"
  /\ Goto(q, "acquire")
  /\ UNCHANGED << lease, door, sent, struck >>

Reject(q) ==
  /\ req[q].step = "idle"
  /\ End(q)
  /\ UNCHANGED << lease, door, struck >>

(* Mutant: a fenced worker is taken back into service.                     *)
TakeSlot_Fenced(q, w) ==
  /\ req[q].step = "acquire"
  /\ Cardinality(Seated(w)) < Capacity
  /\ SetLease(Current(q), "held", w)
  /\ door' = [door EXCEPT ![w] = "open"]
  /\ UNCHANGED sent

(* A slot of a worker in service, or the first slot of a new one.          *)
TakeSlot(q, w) ==
  /\ req[q].step = "acquire"
  /\ \/ door[w] = "open" /\ Cardinality(Seated(w)) < Capacity
     \/ door[w] = "unbuilt"
  /\ SetLease(Current(q), "held", w)
  /\ door' = [door EXCEPT ![w] = "open"]
  /\ UNCHANGED sent

Acquire(q, w) ==
  /\ TakeSlot(q, w)
  /\ req' = [req EXCEPT ![q].step = "token", ![q].worker = w]
  /\ UNCHANGED struck

(* The claim or the registration committed, but the call throws: the       *)
(* handler knows of no instance.                                           *)
AcquireLost(q, w) ==
  /\ "acquire" \in Faults
  /\ TakeSlot(q, w)
  /\ Goto(q, "caught")
  /\ Strike(q)

AcquireThrows(q) ==
  /\ "acquire" \in Faults
  /\ req[q].step = "acquire"
  /\ Goto(q, "caught")
  /\ UNCHANGED << lease, door, sent, struck >>

(* No capacity after all waiting: an HttpError, which ends the loop.       *)
AcquireBusy(q) ==
  /\ req[q].step = "acquire"
  /\ End(q)
  /\ UNCHANGED << lease, door, struck >>

-----------------------------------------------------------------------------
(* Invoking the worker.                                                    *)

EnsureToken(q) ==
  /\ req[q].step = "token"
  /\ Goto(q, "invoke")
  /\ UNCHANGED << lease, door, sent, struck >>

Invoke(q) ==
  /\ req[q].step = "invoke"
  /\ Send(q)
  /\ \E status \in Status \ {"none"} :
       req' = [req EXCEPT ![q].step = "judge", ![q].status = status]
  /\ UNCHANGED << lease, door, struck >>

(* The token cannot be had, the fetch fails, or the deadline aborts it.    *)
InvokeThrows(q) ==
  /\ "invoke" \in Faults
  /\ req[q].step \in {"token", "invoke"}
  /\ IF req[q].step = "invoke" THEN Send(q) ELSE UNCHANGED sent
  /\ Goto(q, "caught")
  /\ UNCHANGED << lease, door, struck >>

(* A 403 refreshes the token by force, and only the first answer may.      *)
Refresh(q) ==
  /\ req[q].step = "judge"
  /\ req[q].status = "403"
  /\ req[q].asked = "first"
  /\ req' = [req EXCEPT ![q].step = "token", ![q].asked = "refreshed"]
  /\ UNCHANGED << lease, door, sent, struck >>

(* Mutant: the lease is given back before the worker is asked again.       *)
AskAgain_Unleased(q) ==
  /\ req[q].step = "judge"
  /\ req[q].status = "busy"
  /\ req[q].asked # "again"
  /\ req' = [req EXCEPT ![q].step = "invoke", ![q].asked = "again"]
  /\ SetLease(Current(q), "released", req[q].worker)
  /\ UNCHANGED << door, sent, struck >>

(* A busy answer, after a pause: the same worker under the same lease.     *)
AskAgain(q) ==
  /\ req[q].step = "judge"
  /\ req[q].status = "busy"
  /\ req[q].asked # "again"
  /\ req' = [req EXCEPT ![q].step = "invoke", ![q].asked = "again"]
  /\ UNCHANGED << lease, door, sent, struck >>

(* The answer that counts; what follows depends on its kind only.          *)
Final(q) ==
  /\ req[q].step = "judge"
  /\ ~(req[q].status = "403" /\ req[q].asked = "first")
  /\ ~(req[q].status = "busy" /\ req[q].asked # "again")

Settle(q) ==
  /\ Final(q)
  /\ req' = [req EXCEPT
       ![q].step = CASE req[q].status = "gone" -> "fail"
                     [] req[q].status = "200"  -> "stream"
                     [] OTHER                  -> "body",
       ![q].asked = "first", ![q].status = "none"]
  /\ UNCHANGED << lease, door, sent, struck >>

-----------------------------------------------------------------------------
(* Giving the lease back.                                                  *)

(* registry.fail never throws: its fallbacks swallow their errors, and     *)
(* then the fence, the lease row or both may have been left as they were.  *)
Fail(q) ==
  /\ req[q].step = "fail"
  /\ \/ /\ door' = [door EXCEPT ![req[q].worker] = "closed"]
        /\ SetLease(Current(q), "failed", req[q].worker)
        /\ UNCHANGED struck
     \/ /\ "fail" \in Faults
        /\ door' \in {door, [door EXCEPT ![req[q].worker] = "closed"]}
        /\ SetLease(Current(q), "failed", req[q].worker) \/ UNCHANGED lease
        /\ Strike(q)
  /\ NextAttempt(q)

(* registry.release, whose errors the caller logs and swallows.            *)
Release(q) ==
  \/ SetLease(Current(q), "released", req[q].worker) /\ UNCHANGED struck
  \/ "release" \in Faults /\ UNCHANGED lease /\ Strike(q)

(* Mutant: an error answer is returned without the release.                *)
AnswerError_KeepsLease(q) ==
  /\ req[q].step = "body"
  /\ End(q)
  /\ UNCHANGED << lease, door, struck >>

(* The worker's error is the client's answer.                              *)
AnswerError(q) ==
  /\ req[q].step = "body"
  /\ Release(q)
  /\ End(q)
  /\ UNCHANGED door

(* The body cannot be read, or a 200 has none.                             *)
BodyThrows(q) ==
  /\ req[q].step \in {"body", "stream"}
  /\ Goto(q, "caught")
  /\ UNCHANGED << lease, door, sent, struck >>

(* The catch block: what was acquired is released, then the second attempt *)
(* or the error.                                                           *)
Caught(q) ==
  /\ req[q].step = "caught"
  /\ \/ req[q].worker # NoWorker /\ Release(q)
     \/ req[q].worker = NoWorker /\ UNCHANGED << lease, struck >>
  /\ NextAttempt(q)
  /\ UNCHANGED door

(* The streaming handler copies the body; however that ends, its finally   *)
(* block calls cleanup.                                                    *)
CopyStream(q) ==
  /\ req[q].step = "stream"
  /\ Goto(q, "cleanup")
  /\ UNCHANGED << lease, door, sent, struck >>

(* HttpResponseStream.from throws before the try block begins.             *)
OpenStreamThrows(q) ==
  /\ "stream" \in Faults
  /\ req[q].step = "stream"
  /\ End(q)
  /\ Strike(q)
  /\ UNCHANGED << lease, door >>

Cleanup(q) ==
  /\ req[q].step = "cleanup"
  /\ Release(q)
  /\ End(q)
  /\ UNCHANGED door

Kill(q) ==
  /\ "kill" \in Faults
  /\ req[q].step \notin {"idle", "done"}
  /\ End(q)
  /\ Strike(q)
  /\ UNCHANGED << lease, door >>

-----------------------------------------------------------------------------
(* The registry on its own: it recovers the lease of a request that is     *)
(* over (leases last as long as a Lambda can run), and closes workers that *)
(* nobody uses.                                                            *)

LeaseExpires(l) ==
  /\ lease[l].status = "held"
  /\ req[l[1]].step = "done"
  /\ SetLease(l, "released", lease[l].worker)
  /\ UNCHANGED << req, door, sent, struck >>

WorkerExpires(w) ==
  /\ door[w] = "open"
  /\ Seated(w) = {}
  /\ door' = [door EXCEPT ![w] = "closed"]
  /\ UNCHANGED << req, lease, sent, struck >>

-----------------------------------------------------------------------------
Init ==
  /\ req   = [q \in Requests |-> Fresh("idle", 0)]
  /\ lease = [l \in Leases |-> [status |-> "none", worker |-> NoWorker]]
  /\ door  = [w \in Workers |-> "unbuilt"]
  /\ sent  = [q \in Requests |-> 0]
  /\ struck = {}

Handler(q) ==
  \/ \E w \in Workers : Acquire(q, w) \/ AcquireLost(q, w)
  \/ AcquireThrows(q) \/ AcquireBusy(q)
  \/ EnsureToken(q) \/ Invoke(q) \/ InvokeThrows(q) \/ Refresh(q)
  \/ AskAgain(q) \/ Settle(q) \/ Fail(q) \/ AnswerError(q) \/ BodyThrows(q)
  \/ Caught(q) \/ CopyStream(q) \/ OpenStreamThrows(q) \/ Cleanup(q)
  \/ Kill(q)

Next ==
  \/ \E q \in Requests : Accept(q) \/ Reject(q) \/ Handler(q)
  \/ \E l \in Leases : LeaseExpires(l)
  \/ \E w \in Workers : WorkerExpires(w)

Spec == Init /\ [][Next]_vars

-----------------------------------------------------------------------------
(* Safety.                                                                 *)

(* A worker is called only under a lease on it, also after a token refresh *)
(* and after a busy answer: the pool's capacity bounds the upstream calls. *)
InvokedUnderLease ==
  \A q \in Requests :
    req[q].step \in {"token", "invoke", "judge", "stream", "cleanup"} =>
      lease[Current(q)] = [status |-> "held", worker |-> req[q].worker]

(* A request that is over has given back every lease it took, on every     *)
(* path of both attempts; only a request that was struck leaves a lease to *)
(* the lifecycle, whatever happened to the others.                         *)
NoLeaseLeft ==
  \A l \in Leases :
    lease[l].status = "held" /\ req[l[1]].step = "done" => l[1] \in struck

(* Of a request that was not struck the first lease is gone before the     *)
(* second is taken.                                                        *)
OneLeaseAtATime ==
  \A q \in Requests \ struck :
    lease[<< q, 0 >>].status = "held" => lease[<< q, 1 >>].status = "none"

(* What the gateway does to the registry is what SlotPool allows: slots    *)
(* are entered one by one below capacity and left at most once.            *)
Inside(w) == IF door[w] = "open" THEN Seated(w) ELSE {}

Slots == INSTANCE SlotPool WITH
  Requests  <- Leases,
  Instances <- Workers,
  inside    <- [w \in Workers |-> Inside(w)]

UsesSlots == Slots!SlotSpec

=============================================================================
