----------------------------- MODULE GcpGateway -----------------------------
(***************************************************************************)
(* The request path of the GCP gateway (app/gcp/gateway.py): what is       *)
(* refused before any work is done, then the ID token (IdTokens) and the   *)
(* call of the worker under one deadline, the answer to the client and the *)
(* audit log.                                                              *)
(*                                                                         *)
(* The rate limiter is RateLimiter; here it lets a request pass or not.    *)
(***************************************************************************)
EXTENDS IdTokens

CONSTANTS
  Models,     (* Entries of the config.yaml in the image.                  *)
  Url,        (* WORKER_URL_<name> of each entry, from Terraform, or None. *)
  Deadline,   (* WORKER_TIMEOUT_SECONDS.                                   *)
  Refusals,   (* What verify_api_key (500, 401), the validation of the     *)
              (* body (422) and _check_rate_limit (429) refuse with.       *)
  Statuses,   (* What workers answer with.                                 *)
  None        (* No URL, no answer yet.                                    *)

ASSUME UrlAssumption == Url \in [Models -> Audiences \cup {None}]
ASSUME DeadlineAssumption == Deadline \in Nat \ {0}
ASSUME StatusAssumption ==
  /\ Refusals \subseteq Nat /\ Statuses \subseteq Nat /\ None \notin Nat

VARIABLES
  admitted,   (* When each request was admitted; None if it never was, 0   *)
              (* once it is answered.                                      *)
  answer,     (* The status that its client got, or None.                  *)
  audit       (* The statuses logged for it, in order.                     *)

gatewayVars == << admitted, answer, audit >>

Requests == Tasks \ Prefetch

(* _load_model_registry: entries without a worker URL are left out.        *)
Registry == {m \in Models : Url[m] # None}

-----------------------------------------------------------------------------
Reply(r, status) == answer' = [answer EXCEPT ![r] = status]

(* _audit_log.                                                             *)
Log(r, status) == audit' = [audit EXCEPT ![r] = Append(@, status)]

(* Whoever passes these checks may still ask for an unknown model.         *)
Refuse(r, status) ==
  /\ task[r].step = "idle" /\ Started(r)
  /\ task' = [task EXCEPT ![r] = Done(r)]
  /\ Reply(r, status)
  /\ IF status = 400 THEN Log(r, status) ELSE UNCHANGED audit
  /\ UNCHANGED << clock, tokens, holder, waiters, unavailable, granted, admitted >>

(* create_embeddings runs up to the lock of the token without an await.    *)
(* Requests are explored only as long as their deadline can be reached.    *)
Admit(r) ==
  /\ clock + Deadline <= MaxClock
  /\ Lookup(r)
  /\ admitted' = [admitted EXCEPT ![r] = clock]
  /\ UNCHANGED << answer, audit >>

-----------------------------------------------------------------------------
(* The deadline covers the token and the call.                             *)

(* Mutant: the deadline does not cover the token.                          *)
Due_CallOnly(r) ==
  task[r].step = "posting" /\ clock >= admitted[r] + Deadline

Due(r) ==
  /\ task[r].step \in {"waiting", "fetching", "posting"}
  /\ clock >= admitted[r] + Deadline

(* Mutant: a 504 is not audited.                                           *)
Audited_NoTimeout(r, status) ==
  IF status = 504 THEN UNCHANGED audit ELSE Log(r, status)

Audited(r, status) == Log(r, status)

Answered(r, status) ==
  /\ Reply(r, status)
  /\ Audited(r, status)
  /\ admitted' = [admitted EXCEPT ![r] = 0]

(* The worker's status is passed on; a request that timed out is a 504 and *)
(* one that could not be sent a 502.                                       *)
Forward(r) ==
  /\ Post(r)
  /\ \E status \in Statuses \cup {502, 504} : Answered(r, status)

(* asyncio.timeout cancels whatever the request waits for.                 *)
TimeOut(r) ==
  /\ Due(r)
  /\ DeadlinePasses(r)
  /\ Answered(r, 504)

-----------------------------------------------------------------------------
Time == Tick /\ UNCHANGED gatewayVars

(* lifespan: the prefetch asks for the audience of every entry; the model  *)
(* of an admitted request is one of them.                                  *)
GatewayInit ==
  /\ Init
  /\ {task[t].audience : t \in Prefetch} = {Url[m] : m \in Registry}
  /\ \A r \in Requests : \E m \in Registry : task[r].audience = Url[m]
  /\ admitted = [r \in Requests |-> None]
  /\ answer   = [r \in Requests |-> None]
  /\ audit    = [r \in Requests |-> << >>]

Tokens ==
  \/ \E t \in Prefetch : Lookup(t)
  \/ \E t \in Tasks : Enter(t) \/ Fetched(t) \/ FetchFails(t)
  \/ PrefetchTimesOut

GatewayNext ==
  \/ \E r \in Requests :
       \/ Admit(r) \/ Forward(r) \/ TimeOut(r)
       \/ \E status \in Refusals \cup {400} : Refuse(r, status)
  \/ Tokens /\ UNCHANGED gatewayVars
  \/ Time

allVars == << vars, gatewayVars >>

GatewaySpec == GatewayInit /\ [][GatewayNext]_allVars

-----------------------------------------------------------------------------
(* Safety.                                                                 *)

(* A request past the rate limit leaves exactly one audit entry, with the  *)
(* status that its client gets, whichever of deadline, transport error and *)
(* answer comes first.                                                     *)
AuditMatchesAnswer ==
  \A r \in Requests :
    /\ audit[r] # << >> => audit[r] = << answer[r] >>
    /\ answer[r] # None /\ (admitted[r] # None \/ answer[r] = 400)
         => audit[r] = << answer[r] >>

(* "Emit structured audit log entry for every API call": not what the code *)
(* does for calls that it refuses before it looks the model up.            *)
EveryCallAudited ==
  \A r \in Requests : answer[r] # None => audit[r] = << answer[r] >>

-----------------------------------------------------------------------------
(* Liveness.                                                               *)

(* The event loop runs whoever can run, and a metadata request ends by the *)
(* timeout of its client.                                                  *)
LoopRuns ==
  \A t \in Tasks :
    WF_allVars((Enter(t) \/ Fetched(t) \/ FetchFails(t)) /\ UNCHANGED gatewayVars)

(* Time goes on, and a timer that has expired fires.                       *)
TimersFire == WF_allVars(Time) /\ \A r \in Requests : WF_allVars(TimeOut(r))

(* A task that waits for a lock gets its turn, or is cancelled, even if no *)
(* deadline ever helps it: nobody who was cancelled blocks the queue.      *)
WaitersProceed ==
  LoopRuns => \A t \in Tasks : task[t].step = "waiting" ~> task[t].step # "waiting"

(* "This deadline also bounds token acquisition, pool waits, and the full  *)
(* response transfer": the deadline alone answers an admitted request,     *)
(* also when it queues behind the metadata call of another, and neither    *)
(* that call nor its own worker ever ends.                                 *)
DeadlineAnswers ==
  TimersFire => \A r \in Requests : admitted[r] # None ~> answer[r] # None

=============================================================================
