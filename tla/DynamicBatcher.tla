--------------------------- MODULE DynamicBatcher ---------------------------
(***************************************************************************)
(* The dynamic batcher of the MicroVM worker (app/aws/microvm/server.py):  *)
(* handler threads put jobs into a bounded queue and wait; one batcher     *)
(* thread takes jobs off the queue, coalesces them up to a number of items *)
(* within a short window, encodes the batch under the inference lock and   *)
(* hands every job its slice of the result.  A job that does not fit is    *)
(* deferred to the next batch.                                             *)
(*                                                                         *)
(* A job names its handler thread; its item k is << job, k >>, and the     *)
(* model's answer for an item is the item itself.                          *)
(***************************************************************************)
EXTENDS Naturals, FiniteSets, SequencesExt

CONSTANTS
  Jobs,         (* One job per handler thread.                             *)
  Items(_),     (* len(job.texts), at least 1: an empty request has no job.*)
  Validators,   (* Threads that serve the /validate hook.                  *)
  QueueSize,    (* maxsize of the queue (64).                              *)
  MaxItems,     (* DYNAMIC_BATCH_MAX_ITEMS.                                *)
  Faults,       (* A subset of FaultKinds.                                 *)
  Idle          (* Nobody holds the inference lock.                        *)

(* "encode": the model raises; "timeout": a handler gives up waiting.      *)
FaultKinds == {"encode", "timeout"}

Batcher == "batcher"

ASSUME JobsAssumption == IsFiniteSet(Jobs) /\ \A j \in Jobs : Items(j) \in Nat \ {0}
ASSUME SizesAssumption == QueueSize \in Nat \ {0} /\ MaxItems \in Nat \ {0}
ASSUME FaultsAssumption == Faults \subseteq FaultKinds

VARIABLES
  handler,    (* What each handler thread does.                            *)
  queue,      (* The queue of jobs.                                        *)
  deferred,   (* The deferred job, in a sequence of at most one.           *)
  batch,      (* `jobs` of the batcher thread.                             *)
  phase,      (* Where the batcher thread is.                              *)
  job,        (* The result slot of each job and its completed event.      *)
  lock,       (* The holder of _INFERENCE_LOCK.                            *)
  validated,  (* Validate hooks that were served.                          *)
  accepted,   (* History: jobs in the order they entered the queue.        *)
  started     (* History: jobs in the order they entered a batch.          *)

vars == << handler, queue, deferred, batch, phase, job, lock, validated,
           accepted, started >>

(* All items of a sequence of jobs, in order: `flattened`.                 *)
Flatten(jobs) ==
  FlattenSeq([n \in DOMAIN jobs |->
    [k \in 1 .. Items(jobs[n]) |-> << jobs[n], k >>]])

ItemCount(jobs) == Len(Flatten(jobs))

-----------------------------------------------------------------------------
(* Handler threads: encode.                                                *)

Put(j) ==
  /\ handler[j] = "idle"
  /\ Len(queue) < QueueSize
  /\ queue' = Append(queue, j)
  /\ accepted' = Append(accepted, j)
  /\ handler' = [handler EXCEPT ![j] = "waiting"]
  /\ UNCHANGED << deferred, batch, phase, job, lock, validated, started >>

(* queue.Full after one second of waiting for room.                        *)
PutFails(j) ==
  /\ handler[j] = "idle"
  /\ Len(queue) = QueueSize
  /\ handler' = [handler EXCEPT ![j] = "full"]
  /\ UNCHANGED << queue, deferred, batch, phase, job, lock, validated,
                  accepted, started >>

Return(j) ==
  /\ handler[j] = "waiting"
  /\ job[j].completed
  /\ handler' = [handler EXCEPT ![j] = IF job[j].error THEN "error"
                                       ELSE "answered"]
  /\ UNCHANGED << queue, deferred, batch, phase, job, lock, validated,
                  accepted, started >>

(* The job stays where it is, and is encoded all the same.                 *)
TimeOut(j) ==
  /\ "timeout" \in Faults
  /\ handler[j] = "waiting"
  /\ ~job[j].completed
  /\ handler' = [handler EXCEPT ![j] = "timeout"]
  /\ UNCHANGED << queue, deferred, batch, phase, job, lock, validated,
                  accepted, started >>

-----------------------------------------------------------------------------
(* The batcher thread: _run and _collect.                                  *)

(* Mutant: the queue is served before the deferred job.                    *)
TakeFirst_QueueFirst ==
  /\ phase = "get"
  /\ \/ /\ queue # << >>
        /\ batch' = << Head(queue) >>
        /\ queue' = Tail(queue)
        /\ UNCHANGED deferred
     \/ /\ queue = << >> /\ deferred # << >>
        /\ batch' = deferred
        /\ deferred' = << >>
        /\ UNCHANGED queue
  /\ started' = started \o batch'
  /\ phase' = "collect"
  /\ UNCHANGED << handler, job, lock, validated, accepted >>

TakeFirst ==
  /\ phase = "get"
  /\ \/ /\ deferred # << >>
        /\ batch' = deferred
        /\ deferred' = << >>
        /\ UNCHANGED queue
     \/ /\ deferred = << >> /\ queue # << >>
        /\ batch' = << Head(queue) >>
        /\ queue' = Tail(queue)
        /\ UNCHANGED deferred
  /\ started' = started \o batch'
  /\ phase' = "collect"
  /\ UNCHANGED << handler, job, lock, validated, accepted >>

Fits(j) == ItemCount(batch) + Items(j) <= MaxItems

Coalesce ==
  /\ phase = "collect"
  /\ ItemCount(batch) < MaxItems
  /\ queue # << >>
  /\ Fits(Head(queue))
  /\ batch' = Append(batch, Head(queue))
  /\ queue' = Tail(queue)
  /\ started' = Append(started, Head(queue))
  /\ UNCHANGED << handler, deferred, phase, job, lock, validated,
                  accepted >>

(* The batch is closed by taking a job that does not fit.                  *)
Defer ==
  /\ phase = "collect"
  /\ ItemCount(batch) < MaxItems
  /\ queue # << >>
  /\ ~Fits(Head(queue))
  /\ deferred' = << Head(queue) >>
  /\ queue' = Tail(queue)
  /\ phase' = "ready"
  /\ UNCHANGED << handler, batch, job, lock, validated, accepted, started >>

(* The window closes, or the batch is full.                                *)
Close ==
  /\ phase = "collect"
  /\ phase' = "ready"
  /\ UNCHANGED << handler, queue, deferred, batch, job, lock, validated,
                  accepted, started >>

TakeLock ==
  /\ phase = "ready"
  /\ lock = Idle
  /\ phase' = "locked" /\ lock' = Batcher
  /\ UNCHANGED << handler, queue, deferred, batch, job, validated, accepted,
                  started >>

(* The rows from `offset` on that belong to the n-th job of the batch.     *)
Offset(jobs, n) == ItemCount(SubSeq(jobs, 1, n - 1))

(* Mutant: offset is not advanced by the items of the earlier jobs.        *)
Slice_ByJob(jobs, n) ==
  SubSeq(Flatten(jobs), n, n + Items(jobs[n]) - 1)

Slice(jobs, n) ==
  SubSeq(Flatten(jobs), Offset(jobs, n) + 1, Offset(jobs, n) + Items(jobs[n]))

(* MODEL.encode returns: the lock is released, every job gets its rows.    *)
Encode ==
  /\ phase = "locked"
  /\ job' = [j \in Jobs |->
       IF \E n \in DOMAIN batch : batch[n] = j
       THEN [job[j] EXCEPT !.rows = Slice(batch, CHOOSE n \in DOMAIN batch :
                                                   batch[n] = j)]
       ELSE job[j]]
  /\ phase' = "publish" /\ lock' = Idle
  /\ UNCHANGED << handler, queue, deferred, batch, validated, accepted,
                  started >>

(* It raises: every job of the batch gets the error.                       *)
EncodeFails ==
  /\ "encode" \in Faults
  /\ phase = "locked"
  /\ job' = [j \in Jobs |-> IF j \in ToSet(batch)
                            THEN [job[j] EXCEPT !.error = TRUE] ELSE job[j]]
  /\ phase' = "publish" /\ lock' = Idle
  /\ UNCHANGED << handler, queue, deferred, batch, validated, accepted,
                  started >>

(* Mutant: only the jobs of a batch that succeeded are woken.              *)
Publish_OnSuccess ==
  /\ phase = "publish"
  /\ job' = [j \in Jobs |-> IF j \in ToSet(batch) /\ ~job[j].error
                            THEN [job[j] EXCEPT !.completed = TRUE] ELSE job[j]]
  /\ batch' = << >>
  /\ phase' = "get"
  /\ UNCHANGED << handler, queue, deferred, lock, validated, accepted,
                  started >>

(* The finally block sets every event of the batch.                        *)
Publish ==
  /\ phase = "publish"
  /\ job' = [j \in Jobs |-> IF j \in ToSet(batch)
                            THEN [job[j] EXCEPT !.completed = TRUE] ELSE job[j]]
  /\ batch' = << >>
  /\ phase' = "get"
  /\ UNCHANGED << handler, queue, deferred, lock, validated, accepted,
                  started >>

-----------------------------------------------------------------------------
(* A thread that serves the /validate hook encodes one text of its own.    *)
Validate(v) ==
  /\ v \notin validated
  /\ lock = Idle
  /\ lock' = v
  /\ validated' = validated \cup {v}
  /\ UNCHANGED << handler, queue, deferred, batch, phase, job, accepted,
                  started >>

ValidateEnds(v) ==
  /\ lock = v
  /\ lock' = Idle
  /\ UNCHANGED << handler, queue, deferred, batch, phase, job, validated,
                  accepted, started >>

-----------------------------------------------------------------------------
Init ==
  /\ handler = [j \in Jobs |-> "idle"]
  /\ queue = << >> /\ deferred = << >> /\ batch = << >>
  /\ phase = "get"
  /\ job = [j \in Jobs |-> [rows |-> << >>, error |-> FALSE,
                            completed |-> FALSE]]
  /\ lock = Idle /\ validated = {}
  /\ accepted = << >> /\ started = << >>

HandlerStep(j) == Put(j) \/ PutFails(j) \/ Return(j) \/ TimeOut(j)

BatcherStep ==
  \/ TakeFirst \/ Coalesce \/ Defer \/ Close \/ TakeLock
  \/ Encode \/ EncodeFails \/ Publish

Next ==
  \/ \E j \in Jobs : HandlerStep(j)
  \/ BatcherStep
  \/ \E v \in Validators : Validate(v) \/ ValidateEnds(v)

Spec == Init /\ [][Next]_vars

(* Threads are scheduled: a woken handler returns, the batcher thread runs *)
(* whenever it can, and a model call comes to an end.                      *)
FairSpec ==
  /\ Spec
  /\ WF_vars(BatcherStep)
  /\ \A j \in Jobs : WF_vars(Return(j))
  /\ \A v \in Validators : WF_vars(ValidateEnds(v))

-----------------------------------------------------------------------------
(* Safety.                                                                 *)

(* Every accepted job is in a batch, deferred or in the queue, exactly     *)
(* once and in the order of acceptance: deferring neither loses, repeats   *)
(* nor overtakes a job.                                                    *)
NothingLost == accepted = started \o deferred \o queue

(* A handler that gets embeddings gets those of its own texts, all of them *)
(* and in order, whatever its job was batched with.                        *)
OwnRows ==
  \A j \in Jobs :
    handler[j] = "answered" =>
      job[j].rows = [k \in 1 .. Items(j) |-> << j, k >>]

-----------------------------------------------------------------------------
(* Liveness, under FairSpec.                                               *)

(* Every job that entered the queue is completed, with its rows or with    *)
(* the error of its batch, also when its handler gave up: the batcher      *)
(* thread never stops, and never forgets a deferred job.                   *)
JobsComplete ==
  \A j \in Jobs : j \in ToSet(accepted) ~> job[j].completed

=============================================================================
