# Specifications of any-embedding

TLA+ modules for the parts of *any-embedding* in which several actors share
state: the AWS backend's registry of MicroVM workers with its gateways and its
lifecycle service, the dynamic batcher inside a worker, the request path of the
GCP gateway with its token cache, the image and the instance of a GCP worker,
the GCP deploy script, and the pure decisions (tier routing, rate limiting) the
requests depend on.  `PROJECT.json` maps every definition to the source lines it
stands for.

Check one run with `tlc -config MCLeasePool.cfg MCLeasePool`, the proofs with
`tlapm LeasePoolProofs.tla` (and `LaunchPoolProofs`, `GatewayProofs`,
`DynamicBatcherProofs`, `GcpGatewayProofs`, `GcpWorkerProofs`, `GcpDeployProofs`,
`AdmissionProofs`).

## 1. The system

any-embedding serves text and image embeddings behind one HTTP contract, on two
backends.

```
AWS   client -> gateway Lambda(s) ----- invoke -----> MicroVM worker (server.py)
                   |   ^                                 one batching thread
      claim, release,  | rows                            one inference lock
      fail, launch     |
                   v   |
                DynamoDB table  -- TTL removals (stream) --> lifecycle Lambda
                                <-- reconcile, every 5 min --'  (terminates VMs)

GCP   client -> gateway (FastAPI, one event loop) -- ID token --> worker service
                                                        semaphore, thread pool
      checkout -> deploy.py -> images in the registry -> Terraform -> services
```

### Components, state, operations

| component (source) | state it keeps | operations | correct when |
|---|---|---|---|
| Worker registry, leases (`app/aws/gateway/pool.ts`) | INSTANCE rows (`state`, `status`, `in_flight`, soft and hard expiry), LEASE rows | `acquireCompatible`/`claimInstance`, `release`, `fail`, `ensureAuthToken` | each slot is returned exactly once; a worker never serves more leases than its capacity; a lease fits into its worker's lifetime |
| Worker registry, launches (`pool.ts`) | LOCK and RESERVATION rows, MicroVMs of the platform | `acquireLaunchLock`, `launchAndClaim`, `releaseLaunchLock`, `waitForCapacity` | the pool stays within `max_instances`; one survey at a time; no MicroVM is left behind, none is stopped while it is launched |
| Lifecycle service (`app/aws/lifecycle/service.ts`) | none of its own: it reads the table twice a sweep and decides on what it read; the stream's undelivered records | `processStream`, `recoverDeletedLease`, `reconcile`, `recoverLease`, `reconcileOrphans` | it returns what dead gateways hold, and spares what is in use |
| AWS gateway handler (`gateway/app.ts`, `gateway/index.ts`) | per request: attempt, worker, lease; per environment: `requestLog` | `invokeEmbedding`, `streamingHandler` | a worker is called under a lease only; every path gives the lease back before the next is taken |
| Tier routing (`app/aws/routing.ts`) | none (pure) | `workloadMetrics`, `tierAccepts`, `selectTier`, `predictRuntimeSeconds` | the cheapest tier that can run it is taken; the tier that serves can run it too, in no more time than was predicted |
| Rate limiters (`app.ts`, `app/gcp/gateway.py`) | times of recent requests per client | `checkRateLimit`; `_check_rate_limit`, `_sweep_request_log` | no window holds more than the limit, no request is refused below it |
| MicroVM control client (`gateway/microvms.ts`) | none | `launch`, `waitUntilRunning`, `waitUntilReady`, `invoke`, `list`, `terminate` | retries end and do not repeat a launch |
| Worker batching (`app/aws/microvm/server.py`) | queue, deferred job, running batch, inference lock | `encode`, `_collect`, `_run`, the validate hook | no job is lost, nobody gets another job's rows, every accepted job completes |
| GCP gateway, tokens (`app/gcp/gateway.py`) | tokens and locks per audience, common back-off | `get_token`, `_prefetch_id_tokens` | one refresh per audience at a time, and none while a token is good; a cancelled task blocks nobody |
| GCP gateway, requests (`app/gcp/gateway.py`) | per request: deadline, answer, audit entries | `create_embeddings`, `lifespan` | every admitted request is answered, by its deadline if by nothing else, and audited once, with the status its client got |
| GCP worker (`app/gcp/worker.py`) | model, semaphore, thread pool | `lifespan`, `get_model`, `embed` | the model is loaded once; no job waits for a thread; every accepted request is answered |
| GCP worker image (`app/gcp/download_model.py`) | none: a build | `build_ignore_patterns`, `localize_remote_code`, `_validate_local_modules` | what was built loads, offline too |
| GCP deployment (`deployment/gcp/deploy.py`, `main.tf`) | tags of images, Terraform state and its lock | `find_existing_images`, `build_images`, `unlock_stale_cloud_run_deletion_protection`, `run_terraform` | a successful apply is the checkout; reviewed images are the ones applied; no run undoes another; the gateway's URLs lead to workers |
| AWS deployment (`deployment/aws/scripts`) | approved plan and its manifest | publish, plan, approve, apply | not modelled |
| Contract, records, wiring, infrastructure, tooling | none | validation, parsing, declarations | not modelled: pure or I/O |

### How they interact

* Gateways never talk to each other.  They meet in DynamoDB, where each write
  carries a condition on the row; a *transaction* writes the instance and the
  lease row together.  What a gateway read earlier (candidates, clock) may be
  stale when its write commits.
* A row that expires stays readable until DynamoDB's TTL removes it, at any
  later time; a removal produces a stream record which the lifecycle service
  gets at least once, or, after its retries, never.
* The reconciliation reads the table, and then works through what it read, item
  by item, while the gateways go on.
* In a worker, handler threads and the batching thread share a bounded queue;
  the batching thread and the validate hook share one lock.
* The GCP gateway is one event loop: tasks interleave at `await` only, and each
  `await` may be where a task is cancelled.
* A GCP worker's event loop hands jobs to a thread pool of `WORKER_CONCURRENCY`
  threads; encodes also take a permit.  A client that gives up frees its place
  at Cloud Run but neither its thread nor its permit.
* Runs of `deploy.py` meet in the registry's tags, in the Terraform state (which
  they read and push without holding its lock) and in the checkout they read.

### What is hard

Interleavings of conditional writes with stale reads; steps that commit but
whose answer is lost; clean-up sequences of which any call may fail; gateways
that die with a lease, a lock or a half-launched MicroVM; leases and locks that
are timed; a sweep that acts on an old scan; asyncio's lock handover under
cancellation; a carried-over job next to a queue; a deadline that races the
answer; jobs of two kinds on one thread pool; a state file that is read, edited
and written back while somebody else applies; images whose inputs change between
the hash and the build; an apply that stops half way.  `PROJECT.json` lists these
at their lines under `hazards`, with the properties aimed at each.

## 2. Modules

| module | models | composition |
|---|---|---|
| `SlotPool` | the abstract promise of the registry: workers as rooms of `Capacity` slots, entered and left one by one, closed once and for ever | abstract specification |
| `LeasePool` | registry leases + lifecycle service + TTL and stream + platform | implements `SlotPool` (`ImplementsSlots`) |
| `LeaseHistory` | a history of `LeasePool`: the workers that a late claim revived after a sweep had selected them | extends `LeasePool` |
| `LaunchPool` | `launchAndClaim` with lock, survey, reservation, MicroVM, registration + lifecycle service + TTL + platform; workers in service appear by what matters to a survey | shares the lifecycle's structure with `LeasePool` |
| `Gateway` | the attempts of `invokeEmbedding` and the stream around the registry's interface | uses `SlotPool` (`UsesSlots`) |
| `DynamicBatcher` | handler threads, batching thread, validate hook | |
| `IdTokens` | `_IDTokenProvider`, prefetch, cancellation | |
| `GcpGateway` | `create_embeddings`: refusals, deadline, answers, audit log | extends `IdTokens`, which takes its steps inside `GatewayNext` |
| `ModelImage` | the build of a worker's image and what loading it needs | pure |
| `GcpWorker` | build, boot and requests of one worker instance | extends `ModelImage` |
| `GcpDeploy` | overlapping runs of `deploy.py`, with registry, Terraform and lock | |
| `TierRouting` | the pure routing decision, then the worker that serves it | |
| `RateLimiter` | both limiters, fed with the same requests | |
| `LeasePoolProofs`, `LaunchPoolProofs`, `GatewayProofs`, `DynamicBatcherProofs`, `GcpGatewayProofs`, `GcpWorkerProofs`, `GcpDeployProofs` | theorems about the module each is named after | extend it and `TLAPS` |
| `AdmissionProofs` | theorems about what is decided before a worker is called: `RateLimiter` and `TierRouting` | extends both and `TLAPS` |
| `MC*` | small instances for TLC: symmetry sets, item sizes, tiers | `MCAdmission` runs `RateLimiter` and `TierRouting` side by side |

`SlotPool` is what ties the AWS modules together: `LeasePool` shows that the
mechanism implements it, `Gateway` shows that the handler uses it only as it
allows.

### LeasePool

`inst` and `lease` are the rows.  A lease row's `status` says what has become of
the slot it stands for: `row` (in the table), `queued` (removed by TTL, its
stream record undelivered), `returned`/`recovered` (somebody gave the slot
back), `lost` (removed without anybody giving it back).  Rows that are removed
keep what the model needs to state properties.  A request (`req`) is the pair
of an acquisition and its end: `claim` and `hold`, then `markIdle` and
`dropLease` for a release that has not finished, or `fence`, `dropFailed` and
`terminate` for a failure: one step for every call on the table that
`acquireCompatible`, `release` and `fail` make, each of which may fail if its
kind is in `Faults`; `Crash` ends the gateway between any two.  `now` is the
clock a request read before its queries, `MaxLag` bounds how late its claim
commits.  `LeaseHistory` adds `revived`, per sweep the workers that a claim with
an older clock brought back to life after the sweep had selected them as
expired: the code loses this race, and the history tells what it loses from
everything else.  `removals` and `marks` are undelivered stream work; `sweep[s]` is the
state of one reconciliation: what its scan saw and which item it is at.
A transaction is one action because DynamoDB makes it atomic; the status update
that follows a release, and every call of `fail`'s fallback, are actions of
their own because the code makes them so.

### LaunchPool

One `call` per invocation of `launchAndClaim`, stepping through `survey`,
`decide`, `launch`, `record`, `boot` and `register`, and through `undo`,
`unreserve` and `unlock` of its `catch` and `finally` blocks.  The reservation, the MicroVM and the instance row of a
call are named by the call.  An unconditional `UpdateItem` on a reservation
that was removed recreates it without an expiry (`husk`).  The survey is a
single query, so `active`, `pendingReservations` and the claimable workers are
computed from one state.  The lifecycle's three sources of terminations
(expired rows, stale reservations, orphans) are separate actions.  A request
that fails on a worker (`WorkerFails`) fences its row and stops it; each of the
two calls may fail unnoticed, so a row may stay READY over a stopped MicroVM.
`ClaimLag` bounds how much older than its commit the clock of a claim is, and
`revived` remembers the workers that such a claim brought back after they had
expired.

### Gateway

One `req` per invocation of the handler, with the locals of `invokeEmbedding`:
attempt, worker, what was asked of it last (the first call, the one after a
token refresh, the one after a busy answer) and the status of the answer.  A
call of the registry may throw before or after it committed.  `door` says which
worker is in service.  `sent` counts the upstream calls of the attempt that
runs.  `struck` is a history variable: the requests to which something happened
that the handler cannot make good (an acquisition that commits and throws, a
release that fails, a stream that cannot be opened, the end of the process).
The properties say that only these leave a lease behind.

### DynamicBatcher

`queue`, `deferred` and `batch` hold jobs; `phase` is where the batching thread
is.  A job's answer is the slice of rows the code cuts out of the model's
answer; rows are identified by the text they belong to, so an answer made of
other rows is visible.  A handler may time out at any time after it queued.

### IdTokens

A task is a request or one of the calls gathered by the prefetch.  `holder` and
`waiters` are asyncio's lock: it is handed to the first waiter, and a cancelled
waiter that was just woken passes it on.  Time moves by
ticks, at any moment, whoever is ready to run; a token's remaining lifetime is
chosen from `Lifetimes`, expired on arrival included.

### GcpGateway

`Refuse` is everything that ends a request before its token is looked up: the
key, the body, the rate limiter, and an unknown model, which alone is audited.
`Admit` is the code from there to the first `await`, the lookup of `IdTokens`.
`admitted` is when `asyncio.timeout` started; `Due` says that its timer may fire,
which may happen later, or after the answer has come.  `Forward` is the answer of the
worker, a transport error or the timeout of the HTTP client; `TimeOut` is the
deadline, which cancels the task wherever it waits.  `answer` and `audit` are
what the client and the log get; an entry and its answer are one step, because
`create_embeddings` does not `await` between them.

### ModelImage and GcpWorker

A repository is its weight files by directory and kind, its modules with what
they import, and the references of its `auto_map`.  `Built` and `BuildFails`
are `download_model.py`, an image without a model (`Empty`, no `MODEL_NAME`)
included; `Loads` is where the worker looks for the model and what
sentence-transformers, which is external, needs from it.  `Seen` is the worklist of `_validate_local_modules`,
`Needed` the smallest closed set it has to agree with.

`GcpWorker` takes one such repository from `Build` through `Lifespan` and
`Warmup` to requests.  `jobs` is the queue of the executor, `permits` and
`queue` the semaphore with its waiters, `Running` the busy threads.  A request
is `queued`, `preparing` (on a thread), `waiting` for a permit, `held` (a permit,
no thread yet), `encoding` and `done`.  `get_model` tests `_model` and assigns it
later without a lock, so a thread that finds no model is `loading` and counts
one more load when it ends.

### GcpDeploy

A run (`run[d]`) goes through `hash`, `images`, `pull`, `push`, `apply` and
`applying`.  `loaded` and `hashed` are what it read from the checkout at the two
times at which the code reads it; the build of an image and `main.tf` read the
checkout again.  A digest is the inputs an image was built from, so that "the
same digest" is "built from the same".  A service in the state is its image, the
models it is told of, its region, and the flags that decide whether Terraform
replaces it and may.  `lock` and `tf.serial` are Terraform's; `state push`
compares serials.  An apply destroys (`Destroy`) what is not wanted any more and
what it replaces, and creates or changes (`ApplyService`) what is wanted, one
service at a time, writing the state after each, in the order that `main.tf`'s
references impose: the gateway refers to the URLs of the workers, so it is
destroyed before and created or changed after them, and, as nothing has
`create_before_destroy`, a worker that is removed or replaced is destroyed before
the gateway is changed.  `Abort` kills a run anywhere
and may leave the lock behind, after which the other runs fail: the script never
breaks a lock.

### TierRouting

`workloadMetrics` and `predictRuntimeSeconds` are sums and quotients of small
numbers.  `Sorted` is the stable sort by `order`: the place of a tier is its
`Rank`, one more than the number of tiers with a lower order, or with the same
order and stored before it.  The served tier is any tier at or after the selected
one, because `acquireCompatible` takes any of those that has a worker.

### RateLimiter

Both limiters get the same checks at the same clock and are compared with one
reference, `PassesBelowLimit`.  `Prune` drops times from the front up to the first
that has not expired, as the loop does, not every expired time.  The GCP log
forgets clients in its sweep, which must not forget anybody too early.

## 3. Runs

### Leases

* `lease_pool`: two requests, one worker of two slots; every call may fail, a
  claim may commit a second after it read the clock, stream records may be
  redelivered or lost, gateways may die, and a reconciliation may skip items.
  `SlotsAccounted`: `in_flight` of a worker in service is the number of leases
  whose slot nobody returned.  `NoSlotLeak`: a slot of a worker in service is lost
  for good only with a dropped stream record or with a `fail` that could not
  fence its worker.  `AvailableIsFree`: a worker marked AVAILABLE counts no
  lease, although the mark is a write of its own (`pool.ts:689`) that a claim may
  precede.  `LeaseWithinExpiry`: a lease ends before its worker does.
  `LeaseHeldUntilExpiry`: nobody takes a lease away while its request may still
  work.  `ImplementsSlots`: each step is a step of `SlotPool` or a stutter.
* `lease_lifecycle`: one slot for two requests, whose claims may commit a second
  late: a worker never has more leases than slots (`WorkerNotOversubscribed`); no
  clean-up stops a worker under the lease of a request at work, except one that a
  late claim revived after the sweep had selected it (`LifecycleSparesLeases`, of
  `LeaseHistory`, whose excuse this run needs); and the sweep alone, without TTL or
  stream, reclaims the leases of dead gateways (`LeaseReclaimed`), clears BUSY
  flags (`BusyFlagCleared`) and stops fenced workers (`FailedWorkerStops`).

### Launches

* `launch_pool`: two calls, a pool of one, failing launches and clean-up,
  registrations whose answer is lost, fences that fail, and claims that commit a
  second after they read the clock.  `GrowsWithinMax` counts workers in service
  and launches under way, those aside that a late claim revived: launches alone
  never take the pool beyond `max_instances`.  `OneSurveyor`: no two calls are
  between their survey and their reservation.  `ReadyWorkerSpared`: the MicroVM of
  a READY row that has not expired is stopped only by a request that fails on it,
  by the undo of its own launch (a registration that committed and threw), or by
  a clean-up that a late claim overtook.  It does not say that a READY row names
  a running MicroVM: after a lost answer or a fence that failed the code leaves
  one that does not, until the row expires or the next call on it fails.
  `LaunchSpared`: no clean-up stops a MicroVM that is being launched.
* `launch_liveness`: wherever a call is interrupted, its reservation
  (`ReservationCleared`) and its MicroVM (`StrayWorkerStops`) are cleaned up.

### Requests

* `gateway`: two requests with two attempts each, three workers of one slot,
  every kind of failure.  `InvokedUnderLease`: a worker is called under a lease
  on it, also after a refresh or a busy answer.  `NoLeaseLeft`: every path of
  the handler gives its leases back.  `UsesSlots`: the handler's steps are steps of
  `SlotPool`.

### Workers, GCP, decisions

* `batcher`: three jobs of one, two and four items, a batch limit of three and a
  queue of one, so that jobs fill and exceed a batch, are carried over, and wait
  for room, with handlers that time out, failing model calls and the validate
  hook.  `NothingLost`: an accepted job is in the queue, carried over, in the
  batch or answered.  `OwnRows`: a handler gets the rows of its own items.
  `JobsComplete`: every accepted job is answered.
* `gcp_gateway`: three models, of which one has no worker, a prefetch of two
  audiences and two requests: refusals, failing metadata calls, tokens that are
  dead on arrival or expire later, slow workers, a deadline at any `await`.
  `NoFetchBeforeExpiry`: while a metadata call runs for an audience, every token
  it was ever given is due.  `AuditMatchesAnswer`: an admitted request, or one for
  an unknown model, leaves one audit entry, with the status its client got, and
  nobody has an entry that is not the answer.  `WaitersProceed`: no cancellation blocks those
  that wait, even if no deadline ever helps them; its premise is that the event
  loop runs tasks and metadata calls end (`LoopRuns`).  `DeadlineAnswers`: the
  deadline alone answers an admitted request, even if metadata calls and workers
  never end; its premise is that time passes and due timers fire (`TimersFire`).
* `gcp_worker`: some thousands of repositories of two directories of weights and
  three modules, then four requests on instances of one or three concurrent
  requests and one or two permits, with clients that give up.
  `BuiltImageLoads`: what was built loads, without the Hub too, except with no
  model at all, with code whose missing pin the build warns of, and, without a pinned repository, with
  modules that are incomplete at their origin.  `LoadedOnce`: `get_model` needs
  no lock, because the model is there before the port opens.
  `ThreadForEveryJob`: as long as nobody gives up, no job waits for a thread.
  `RequestsAnswered`: whoever gives up or fails before you, you are answered.
* `gcp_deploy`: two overlapping runs over a fresh, an old or a current
  deployment, each killed anywhere, with one edit of code, models or region at
  any time.  `SuccessIsCheckout`: if a run's apply succeeds and the checkout is
  what the run read, exactly that is deployed; images are left out if
  `--skip-build` was given or an edit came between a hash and a build that had
  not started (`rushed`).  `ReviewedIsApplied`: `--skip-build` takes the image
  of its inputs wherever there is one.  `ReplaceTargetsUnlocked`: what Terraform
  will replace is unprotected when the apply starts, tainted services included.
  `PushClearsFlagsOnly`: outside an apply, only flags change in the state.
  `NoDanglingRoute`: no step gives the gateway the URL of a worker that is not
  there; a worker goes from under its URL only in an apply that has the gateway
  still to change; and an apply that succeeds leaves no such URL.  An apply that
  fails or dies after it destroyed a worker does leave one until the next apply.
* `admission`: what is decided before a worker is called.  Two clients over nearly
  four windows: `PassesBelowLimit`: a check passes if and only if fewer than the
  limit passed in the window before it, in both limiters.  And all models of up
  to two tiers with all inputs of up to three items, compared with references
  written with quantifiers: `CheapestTier`, and `LentTierSuffices`: a later tier
  that lends its worker needs no more time than was predicted and, if limits grow
  with the order of tiers, accepts the input.

### Violations

Two runs have one property each and reach a state that a comment excludes
(`findings` in `PROJECT.json`):
* `launch_revived_worker` (`PoolWithinMax`): the comment at `pool.ts:582` says
  bursts grow to `max_instances` without racing; an expired idle worker, not
  counted by the survey, can be revived by a claim that read the clock a second
  earlier.
* `gcp_audit_gap` (`EveryCallAudited`): the docstring at `gateway.py:341` promises
  an audit entry for every API call; a call that the key check, the validation
  or the rate limiter refuses leaves none, and neither does `GET /v1/models`.

Other places where a property needs a premise that nothing in the code enforces;
changing the named constant in the cfg, or leaving out the named premise, shows
each of them:
* `LeaseWithinExpiry` fails with `MaxLag = 2` and `SoftTtl = 4` in `lease_pool` (and
  holds there with `MaxLag = 1`): the minimum hard
  expiry comes from the first clock read of an acquisition, the lease from a
  later one, and a headroom equal to the lease (which `lambda.tf:73` calls
  enough for a lease not to outlive its worker) leaves one second between them.
* `LeaseWithinExpiry` and `LifecycleSparesLeases` fail with `SoftTtl` below
  `LeaseSeconds`: a worker then expires, and is swept, under the lease that set its
  expiry.  Terraform accepts any `soft_ttl_seconds` from 60 on
  (`variables.tf:171`) next to a lease of 900.
* `LifecycleSparesLeases` fails without the excuse of `revived`: the sweep deletes
  without a condition (`service.ts:253`) what was expired when it scanned the
  table, although a claim with an older clock may have renewed it since.
* `events.tf:98` lists stale launch locks among what the schedule repairs;
  `reconcile` has no branch for them.  They recover because the next launch takes
  an expired lock over, so no property is lost.
* The comment at `routing.ts:67` calls the aggregate limits hard guards; a worker
  of a later tier is taken without looking at its limits.  `LentTierSuffices` without
  its premise `Monotone` fails in `admission`.
* `deploy.py` hashes the inputs of an image (line 516) and builds it later from
  the checkout as it is then (line 538): an edit in between ends up under the
  hash of the old inputs, and later runs reuse it.  `SuccessIsCheckout` fails
  without its premise `~rushed` and with `MaxEdits = 2`, an edit and its reversal.

Not a property, because it cannot hold: that a token is still valid when its
request reaches the worker.  `_cached_token` keeps a margin of 60 s
(`gateway.py:157`); the wait for a connection alone may take up to 120 s.  A
request that arrives too late gets the refusal of the worker, with its status.

Where documents and code differ without a property at stake:
* `deployment/aws/README.md:268` says a 429 of a worker releases the lease and
  retries another worker; the handler first asks the same worker again
  (`app.ts:170`), which `Gateway` has as the step after a busy answer.
* `README.md:284` says that a change of the configuration only builds no image;
  `config.yaml` is among the inputs of the gateway's image (`deploy.py:65`), which
  is built again.  `SuccessIsCheckout` needs this: its mutant that hashes without
  `config.yaml` leaves a gateway that does not know the deployed models.

### Bounds

* Actors: two requests or calls are what a race on one row needs.  One worker is
  enough for leases, as no condition relates two instance rows; three for the
  handler, as a request visits at most two and a second request needs one of its
  own.  One sweep at a time in the runs: two would need an event that lasts more
  than five minutes.  The theorems hold without any of these bounds.
* Time: seconds are scaled down, keeping the order of the durations in the code
  (lease <= headroom <= soft < hard; lock < reservation; a launch shorter than
  the orphan grace).  `MaxClock` lets a worker be born, used, expire and be swept;
  `MaxBirth`/`MaxStart` limit when workers are launched so that this happens
  within `MaxClock`.  `MaxLag`, `SurveyTime`, `LaunchTime` and `ClaimLag`
  say how long a step sequence may take; where a property depends on such a
  premise, the list above or section 4 says so.
* `Faults` chooses which calls may fail in a run.
* `GcpGateway`: two ticks of deadline, one of margin, two of back-off, in four; a token lives for three or is dead on arrival.  Two
  audiences and two requests, because a lock and a back-off are shared by two.
* `GcpWorker`: one and three concurrent requests, one and two permits, and one
  request more than places, so that one waits behind those that were given up.
* `GcpDeploy`: two symmetric runs, one model (gated, on a GPU), two regions of
  which one has GPUs, one edit.  The serial grows only with changes, of which
  these runs make finitely many.
* Deadlock is checked wherever a sweep keeps the system going, and not where
  all requests, jobs or tasks may simply be done.

### Fairness

`RequestProceeds`, `CallProceeds`, `BatcherStep`, `Enter`/`Fetched`: code that is
running goes on (weak fairness), but it may crash, which disables it.
`SweepStep`: the scheduler invokes the reconciliation every five minutes.
`Tick`: time passes; strong fairness, because a bound such as `MaxLag` makes the
clock wait while a step is due.  Nothing is assumed about TTL, the stream or a
crash, nor that a launch or the platform is quick, so the liveness results do
not depend on DynamoDB's best-effort removal.  For the batcher a model call ends,
well or badly.  `GcpGateway` states its fairness as the premise of each property,
because the two assume different things: `LoopRuns`, that tasks run and metadata
calls end (httpx bounds them), says nothing about deadlines, which are therefore
not what helps the waiters; `TimersFire`, that time passes and due timers fire,
says nothing about metadata calls or workers.  `Take`,
`Prepared` and `Encoded` of `GcpWorker`: threads run, downloads have timeouts and
encodes end; nothing is assumed about clients.

## 4. Proofs

The theorems hold for all values of the constants allowed by the modules' named
assumptions (finitely many requests; natural numbers for times; a capacity of at
least one; `NoVM`, `NoWorker` not workers; `None` not a status, not a run, not
what an image is built from nor a service; `Latest` not a hash).  Further
hypotheses are stated in the theorem and justified below.  Every invariant and
every action property that a passing run checks is also proved, `TypeOK` of
`LeasePool` included.

Two ways of arguing recur.  An action property, or an invariant about a history,
needs an invariant that says what *plans* are still good: what a sweep, a run or a
call has read, and will act on, has to be related to the present.  And where a
definition is recursive or ranges over sequences, induction over data is replaced
by a least number: every non-empty set of naturals has one (`LeastNumber`, from
the well-foundedness of `<`), so a claim that fails somewhere on a sequence first
fails at some place, and the place before it is a contradiction.

`LeasePoolProofs`:

* `TypeCorrect`: `Spec => []TypeOK`.  `TypeOK` alone is not inductive: a step
  reads the row of the worker that a lease or a request *names*, and nothing in
  `TypeOK` says this name is a worker's.  The invariant is `TypeInv == TypeOK /\
  Named`: a lease that was ever written names a worker that was ever
  registered, and a request past its claim names the worker of its own lease.
  Most steps keep the names; lemmas about the helpers (`MarkIdleKept`,
  `EraseLeaseKept`, ...) say so once, and `KeptTypeInv` concludes.
* `SlotsAreAccounted`: `Spec => []SlotsAccounted`, inductive together with
  `TypeInv`.  Three kinds of steps matter: those that leave the set of charged
  leases alone, those that add one lease with one slot (`SlotTaken`) and those
  that take one of each away (`SlotReturned`); each action is shown to be one
  of these for each worker in service.
* `RegistryImplementsSlots`: `Spec => ImplementsSlots`.  A worker's room is
  `Door(i)` and `Inside(i)`.  Each action leaves all rooms alone
  (`StuttersSlots`), shuts one (`ShutsRoom`: fencing and removals), or is an
  entry or a departure (`EntersRoom`, `LeavesRoom`).  An entry needs
  `SlotsAccounted`: the claim's condition is about the counter `in_flight`,
  SlotPool's is about the number of leases inside.
* `LeasesAreHeld` (`LeaseHeldUntilExpiry`).  The invariant adds `Chosen`: the
  leases that a sweep has selected from its old scan had expired then, and an
  expired lease never becomes a live one, as nobody writes a lease twice.
* `WorkersAreNotOversubscribed` (`WorkerNotOversubscribed`).  While a worker is in
  service its working requests are among the charged leases; once it is out of
  service nobody takes a lease on it, so their number only falls.
* `NoSlotLeaks` (`NoSlotLeak`).  `Stranded`: the unconditional deletes, of a
  release after its lost race and of a sweep, are only reached for a lease that
  has left the table or whose worker has left service (`Dead`), and both stay so.
* `LeasesEndInTime` (`LeaseWithinExpiry`) assumes `LeaseFits`: a lease and the lag
  of a claim fit in the headroom plus one second, and in a worker's idle time; a
  lease and a boot fit in a worker's life.  Terraform requires a headroom of at
  least the lease (`lambda.tf:73`), which leaves a lag of one second.  The other two
  hold by far for the defaults (900 s of lease, 1800 s idle, seven hours); nothing
  enforces them (section 3).  The
  delicate step is a claim that lowers the soft expiry below that of a claim which
  committed earlier but read the clock later: `Recent` (no lease reaches further
  than one taken now) bounds the older leases, and `Lagging` how far back the
  clock of the claim can be.
* `FreeWorkersAreFree` (`AvailableIsFree`): each of the three places that write
  AVAILABLE asks for a count of zero in the same write, and whoever takes a slot
  writes BUSY.
* `LifecycleSpares` (`HistorySpec => LifecycleSparesLeases`) assumes `LeaseFits`.
  `Condemned`: a worker in a stream record or an orphan listing has left service;
  one that a sweep has selected has left service, is past its soft expiry, or was
  revived since.  A worker past its soft expiry has no unexpired lease
  (`TimeInv`), so only the revived ones can be stopped under one.

`GatewayProofs`:

* The invariant `IInv` says of every request that what its handler believes to
  hold is in the table (`Holding`), that what is in the table is in the hands of
  its handler unless it was struck (`InHand`), that a lease identifier is not
  used before its attempt (`Unused`), and how many calls an attempt can have made
  at each step (`Counted`); and of every lease that its worker was opened
  (`Housed`).  A step changes what is said of one request (`StepOfOne`): it
  begins or ends without a lease, takes one (`AcquireStep`), goes on under it
  (`GoesOn`) or ends its attempt (`EndsAttempt`).
* From it follow `TypeCorrect`, `CallsAreLeased` (`InvokedUnderLease`),
  `NothingIsLeft` (`NoLeaseLeft`), `LeasesDoNotOverlap` (`OneLeaseAtATime`) and
  the refinement `GatewayUsesSlots` (`UsesSlots`), the last with one lemma for
  each kind of SlotPool's steps.

`LaunchPoolProofs`, under `Durations`, the order of the durations in the code (a
survey is shorter than the lock and than a launch; a launch is shorter than a
reservation, the grace for orphans and a MicroVM's life):

* `SurveysExclude` (`OneSurveyor`): whoever surveys owns the lock row, and is not
  late (`Locked`); a lock that may be taken over is therefore nobody's that
  surveys (`FreeLock`).
* `LaunchesAreSpared` (`LaunchSpared`): before its reservation a call has left
  nothing behind (`Blank`); from then until its registration its reservation has
  not expired, it has no instance row, and neither a stream record nor the plan
  of any sweep names it (`Young`, `Untouched`).  The plans are the heart of it: a
  sweep acts on an old scan, so it is not enough that the table is right now.
* `PoolGrowsWithinMax` (`GrowsWithinMax`), for any lag of claims.  A call that has
  decided to launch counted fewer than `max_instances` in its survey (`Counted`);
  between the survey and the reservation the set of slots, the revived workers
  aside, only shrinks, because no other call is there (`OneSurveyor`), rows only
  age or are revived (`Ages`, `Fades`), and a registration turns a reservation
  into a worker of the same call.  Without setting the revived workers aside it
  is false, which is what the run `launch_revived_worker` shows.
* `ReadyWorkersAreSpared` (`ReadyWorkerSpared`).  `Serving`: the call of a READY
  worker that was not revived is past all but its undo, its reservation is gone,
  and nobody's plan names it before its row expires.

`DynamicBatcherProofs`:

* `NoJobIsLost` (`NothingLost`).  A job that does not fit is deferred over
  whatever was deferred before; the invariant adds that nothing is while a batch
  is open (`CarriedOver`).
* `RowsAreOwn` (`OwnRows`).  The arithmetic of the slices: the texts of a batch are
  flattened by a recursive function, whose existence is proved first; where a job's
  rows begin is the length of what was flattened before it (`SliceIsOwn`).
  `RowsInv` then follows the rows from the batch to the job and to the handler,
  which may have given up meanwhile.

`GcpGatewayProofs`:

* The invariant says of every audience that the cache holds the token it was
  given last, or that this token is due (`Cached`), and that whoever fetches
  holds the lock, alone, and has emptied the entry (`Exclusive`).  The first is
  needed because `NoFetchBeforeExpiry` compares with the last token ever cached,
  not with the cache; it is kept by ticks because being due is for ever.
  `FetchesWhenDue` and `OneFetch` follow.
* `Audits` (`AuditMatchesAnswer`) comes from `Accounted`: a request that is under
  way has no answer and no entry; one that is done has both, unless it was
  refused before its model was looked up.

`GcpWorkerProofs`:

* `LoadsOnce` (`LoadedOnce`): before the instance serves nothing is queued, and
  when it does the model is there, so that no thread is ever `loading`.
* `ThreadsSuffice` (`ThreadForEveryJob`): `JInv` says that the pool's queue and the
  semaphore's line name requests in the right steps, each once, and that no more
  requests are open than places.  So jobs queued and running belong to different
  requests, of which there are no more than threads.
* `BuiltImagesLoad` (`BuiltImageLoads`).  The build follows imports in rounds, the
  worker needs a set that is closed under them.  A round that adds nothing closes
  the worklist, and one that adds something cannot happen more often than there
  are modules (`Cardinality`), so the last round is closed.

`GcpDeployProofs`:

* `FlagsOnly` (`PushClearsFlagsOnly`) and `AppliesUnderLock`.  A run that is about
  to push holds a copy; the invariant says what this copy is as long as it may
  still be pushed: if its serial is one above that of the state, it is the state
  with flags cleared (`Copied`).  Whatever another run does to the state raises
  its serial (`Advances`), after which `Copied` says nothing and the push is
  refused.
* `DInv` adds, for each run, what it read from the checkout and pinned (`Loaded`,
  `AllFit`), that what it is about to push or to apply to is unprotected where it
  replaces (`Clears`), and which services Terraform is done with (`Applies`); and
  of the registry, that a tag with a hash names an image built from these inputs
  unless somebody edited under a build (`ByHash`).  From it follow
  `DeploysReviewed` (`ReviewedIsApplied`), `TargetsAreUnlocked`
  (`ReplaceTargetsUnlocked`), `SuccessDeploysCheckout` (`SuccessIsCheckout`) and
  `RoutesLeadToWorkers` (`NoDanglingRoute`).  The last adds `GatewayDone`: once
  the gateway has been changed, nothing is left to destroy, or it is not there, or
  it knows exactly the wanted workers and all of them have been dealt with.

`AdmissionProofs`:

* `LimitsAreExact` (`PassesBelowLimit`), without hypotheses.  What is left in a map
  is the end of the client's history, and what was dropped from it has expired
  (`Covers`); a client without an entry has the empty end.  `PruneKeeps` says that
  pruning drops exactly up to the first fresh time, so the rest, which is in order,
  is all fresh, and its length is the number of fresh times in the history.
* `SelectsCheapest` (`CheapestTier`) and `LentTiersSuffice` (`LentTierSuffices`).
  `TiersAreRanked`: ranks are different numbers from one to the number of tiers,
  and, as many as these, they are all of them; so the sorted sequence is defined
  everywhere, has the same tiers (`SortedHolds`) and ascends (`SortedAscends`).  That
  a later tier predicts no more is arithmetic: its factor is no larger, and
  quotients and minima are monotone (`LaterIsFaster`).

Only model-checked: liveness (`LeaseReclaimed`, `BusyFlagCleared`,
`FailedWorkerStops`, `ReservationCleared`, `StrayWorkerStops`, `JobsComplete`,
`WaitersProceed`, `DeadlineAnswers`, `RequestsAnswered`), which is out of reach of the prover's
backends, as is anything about ENABLED; and the absence of deadlock.

## 5. Not modelled, and what is left

* Validation and parsing (`contract.ts`, `models.py`, `env.ts`), declarations,
  other Terraform resources, local tooling: pure or I/O.  Also left out: the
  content of embeddings, HTTP formatting, logging.
* In `worker.py`, the prefetch into the page cache and the import manifest: they
  change nothing that a request can see.
* `deploy.sh`: the approval of a plan by a manifest of hashes.  The manifest is
  moved before the apply, which lets only one of two applies pass; a plan file
  that is rewritten after the move would be applied without a review.
* The scripts that publish images, the model download of a MicroVM and the
  compose generator: one sequence of I/O each.
* The retries and the polling inside one call of `microvms.ts`: they keep
  nothing between calls, and their outcomes are those of the actions they are
  part of.

External parts (DynamoDB TTL, the platform, Docker, the registry, Terraform,
sentence-transformers, the end of an environment) are modelled by what the code
relies on and are marked `external`.

| order | module | question | state |
|---|---|---|---|
| 1 | `SlotPool`, `LeasePool` and its proofs | occupancy, leases, lifecycle | done and proved |
| 2 | `LaunchPool` and its proofs | lock, growth, clean-up | done and proved |
| 3 | `Gateway` and its proofs | every exit gives back | done and proved |
| 4 | `DynamicBatcher` and its proofs | queue, deferred job, slices | done and proved |
| 5 | `IdTokens`, `GcpGateway` and its proofs | locks, deadline, audit | done and proved |
| 6 | `RateLimiter` | windows | done and proved |
| 7 | `TierRouting` | limits, choice, prediction | done and proved |
| 8 | `ModelImage`, `GcpWorker` and its proofs | image, boot, threads, permits | done and proved |
| 9 | `GcpDeploy` and its proofs | images, state, order of an apply | done and proved |
| 10 | type invariants of the modules from 2 on, `Gateway` aside | shapes of rows and locals | left to prove; the invariants above contain the parts that they need |
| 11 | `PlanApproval` | the approved plan is the applied one | planned |
