----------------------------- MODULE GcpWorker -----------------------------
(***************************************************************************)
(* One instance of a GCP worker (app/gcp/worker.py), from the image that   *)
(* ModelImage builds to its requests: the boot, then requests, whose inputs*)
(* are prepared and whose embeddings are computed on one thread pool, the  *)
(* latter under a semaphore.  A request whose client gave up is not        *)
(* cancelled.                                                              *)
(*                                                                         *)
(* A thread that ends a job and the event loop that continues the request  *)
(* are one step.                                                           *)
(***************************************************************************)
EXTENDS ModelImage, SequencesExt

CONSTANTS
  Repos,         (* What is built into an image.                           *)
  Requests,      (* Requests from the gateway.                             *)
  Concurrencies, (* Values of WORKER_CONCURRENCY, also Cloud Run's limit.  *)
  Parallelisms,  (* Values of WORKER_ENCODE_PARALLELISM.                   *)
  None           (* No image, no environment.                              *)

ASSUME SettingsAssumption ==
  /\ Repos \subseteq Repo
  /\ Concurrencies \subseteq Nat \ {0} /\ Parallelisms \subseteq Nat \ {0}

VARIABLES
  stage,      (* "build", "boot", "warmup", "serving" or how it ended.     *)
  repo,       (* The repositories, until the model is loaded.              *)
  image,      (* The image, until the model is loaded.                     *)
  settings,   (* The environment of the instance, from Terraform.          *)
  loads,      (* How often the model was loaded; zero: _model is None.     *)
  req,        (* How far each request is.                                  *)
  gone,       (* Requests whose client gave up.                            *)
  jobs,       (* The queue of the thread pool.                             *)
  permits,    (* The value of the semaphore.                               *)
  queue       (* The requests that wait for it.                            *)

bootVars  == << stage, repo, image, settings, loads >>
serveVars == << req, gone, jobs, permits, queue >>
vars == << bootVars, serveVars >>

-----------------------------------------------------------------------------
(* The build of the image, and the boot.                                   *)

Build ==
  /\ stage = "build"
  /\ IF BuildFails(repo) THEN stage' = "rejected" /\ UNCHANGED << image, settings >>
     ELSE /\ stage' = "boot" /\ image' = Built(repo)
          /\ settings' \in [concurrency: Concurrencies, parallel: Parallelisms]
  /\ UNCHANGED << repo, loads, serveVars >>

(* Mutant: the lifespan leaves loading to the first request.               *)
Preloads_Lazy == FALSE

Preloads == TRUE

(* The model is loaded before the port opens, with or without the Hub, and *)
(* MODEL_WARMUP asks for a warm-up or not.  The repositories do not matter *)
(* afterwards.                                                             *)
Lifespan ==
  /\ stage = "boot"
  /\ \E hub \in BOOLEAN :
       IF Loads(image, repo, hub)
       THEN /\ stage' \in {"warmup", "serving"}
            /\ repo' = None /\ image' = None
       ELSE stage' = "crashed" /\ UNCHANGED << repo, image >>
  /\ loads' = IF stage' # "crashed" /\ Preloads THEN 1 ELSE 0
  /\ permits' = settings.parallel
  /\ UNCHANGED << settings, req, gone, jobs, queue >>

(* A synthetic encode; if it fails, so does the start.                     *)
Warmup ==
  /\ stage = "warmup"
  /\ stage' \in {"serving", "crashed"}
  /\ UNCHANGED << repo, image, settings, loads, serveVars >>

-----------------------------------------------------------------------------
(* The thread pool and the semaphore.                                      *)

(* Mutant: the pool is as large as the semaphore.                          *)
Threads_Encode == settings.parallel

Threads == IF settings.concurrency < 2 THEN 2 ELSE settings.concurrency

Running == {r \in Requests : req[r] \in {"preparing", "loading", "encoding"}}

(* The semaphore is handed to whoever waits longest.                       *)
Release(r, how) ==
  IF queue = << >>
  THEN /\ permits' = permits + 1
       /\ req' = [req EXCEPT ![r] = how]
       /\ UNCHANGED << jobs, queue >>
  ELSE /\ req' = [req EXCEPT ![r] = how, ![Head(queue)] = "held"]
       /\ jobs' = Append(jobs, Head(queue))
       /\ queue' = Tail(queue)
       /\ UNCHANGED permits

Acquire(r) ==
  IF permits > 0
  THEN /\ permits' = permits - 1
       /\ req' = [req EXCEPT ![r] = "held"]
       /\ jobs' = Append(jobs, r)
       /\ UNCHANGED queue
  ELSE /\ queue' = Append(queue, r)
       /\ req' = [req EXCEPT ![r] = "waiting"]
       /\ UNCHANGED << jobs, permits >>

(* Mutant: a failed encode does not give its permit back.                  *)
AfterFailure_Kept(r) ==
  req' = [req EXCEPT ![r] = "done"] /\ UNCHANGED << jobs, permits, queue >>

AfterFailure(r) == Release(r, "done")

-----------------------------------------------------------------------------
(* embed.                                                                  *)

Live == {r \in Requests : req[r] \notin {"idle", "done"} /\ r \notin gone}

(* Cloud Run sends at most as many requests as the service says; whose     *)
(* client is gone does not count any more.                                 *)
Accept(r) ==
  /\ stage = "serving" /\ req[r] = "idle"
  /\ Cardinality(Live) < settings.concurrency
  /\ req' = [req EXCEPT ![r] = "queued"]
  /\ jobs' = Append(jobs, r)
  /\ UNCHANGED << bootVars, gone, permits, queue >>

GiveUp(r) ==
  /\ r \in Live
  /\ gone' = gone \cup {r}
  /\ UNCHANGED << bootVars, req, jobs, permits, queue >>

(* A free thread takes the next job: _normalize_inputs, or _embed, which   *)
(* asks for the model first.                                               *)
Take ==
  /\ jobs # << >> /\ Cardinality(Running) < Threads
  /\ LET r == Head(jobs)
     IN  req' = [req EXCEPT ![r] = IF @ = "queued" THEN "preparing"
                                   ELSE IF loads = 0 THEN "loading" ELSE "encoding"]
  /\ jobs' = Tail(jobs)
  /\ UNCHANGED << bootVars, gone, permits, queue >>

(* Bad input is a 400, an image that cannot be had a 500.                  *)
Prepared(r) ==
  /\ req[r] = "preparing"
  /\ \/ Acquire(r)
     \/ req' = [req EXCEPT ![r] = "done"] /\ UNCHANGED << jobs, permits, queue >>
  /\ UNCHANGED << bootVars, gone >>

(* get_model, whose test of _model and assignment are apart, then encode.  *)
Encoded(r) ==
  /\ req[r] \in {"loading", "encoding"}
  /\ loads' = IF req[r] = "loading" THEN loads + 1 ELSE loads
  /\ Release(r, "done") \/ AfterFailure(r)
  /\ UNCHANGED << stage, repo, image, settings, gone >>

-----------------------------------------------------------------------------
Init ==
  /\ stage = "build" /\ image = None /\ settings = None /\ loads = 0
  /\ repo \in Repos
  /\ req = [r \in Requests |-> "idle"] /\ gone = {}
  /\ jobs = << >> /\ permits = 0 /\ queue = << >>

Next ==
  \/ Build \/ Lifespan \/ Warmup \/ Take
  \/ \E r \in Requests :
       Accept(r) \/ GiveUp(r) \/ Prepared(r) \/ Encoded(r)

Spec == Init /\ [][Next]_vars

(* Threads run; downloads of images have timeouts, and encodes end.        *)
FairSpec ==
  /\ Spec /\ WF_vars(Take)
  /\ \A r \in Requests : WF_vars(Prepared(r)) /\ WF_vars(Encoded(r))

-----------------------------------------------------------------------------
(* Safety.                                                                 *)

(* "All relative module dependencies are validated at build time": an image*)
(* that was built loads, offline too, unless its build warned of code that *)
(* is not pinned and the Hub is not there, or, without a pinned repository,*)
(* the model's own modules are not complete, or it was given no model.  In *)
(* particular every part of the model keeps weights.                       *)
BuiltImageLoads ==
  stage = "crashed" /\ image # None =>
    \/ ~repo.named
    \/ image.remote # {}
    \/ ~repo.pinned /\ ~HasModules(repo.own, repo, Named(repo.refs, {"own"}))

(* The model is loaded once although get_model takes no lock and requests  *)
(* may be encoded on several threads: none is there before the model is.   *)
LoadedOnce == loads <= 1

(* "Sizes the executor that runs /embed work": as long as no client gives  *)
(* up, there is a thread for every job, so that neither image downloads    *)
(* delay an encode that holds the semaphore nor the other way round.       *)
ThreadForEveryJob ==
  stage = "serving" /\ (\A r \in gone : req[r] = "done")
    => Cardinality(Running) + Len(jobs) <= Threads

-----------------------------------------------------------------------------
(* Liveness, under FairSpec.                                               *)

(* Every request that was accepted is answered, also when those before it  *)
(* fail or were given up and still use threads and the semaphore.          *)
RequestsAnswered ==
  \A r \in Requests : req[r] = "queued" ~> req[r] = "done"

=============================================================================
