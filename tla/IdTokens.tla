------------------------------ MODULE IdTokens ------------------------------
(***************************************************************************)
(* How requests of the GCP gateway get the ID token of their worker        *)
(* (app/gcp/gateway.py): one cache entry and one asyncio.Lock per audience,*)
(* so that concurrent refreshes coalesce; a common back-off after a failed *)
(* metadata request; and cancellation, by the deadline of a request or of  *)
(* the prefetch at startup, at any await.                                  *)
(*                                                                         *)
(* Tasks run on one event loop: what a task does between two awaits is one *)
(* step.  A token is its expiry time; what a request does with the one it  *)
(* is given, or without any, is up to the worker and not modelled.         *)
(* GcpGateway is the specification that these steps belong to.             *)
(***************************************************************************)
EXTENDS Naturals, FiniteSets, SequencesExt

CONSTANTS
  Tasks,        (* Requests, and the calls gathered by the prefetch.       *)
  Prefetch,     (* The tasks of the prefetch, a subset of Tasks.           *)
  Audiences,    (* Worker base URLs.                                       *)
  Margin,       (* _TOKEN_EXPIRY_MARGIN_SECONDS.                           *)
  Backoff,      (* _METADATA_FAILURE_CACHE_SECONDS.                        *)
  Lifetimes,    (* Remaining lifetimes of issued tokens.                   *)
  MaxClock,     (* Bound: the last clock value explored.                   *)
  NoToken       (* No token is cached.                                     *)

ASSUME TasksAssumption == IsFiniteSet(Tasks) /\ Prefetch \subseteq Tasks
ASSUME TimeAssumption ==
  /\ Margin \in Nat /\ Backoff \in Nat /\ MaxClock \in Nat
  /\ Lifetimes \subseteq Nat
ASSUME NoTokenAssumption == NoToken \notin Nat

VARIABLES
  clock,        (* time.time() and time.monotonic().                       *)
  task,         (* Where each task is, and the audience it asks for.       *)
  tokens,       (* The cached token of each audience.                      *)
  holder,       (* The tasks that hold each audience's lock.               *)
  waiters,      (* The tasks that wait for it, in order of arrival.        *)
  unavailable,  (* metadata_unavailable_until.                             *)
  granted       (* History: the expiry of the last token put in the cache  *)
                (* for each audience.                                      *)

vars == << clock, task, tokens, holder, waiters, unavailable, granted >>

-----------------------------------------------------------------------------
(* The condition of _cached_token, and of storing a token.                 *)
Fresh(token) == token # NoToken /\ token > clock + Margin

-----------------------------------------------------------------------------
(* get_token.                                                              *)

Done(t) == [task[t] EXCEPT !.step = "done"]

(* What follows the lookup: a prefetch task is over, a request calls its   *)
(* worker with the token, or without one.                                  *)
Continue(t) ==
  task' = [task EXCEPT ![t].step = IF t \in Prefetch THEN "done" ELSE "posting"]

(* _cached_token drops a token that is about to expire.                    *)
Drop(a) == tokens' = [tokens EXCEPT ![a] = NoToken]

CacheHit(t, a) ==
  /\ Fresh(tokens[a])
  /\ Continue(t)
  /\ UNCHANGED << tokens, holder >>

InBackoff(t, a) ==
  /\ clock < unavailable
  /\ Drop(a)
  /\ Continue(t)
  /\ UNCHANGED holder

Refresh(t, a) ==
  /\ clock >= unavailable
  /\ Drop(a)
  /\ holder' = [holder EXCEPT ![a] = @ \cup {t}]
  /\ task' = [task EXCEPT ![t].step = "fetching"]

(* Mutant: a waiter does not look at the cache again.                      *)
Section_Refetch(t) ==
  LET a == task[t].audience
  IN  \/ task[t].step = "idle" /\ CacheHit(t, a)
      \/ /\ ~Fresh(tokens[a]) \/ task[t].step = "waiting"
         /\ InBackoff(t, a) \/ Refresh(t, a)

(* The body of `async with` up to its first await: the cache, the back-off *)
(* or a metadata request, during which the lock is held.                   *)
Section(t) ==
  LET a == task[t].audience
  IN  \/ CacheHit(t, a)
      \/ ~Fresh(tokens[a]) /\ (InBackoff(t, a) \/ Refresh(t, a))

(* The gateway serves requests once the prefetch is over.                  *)
Started(t) ==
  t \in Prefetch \/ \A u \in Prefetch : task[u].step = "done"

(* asyncio.Lock lets nobody overtake the tasks that wait.                  *)
Lookup(t) ==
  LET a == task[t].audience
  IN  /\ task[t].step = "idle" /\ Started(t)
      /\ IF holder[a] = {} /\ waiters[a] = << >>
         THEN Section(t) /\ UNCHANGED waiters
         ELSE /\ waiters' = [waiters EXCEPT ![a] = Append(@, t)]
              /\ task' = [task EXCEPT ![t].step = "waiting"]
              /\ UNCHANGED << tokens, holder >>
      /\ UNCHANGED << clock, unavailable, granted >>

Enter(t) ==
  LET a == task[t].audience
  IN  /\ task[t].step = "waiting"
      /\ holder[a] = {} /\ Head(waiters[a]) = t
      /\ waiters' = [waiters EXCEPT ![a] = Tail(@)]
      /\ Section(t)
      /\ UNCHANGED << clock, unavailable, granted >>

Unlock(t) == holder' = [holder EXCEPT ![task[t].audience] = @ \ {t}]

(* The token is used in any case, and cached unless it is about to expire. *)
Fetched(t) ==
  LET a == task[t].audience
  IN  /\ task[t].step = "fetching"
      /\ \E life \in Lifetimes :
           /\ IF Fresh(clock + life)
              THEN /\ tokens'  = [tokens  EXCEPT ![a] = clock + life]
                   /\ granted' = [granted EXCEPT ![a] = clock + life]
              ELSE UNCHANGED << tokens, granted >>
      /\ Continue(t)
      /\ Unlock(t)
      /\ UNCHANGED << clock, waiters, unavailable >>

FetchFails(t) ==
  /\ task[t].step = "fetching"
  /\ unavailable' = clock + Backoff
  /\ Continue(t)
  /\ Unlock(t)
  /\ UNCHANGED << clock, tokens, waiters, granted >>

(* The worker answers, times out or cannot be reached: an answer, a 504 or *)
(* a 502 for the client.                                                   *)
Post(t) ==
  /\ task[t].step = "posting"
  /\ task' = [task EXCEPT ![t] = Done(t)]
  /\ UNCHANGED << clock, tokens, holder, waiters, unavailable, granted >>

-----------------------------------------------------------------------------
(* Cancellation.                                                           *)

Abandon(gone) ==
  /\ task' = [t \in Tasks |-> IF t \in gone THEN Done(t) ELSE task[t]]
  /\ waiters' = [a \in Audiences |->
                   SelectSeq(waiters[a], LAMBDA t : t \notin gone)]
  /\ UNCHANGED << clock, tokens, unavailable, granted >>

(* Mutant: a cancelled fetch keeps the lock.                               *)
Cancel_KeepsLock(gone) == Abandon(gone) /\ UNCHANGED holder

(* CancelledError at the await where each task is: a waiter leaves the     *)
(* queue, a fetch leaves the `async with` block.                           *)
Cancel(gone) ==
  /\ Abandon(gone)
  /\ holder' = [a \in Audiences |-> holder[a] \ gone]

(* asyncio.timeout of one request.                                         *)
DeadlinePasses(t) ==
  /\ t \notin Prefetch
  /\ task[t].step \in {"waiting", "fetching", "posting"}
  /\ Cancel({t})

(* wait_for cancels the whole gather.                                      *)
PrefetchTimesOut ==
  /\ \E t \in Prefetch : task[t].step # "done"
  /\ Cancel({t \in Prefetch : task[t].step # "done"})

Tick ==
  /\ clock < MaxClock
  /\ clock' = clock + 1
  /\ UNCHANGED << task, tokens, holder, waiters, unavailable, granted >>

-----------------------------------------------------------------------------
(* The prefetch looks every audience up once, a request that of its model. *)
Init ==
  /\ clock = 0 /\ unavailable = 0
  /\ task \in [Tasks -> [step: {"idle"}, audience: Audiences]]
  /\ \A t, u \in Prefetch : t # u => task[t].audience # task[u].audience
  /\ tokens  = [a \in Audiences |-> NoToken]
  /\ holder  = [a \in Audiences |-> {}]
  /\ waiters = [a \in Audiences |-> << >>]
  /\ granted = [a \in Audiences |-> 0]

-----------------------------------------------------------------------------
(* Safety.                                                                 *)

(* "Coalesce concurrent refreshes": while a metadata request runs for an   *)
(* audience, every token that the cache was ever given for it is due for   *)
(* renewal, whatever queued, failed elsewhere or was cancelled meanwhile.  *)
NoFetchBeforeExpiry ==
  \A t \in Tasks :
    task[t].step = "fetching" => granted[task[t].audience] <= clock + Margin

=============================================================================
