-------------------------- MODULE GcpGatewayProofs --------------------------
(***************************************************************************)
(* The GCP gateway asks the metadata server for a token only when the      *)
(* cached one is due for renewal, whatever the number of requests,         *)
(* audiences, failures and cancellations.                                  *)
(*                                                                         *)
(* The invariant: whoever fetches holds the lock of the audience, alone,   *)
(* and has emptied the cache entry; an entry is emptied only when its      *)
(* token is due.                                                           *)
(***************************************************************************)
EXTENDS GcpGateway, TLAPS

Fields == {"step", "audience"}

Fetching(t, a) == task[t].step = "fetching" /\ task[t].audience = a

Shaped ==
  /\ clock \in Nat
  /\ DOMAIN task = Tasks
  /\ \A t \in Tasks : DOMAIN task[t] = Fields /\ task[t].audience \in Audiences
  /\ DOMAIN tokens = Audiences /\ DOMAIN granted = Audiences
  /\ DOMAIN holder = Audiences

(* The cache holds what it was given last, or that is due.                 *)
Cached(a) ==
  /\ granted[a] \in Nat
  /\ tokens[a] # NoToken => tokens[a] = granted[a]
  /\ tokens[a] = NoToken => granted[a] <= clock + Margin

(* Fetches of one audience exclude each other.                             *)
Exclusive(a) ==
  \A t \in Tasks :
    Fetching(t, a) =>
      /\ t \in holder[a] /\ tokens[a] = NoToken
      /\ \A u \in Tasks : Fetching(u, a) => u = t

IInv == Shaped /\ \A a \in Audiences : Cached(a) /\ Exclusive(a)

(* A step of t, after which it is at the given place.                      *)
Moves(t, step) ==
  /\ DOMAIN task' = Tasks
  /\ \A u \in Tasks \ {t} : task'[u] = task[u]
  /\ DOMAIN task'[t] = Fields
  /\ task'[t].audience = task[t].audience /\ task'[t].step = step

(* The locks of other tasks stay as they are.                              *)
LocksOf(t) ==
  /\ DOMAIN holder' = Audiences
  /\ \A a \in Audiences : holder[a] \ {t} \subseteq holder'[a]

-----------------------------------------------------------------------------
(* Steps of tasks.                                                         *)

LEMMA DoneMoves ==
  ASSUME Shaped, NEW t \in Tasks, task' = [task EXCEPT ![t] = Done(t)]
  PROVE  Moves(t, "done")
BY DEF Shaped, Moves, Done, Fields

LEMMA ContinueMoves ==
  ASSUME Shaped, NEW t \in Tasks, Continue(t)
  PROVE  (t \in Prefetch /\ Moves(t, "done")) \/ Moves(t, "posting")
BY DEF Continue, Shaped, Moves, Fields

(* A step that fetches nothing and leaves the cache alone.                 *)
LEMMA QuietStep ==
  ASSUME IInv, NEW t \in Tasks, UNCHANGED << clock, tokens, granted >>,
         LocksOf(t),
         \/ Moves(t, "done") \/ Moves(t, "posting")
         \/ Moves(t, "waiting")
  PROVE  IInv'
<1>1. Shaped'
  BY DEF IInv, Shaped, Moves, LocksOf
<1>2. \A u \in Tasks, a \in Audiences : Fetching(u, a)' => u # t /\ Fetching(u, a)
  BY DEF Moves, Fetching
<1>3. \A a \in Audiences : Cached(a)'
  BY DEF IInv, Cached
<1>4. \A a \in Audiences : Exclusive(a)'
  BY <1>2 DEF IInv, Exclusive, Fetching, LocksOf
<1> QED
  BY <1>1, <1>3, <1>4 DEF IInv

-----------------------------------------------------------------------------
(* get_token.                                                              *)

(* An entry that is dropped is due.                                        *)
LEMMA DropKeeps ==
  ASSUME IInv, NEW a \in Audiences, ~Fresh(tokens[a]), Drop(a),
         UNCHANGED << clock, granted >>
  PROVE  /\ DOMAIN tokens' = Audiences
         /\ tokens'[a] = NoToken
         /\ \A b \in Audiences : Cached(b)'
         /\ \A b \in Audiences \ {a} : tokens'[b] = tokens[b]
<1>1. DOMAIN tokens = Audiences /\ Cached(a) /\ clock \in Nat
  BY DEF IInv, Shaped
<1>2. granted[a] <= clock + Margin
  BY <1>1, TimeAssumption DEF Cached, Fresh
<1>3. tokens' = [tokens EXCEPT ![a] = NoToken]
  BY DEF Drop
<1>4. Cached(a)'
  BY <1>1, <1>2, <1>3 DEF Cached
<1>5. \A b \in Audiences \ {a} : tokens'[b] = tokens[b] /\ Cached(b)'
  BY <1>1, <1>3 DEF IInv, Cached
<1> QED
  BY <1>1, <1>3, <1>4, <1>5

LEMMA SectionStep ==
  ASSUME IInv, NEW t \in Tasks, Section(t), holder[task[t].audience] = {},
         UNCHANGED << clock, granted >>
  PROVE  IInv'
<1>a. PICK a \in Audiences : a = task[t].audience
  BY DEF IInv, Shaped
<1>0. Shaped /\ \A u \in Tasks : ~Fetching(u, a)
  BY <1>a DEF IInv, Exclusive
<1>1. CASE CacheHit(t, a)
  <2>1. Moves(t, "done") \/ Moves(t, "posting")
    BY <1>0, <1>1, ContinueMoves DEF CacheHit
  <2>2. UNCHANGED << tokens, holder >>
    BY <1>1 DEF CacheHit
  <2>3. LocksOf(t)
    BY <1>0, <2>2 DEF LocksOf, Shaped
  <2> QED
    BY <2>1, <2>2, <2>3, QuietStep
<1>2. CASE ~Fresh(tokens[a]) /\ InBackoff(t, a)
  <2>1. Moves(t, "done") \/ Moves(t, "posting")
    BY <1>0, <1>2, ContinueMoves DEF InBackoff
  <2>2. /\ DOMAIN tokens' = Audiences
        /\ \A b \in Audiences : Cached(b)'
        /\ \A b \in Audiences \ {a} : tokens'[b] = tokens[b]
    BY <1>0, <1>2, DropKeeps DEF InBackoff
  <2>3. holder' = holder
    BY <1>2 DEF InBackoff
  <2>4. \A u \in Tasks, b \in Audiences : Fetching(u, b)' => b # a /\ Fetching(u, b)
    BY <1>0, <2>1 DEF Moves, Fetching
  <2>5. \A b \in Audiences : Exclusive(b)'
    BY <2>2, <2>3, <2>4 DEF IInv, Exclusive, Fetching
  <2>6. Shaped'
    BY <1>0, <2>1, <2>2, <2>3 DEF Shaped, Moves
  <2> QED
    BY <2>2, <2>5, <2>6 DEF IInv
<1>3. CASE ~Fresh(tokens[a]) /\ Refresh(t, a)
  <2>1. Moves(t, "fetching")
    BY <1>0, <1>3 DEF Refresh, Moves, Shaped, Fields
  <2>2. /\ DOMAIN tokens' = Audiences
        /\ tokens'[a] = NoToken
        /\ \A b \in Audiences : Cached(b)'
        /\ \A b \in Audiences \ {a} : tokens'[b] = tokens[b]
    BY <1>0, <1>3, DropKeeps DEF Refresh
  <2>3. /\ DOMAIN holder' = Audiences
        /\ t \in holder'[a]
        /\ \A b \in Audiences \ {a} : holder'[b] = holder[b]
    BY <1>0, <1>3 DEF Refresh, Shaped
  <2>4. \A u \in Tasks, b \in Audiences :
          Fetching(u, b)' => (u = t /\ b = a) \/ (b # a /\ Fetching(u, b))
    BY <1>a, <1>0, <2>1 DEF Moves, Fetching
  <2>5. Exclusive(a)'
    BY <1>0, <2>2, <2>3, <2>4 DEF Exclusive, Fetching
  <2>6. \A b \in Audiences \ {a} : Exclusive(b)'
    BY <2>2, <2>3, <2>4 DEF IInv, Exclusive, Fetching
  <2>7. Shaped'
    BY <1>0, <2>1, <2>2, <2>3 DEF Shaped, Moves
  <2> QED
    BY <2>2, <2>5, <2>6, <2>7 DEF IInv
<1> QED
  BY <1>a, <1>1, <1>2, <1>3 DEF Section

LEMMA LookupStep ==
  ASSUME IInv, NEW t \in Tasks, Lookup(t)
  PROVE  IInv'
<1> DEFINE a == task[t].audience
<1>1. UNCHANGED << clock, granted >>
  BY DEF Lookup
<1>2. CASE holder[a] = {} /\ waiters[a] = << >>
  BY <1>1, <1>2, SectionStep DEF Lookup
<1>3. CASE ~(holder[a] = {} /\ waiters[a] = << >>)
  <2>1. task' = [task EXCEPT ![t].step = "waiting"] /\ UNCHANGED << tokens, holder >>
    BY <1>3 DEF Lookup
  <2>2. Moves(t, "waiting") /\ LocksOf(t)
    BY <2>1 DEF IInv, Shaped, Moves, Fields, LocksOf
  <2> QED
    BY <1>1, <2>1, <2>2, QuietStep
<1> QED
  BY <1>2, <1>3

LEMMA EnterStep ==
  ASSUME IInv, NEW t \in Tasks, Enter(t)
  PROVE  IInv'
BY SectionStep DEF Enter

(* Only the task that fetches gives up its own lock.                       *)
LEMMA Unlocks ==
  ASSUME IInv, NEW t \in Tasks, Unlock(t)
  PROVE  LocksOf(t)
BY DEF IInv, Shaped, Unlock, LocksOf

LEMMA FetchFailsStep ==
  ASSUME IInv, NEW t \in Tasks, FetchFails(t)
  PROVE  IInv'
<1>1. Moves(t, "done") \/ Moves(t, "posting")
  BY ContinueMoves DEF FetchFails, IInv
<1>2. UNCHANGED << clock, tokens, granted >> /\ Unlock(t)
  BY DEF FetchFails
<1> QED
  BY <1>1, <1>2, Unlocks, QuietStep

(* Whoever fetches is the only one: nobody is left who could fetch again.  *)
LEMMA FetchedStep ==
  ASSUME IInv, NEW t \in Tasks, Fetched(t)
  PROVE  IInv'
<1>a. PICK a \in Audiences : a = task[t].audience
  BY DEF IInv, Shaped
<1>0. Shaped /\ Fetching(t, a) /\ clock' = clock
  BY <1>a DEF IInv, Fetched, Fetching
<1>1. \A u \in Tasks \ {t} : ~Fetching(u, a)
  BY <1>0 DEF IInv, Exclusive
<1>2. PICK life \in Lifetimes :
        IF Fresh(clock + life)
        THEN /\ tokens'  = [tokens  EXCEPT ![a] = clock + life]
             /\ granted' = [granted EXCEPT ![a] = clock + life]
        ELSE UNCHANGED << tokens, granted >>
  BY <1>a DEF Fetched
<1>3. clock + life \in Nat
  BY <1>0, TimeAssumption DEF Shaped
<1>4. Moves(t, "done") \/ Moves(t, "posting")
  BY <1>0, ContinueMoves DEF Fetched
<1>5. LocksOf(t)
  BY Unlocks DEF Fetched
<1>6. CASE Fresh(clock + life)
  <2>1. /\ DOMAIN tokens' = Audiences /\ DOMAIN granted' = Audiences
        /\ tokens'[a] = clock + life /\ granted'[a] = clock + life
        /\ \A b \in Audiences \ {a} : tokens'[b] = tokens[b] /\ granted'[b] = granted[b]
    BY <1>0, <1>2, <1>6 DEF Shaped
  <2>2. \A b \in Audiences : Cached(b)'
    BY <1>0, <1>3, <2>1, NoTokenAssumption DEF IInv, Cached
  <2>3. \A u \in Tasks, b \in Audiences :
          Fetching(u, b)' => u # t /\ b # a /\ Fetching(u, b)
    BY <1>1, <1>4 DEF Moves, Fetching
  <2>4. \A b \in Audiences : Exclusive(b)'
    BY <1>5, <2>1, <2>3 DEF IInv, Exclusive, Fetching, LocksOf
  <2>5. Shaped'
    BY <1>0, <1>4, <1>5, <2>1 DEF Shaped, Moves, LocksOf
  <2> QED
    BY <2>2, <2>4, <2>5 DEF IInv
<1>7. CASE ~Fresh(clock + life)
  BY <1>0, <1>2, <1>4, <1>5, <1>7, QuietStep
<1> QED
  BY <1>6, <1>7

-----------------------------------------------------------------------------
(* The end of a task, and time.                                            *)

LEMMA EndSteps ==
  ASSUME IInv, NEW t \in Tasks,
         \/ Post(t)
         \/ \E status \in Refusals \cup {400} : Refuse(t, status)
  PROVE  IInv'
<1>0. Shaped
  BY DEF IInv
<1>1. UNCHANGED << clock, tokens, granted >> /\ LocksOf(t)
  BY <1>0 DEF Post, Refuse, LocksOf, Shaped
<1>2. task' = [task EXCEPT ![t] = Done(t)]
  BY DEF Post, Refuse
<1> QED
  BY <1>0, <1>1, <1>2, DoneMoves, QuietStep

(* Who is cancelled does not fetch; the others keep what they hold.        *)
LEMMA CancelStep ==
  ASSUME IInv, NEW gone \in SUBSET Tasks, Cancel(gone)
  PROVE  IInv'
<1>0. Shaped
  BY DEF IInv
<1>1. UNCHANGED << clock, tokens, granted >>
  BY DEF Cancel, Abandon
<1>2. task' = [t \in Tasks |-> IF t \in gone THEN Done(t) ELSE task[t]]
  BY DEF Cancel, Abandon
<1>3. holder' = [a \in Audiences |-> holder[a] \ gone]
  BY DEF Cancel
<1>4. \A t \in gone : Done(t).step = "done" /\ DOMAIN Done(t) = Fields
                      /\ Done(t).audience = task[t].audience
  BY <1>0 DEF Done, Shaped, Fields
<1>5. \A t \in Tasks, a \in Audiences : Fetching(t, a)' => t \notin gone /\ Fetching(t, a)
  BY <1>2, <1>4 DEF Fetching
<1>6. \A a \in Audiences : Cached(a)'
  BY <1>1 DEF IInv, Cached
<1>7. \A a \in Audiences : Exclusive(a)'
  BY <1>1, <1>3, <1>5 DEF IInv, Exclusive, Fetching
<1>8. Shaped'
  BY <1>0, <1>1, <1>2, <1>3, <1>4 DEF Shaped
<1> QED
  BY <1>6, <1>7, <1>8 DEF IInv

LEMMA TickStep ==
  ASSUME IInv, Tick
  PROVE  IInv'
<1>1. clock \in Nat /\ clock' = clock + 1
      /\ UNCHANGED << task, tokens, granted, holder >>
  BY DEF IInv, Shaped, Tick
<1>2. Shaped'
  BY <1>1 DEF IInv, Shaped
<1>3. \A a \in Audiences : Cached(a)'
  BY <1>1, TimeAssumption DEF IInv, Cached
<1>4. \A a \in Audiences : Exclusive(a)'
  BY <1>1 DEF IInv, Exclusive, Fetching
<1> QED
  BY <1>2, <1>3, <1>4 DEF IInv

-----------------------------------------------------------------------------
LEMMA InitHolds == GatewayInit => IInv
<1> SUFFICES ASSUME GatewayInit PROVE IInv
  OBVIOUS
<1>1. Init
  BY DEF GatewayInit
<1>2. Shaped
  BY <1>1 DEF Init, Shaped, Fields
<1>3. \A t \in Tasks : task[t].step = "idle"
  BY <1>1 DEF Init
<1>4. \A a \in Audiences : Cached(a)
  BY <1>1, TimeAssumption DEF Init, Cached
<1> QED
  BY <1>2, <1>3, <1>4 DEF IInv, Exclusive, Fetching

LEMMA StepHolds ==
  ASSUME IInv, [GatewayNext]_allVars
  PROVE  IInv'
<1>1. ASSUME NEW r \in Requests, Admit(r) PROVE IInv'
  BY <1>1, LookupStep DEF Admit, Requests
<1>2. ASSUME NEW r \in Requests, Forward(r) PROVE IInv'
  BY <1>2, EndSteps DEF Forward, Requests
<1>3. ASSUME NEW r \in Requests, TimeOut(r) PROVE IInv'
  BY <1>3, CancelStep DEF TimeOut, DeadlinePasses, Requests
<1>4. ASSUME NEW r \in Requests, NEW status \in Refusals \cup {400}, Refuse(r, status)
      PROVE  IInv'
  BY <1>4, EndSteps DEF Requests
<1>5. ASSUME Tokens PROVE IInv'
  <2>1. ASSUME NEW t \in Prefetch, Lookup(t) PROVE IInv'
    BY <2>1, LookupStep, TasksAssumption
  <2>2. ASSUME NEW t \in Tasks, Enter(t) \/ Fetched(t) \/ FetchFails(t)
        PROVE  IInv'
    BY <2>2, EnterStep, FetchedStep, FetchFailsStep, EndSteps
  <2>3. ASSUME PrefetchTimesOut PROVE IInv'
    BY <2>3, CancelStep, TasksAssumption DEF PrefetchTimesOut
  <2> QED
    BY <1>5, <2>1, <2>2, <2>3 DEF Tokens
<1>6. CASE Time
  BY <1>6, TickStep DEF Time
<1>7. CASE UNCHANGED allVars
  BY <1>7 DEF allVars, vars, IInv, Shaped, Cached, Exclusive, Fetching
<1> QED
  BY <1>1, <1>2, <1>3, <1>4, <1>5, <1>6, <1>7 DEF GatewayNext

(* While a metadata request runs for an audience, every token that the     *)
(* cache was given for it is due for renewal.                              *)
THEOREM FetchesWhenDue == GatewaySpec => []NoFetchBeforeExpiry
<1>1. IInv /\ [GatewayNext]_allVars => IInv'
  BY StepHolds
<1>2. IInv => NoFetchBeforeExpiry
  BY DEF IInv, Shaped, Cached, Exclusive, Fetching, NoFetchBeforeExpiry
<1> QED
  BY <1>1, <1>2, InitHolds, PTL DEF GatewaySpec

(* At most one metadata request runs for an audience at any time: the lock *)
(* of an audience coalesces refreshes also when tasks are cancelled.       *)
THEOREM OneFetch ==
  GatewaySpec =>
    [](\A t, u \in Tasks :
         /\ task[t].step = "fetching" /\ task[u].step = "fetching"
         /\ task[t].audience = task[u].audience
         => t = u)
<1>1. IInv /\ [GatewayNext]_allVars => IInv'
  BY StepHolds
<1>2. IInv => \A t, u \in Tasks :
                /\ task[t].step = "fetching" /\ task[u].step = "fetching"
                /\ task[t].audience = task[u].audience
                => t = u
  BY DEF IInv, Shaped, Exclusive, Fetching
<1> QED
  BY <1>1, <1>2, InitHolds, PTL DEF GatewaySpec

-----------------------------------------------------------------------------
(* The answer and the audit log.                                           *)

Active == {"waiting", "fetching", "posting"}

(* What is known of a request at each place.                               *)
Accounted(r) ==
  /\ task[r].step \in Active \cup {"idle", "done"}
  /\ task[r].step \in Active \cup {"idle"} => answer[r] = None /\ audit[r] = << >>
  /\ task[r].step = "idle" => admitted[r] = None
  /\ task[r].step = "done" =>
       /\ audit[r] # << >> => audit[r] = << answer[r] >>
       /\ admitted[r] # None \/ answer[r] = 400 => audit[r] = << answer[r] >>

Logged ==
  /\ DOMAIN admitted = Requests /\ DOMAIN answer = Requests
  /\ DOMAIN audit = Requests
  /\ \A r \in Requests : Accounted(r)

(* Where get_token can leave a task; a request is not over then.           *)
LEMMA TokenMoves ==
  ASSUME Shaped, NEW t \in Tasks,
         Lookup(t) \/ Enter(t) \/ Fetched(t) \/ FetchFails(t)
  PROVE  /\ clock' = clock
         /\ \/ t \in Prefetch /\ Moves(t, "done")
            \/ Moves(t, "waiting") \/ Moves(t, "fetching")
            \/ Moves(t, "posting")
<1> DEFINE Somewhere == \/ t \in Prefetch /\ Moves(t, "done")
                        \/ Moves(t, "waiting") \/ Moves(t, "fetching")
                        \/ Moves(t, "posting")
<1>1. clock' = clock
  BY DEF Lookup, Enter, Fetched, FetchFails
<1>2. ASSUME Section(t) PROVE Somewhere
  <2>1. CASE Continue(t)
    BY <2>1, ContinueMoves
  <2>2. CASE task' = [task EXCEPT ![t].step = "fetching"]
    <3>1. Moves(t, "fetching")
      BY <2>2 DEF Shaped, Moves, Fields
    <3> QED
      BY <3>1
  <2> QED
    BY <1>2, <2>1, <2>2 DEF Section, CacheHit, InBackoff, Refresh
<1>3. CASE task' = [task EXCEPT ![t].step = "waiting"]
  <2>1. Moves(t, "waiting")
    BY <1>3 DEF Shaped, Moves, Fields
  <2> QED
    BY <1>1, <2>1
<1>4. CASE Continue(t)
  BY <1>1, <1>4, ContinueMoves
<1>6. CASE Lookup(t)
  BY <1>2, <1>3, <1>6 DEF Lookup
<1>7. CASE Enter(t)
  BY <1>2, <1>7 DEF Enter
<1>8. CASE Fetched(t) \/ FetchFails(t)
  BY <1>4, <1>8 DEF Fetched, FetchFails
<1> QED
  BY <1>1, <1>6, <1>7, <1>8

LEMMA AdmitLogs ==
  ASSUME IInv, Logged, NEW r \in Requests, Admit(r)
  PROVE  Logged'
<1>1. Shaped /\ r \in Tasks /\ r \notin Prefetch
  BY DEF IInv, Requests
<1>2. Lookup(r) /\ admitted' = [admitted EXCEPT ![r] = clock] /\ UNCHANGED << answer, audit >>
  BY DEF Admit
<1>3. task[r].step = "idle" /\ clock \in Nat
  BY <1>1, <1>2 DEF Lookup, Shaped
<1>4. /\ clock' = clock /\ task'[r].step \in Active
      /\ \A q \in Requests \ {r} : task'[q] = task[q]
  BY <1>1, <1>2, TokenMoves DEF Moves, Active, Requests
<1>5. Accounted(r)'
  BY <1>2, <1>3, <1>4, DeadlineAssumption DEF Logged, Accounted, Active
<1>6. \A q \in Requests \ {r} : Accounted(q)'
  BY <1>2, <1>4 DEF Logged, Accounted
<1> QED
  BY <1>2, <1>5, <1>6 DEF Logged

LEMMA RefuseLogs ==
  ASSUME IInv, Logged, NEW r \in Requests, NEW status \in Refusals \cup {400},
         Refuse(r, status)
  PROVE  Logged'
<1>1. Shaped /\ r \in Tasks /\ status \in Nat /\ status # None
  BY StatusAssumption DEF IInv, Requests
<1>2. Moves(r, "done")
  BY <1>1, DoneMoves DEF Refuse
<1>3. /\ UNCHANGED << clock, admitted >> /\ task[r].step = "idle"
      /\ answer' = [answer EXCEPT ![r] = status]
      /\ audit' = IF status = 400 THEN [audit EXCEPT ![r] = Append(@, status)] ELSE audit
  BY DEF Refuse, Reply, Log
<1>4. admitted[r] = None /\ audit[r] = << >>
  BY <1>3 DEF Logged, Accounted
<1>5. Append(<< >>, status) = << status >>
  OBVIOUS
<1>6. Accounted(r)'
  BY <1>1, <1>2, <1>3, <1>4, <1>5 DEF Logged, Accounted, Moves, Active
<1>7. \A q \in Requests \ {r} : Accounted(q)'
  BY <1>2, <1>3 DEF Logged, Accounted, Moves, Requests
<1> QED
  BY <1>3, <1>6, <1>7 DEF Logged

LEMMA AnswerLogs ==
  ASSUME IInv, Logged, NEW r \in Requests, Forward(r) \/ TimeOut(r)
  PROVE  Logged'
<1>1. Shaped /\ r \in Tasks
  BY DEF IInv, Requests
<1>2. PICK status \in Statuses \cup {502, 504} : Answered(r, status)
  BY DEF Forward, TimeOut
<1>3. /\ answer' = [answer EXCEPT ![r] = status]
      /\ audit' = [audit EXCEPT ![r] = Append(@, status)]
      /\ admitted' = [admitted EXCEPT ![r] = 0]
  BY <1>2 DEF Answered, Reply, Audited, Log
<1>4. task[r].step \in Active
  BY DEF Forward, Post, TimeOut, Due, Active
<1>5. /\ clock' = clock /\ task'[r].step = "done"
      /\ \A q \in Requests \ {r} : task'[q] = task[q]
  <2>1. CASE Forward(r)
    <3>1. clock' = clock /\ task' = [task EXCEPT ![r] = Done(r)]
      BY <2>1 DEF Forward, Post
    <3>2. Moves(r, "done")
      BY <1>1, <3>1, DoneMoves
    <3> QED
      BY <3>1, <3>2 DEF Moves, Requests
  <2>2. CASE TimeOut(r)
    <3>1. clock' = clock
          /\ task' = [t \in Tasks |-> IF t \in {r} THEN Done(t) ELSE task[t]]
      BY <2>2 DEF TimeOut, DeadlinePasses, Cancel, Abandon
    <3>2. Done(r).step = "done"
      BY <1>1 DEF Done, Shaped, Fields
    <3> QED
      BY <1>1, <3>1, <3>2 DEF Requests
  <2> QED
    BY <2>1, <2>2
<1>6. status # None /\ 0 # None /\ audit[r] = << >>
  BY <1>4, StatusAssumption DEF Logged, Accounted
<1>7. Append(<< >>, status) = << status >>
  OBVIOUS
<1>8. Accounted(r)'
  BY <1>3, <1>5, <1>6, <1>7 DEF Logged, Accounted, Active
<1>9. \A q \in Requests \ {r} : Accounted(q)'
  BY <1>3, <1>5 DEF Logged, Accounted
<1> QED
  BY <1>3, <1>8, <1>9 DEF Logged

LEMMA TokensLog ==
  ASSUME IInv, Logged, Tokens, UNCHANGED gatewayVars
  PROVE  Logged'
<1>0. Shaped /\ UNCHANGED << admitted, answer, audit >>
  BY DEF IInv, gatewayVars
<1>1. ASSUME NEW t \in Tasks,
             t \in Prefetch \/ task[t].step \in Active,
             Lookup(t) \/ Enter(t) \/ Fetched(t) \/ FetchFails(t)
      PROVE  Logged'
  <2>1. /\ clock' = clock /\ \A q \in Tasks \ {t} : task'[q] = task[q]
        /\ t \in Requests => task'[t].step \in Active
    BY <1>0, <1>1, TokenMoves DEF Moves, Active, Requests
  <2>2. \A q \in Requests : Accounted(q)'
    BY <1>0, <1>1, <2>1 DEF Logged, Accounted, Active, Requests
  <2> QED
    BY <1>0, <2>2 DEF Logged
<1>2. ASSUME NEW t \in Prefetch, Lookup(t) PROVE Logged'
  BY <1>1, <1>2, TasksAssumption
<1>3. ASSUME NEW t \in Tasks, Enter(t) \/ Fetched(t) \/ FetchFails(t) PROVE Logged'
  BY <1>1, <1>3 DEF Enter, Fetched, FetchFails, Active
<1>5. ASSUME PrefetchTimesOut PROVE Logged'
  <2>1. clock' = clock /\ \A q \in Requests : task'[q] = task[q]
    BY <1>5 DEF PrefetchTimesOut, Cancel, Abandon, Requests
  <2> QED
    BY <1>0, <2>1 DEF Logged, Accounted
<1> QED
  BY <1>2, <1>3, <1>5 DEF Tokens

LEMMA TimeLogs ==
  ASSUME Logged, Time
  PROVE  Logged'
BY DEF Time, Tick, gatewayVars, Logged, Accounted

LEMMA LogHolds ==
  /\ GatewayInit => Logged
  /\ IInv /\ Logged /\ [GatewayNext]_allVars => Logged'
<1>1. GatewayInit => Logged
  <2> SUFFICES ASSUME GatewayInit PROVE Logged
    OBVIOUS
  <2>1. \A r \in Requests : task[r].step = "idle"
    BY DEF GatewayInit, Init, Requests
  <2> QED
    BY <2>1 DEF GatewayInit, Logged, Accounted, Active
<1>2. ASSUME IInv, Logged, [GatewayNext]_allVars PROVE Logged'
  <2>1. CASE UNCHANGED allVars
    BY <1>2, <2>1 DEF allVars, vars, gatewayVars, Logged, Accounted
  <2> QED
    BY <1>2, <2>1, AdmitLogs, RefuseLogs, AnswerLogs, TokensLog, TimeLogs
       DEF GatewayNext
<1> QED
  BY <1>1, <1>2

(* Every admitted request leaves exactly one audit entry, with the status  *)
(* that its client gets.                                                   *)
THEOREM Audits == GatewaySpec => []AuditMatchesAnswer
<1>1. IInv /\ [GatewayNext]_allVars => IInv'
  BY StepHolds
<1>2. IInv /\ Logged => AuditMatchesAnswer
  BY DEF Logged, Accounted, AuditMatchesAnswer, Active
<1> QED
  BY <1>1, <1>2, InitHolds, LogHolds, PTL DEF GatewaySpec

=============================================================================
