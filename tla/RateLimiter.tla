---------------------------- MODULE RateLimiter ----------------------------
(***************************************************************************)
(* The per-client rate limits of the two gateways, fed with the same       *)
(* requests: a sliding window over the times of the requests let through,  *)
(* in app/gcp/gateway.py with a sweep of idle clients, in                  *)
(* app/aws/gateway/app.ts without.                                         *)
(*                                                                         *)
(* Each check runs without an await, so it is one step.                    *)
(***************************************************************************)
EXTENDS Naturals, FiniteSets, SequencesExt, Functions

CONSTANTS
  Clients,    (* IP addresses.                                             *)
  Limit,      (* RATE_LIMIT_RPM; a limit of zero refuses everything.       *)
  Window,     (* Sixty seconds.                                            *)
  MaxClock    (* Bound: the last clock value explored.                     *)

ASSUME ClientsAssumption == IsFiniteSet(Clients)
ASSUME NumbersAssumption == Limit \in Nat /\ Window \in Nat \ {0} /\ MaxClock \in Nat

VARIABLES
  clock,      (* time.monotonic(), Date.now().                             *)
  log,        (* _request_log: a queue of times for each known client.     *)
  swept,      (* _request_log_swept_at.                                    *)
  awsLog,     (* requestLog of the AWS gateway.                            *)
  answer,     (* The last check: client, time, and what each gateway did.  *)
  passed      (* History: the requests that the GCP gateway let through.   *)

vars == << clock, log, swept, awsLog, answer, passed >>

(* The maps hold, for some clients, times in order of arrival; the map of  *)
(* the GCP gateway has no entry without a time, and swept is never ahead.  *)
TypeOK ==
  /\ clock \in Nat /\ swept \in 0 .. clock
  /\ \A map \in {log, awsLog} :
       /\ DOMAIN map \subseteq Clients
       /\ \A c \in DOMAIN map :
            /\ map[c] # << >> /\ Len(map[c]) <= Limit
            /\ \A i, j \in DOMAIN map[c] : i <= j => map[c][i] <= map[c][j]

-----------------------------------------------------------------------------
(* app/gcp/gateway.py.                                                     *)

Fresh(times, now) == {n \in DOMAIN times : now < times[n] + Window}

From(times, kept) ==
  IF kept = {} THEN << >> ELSE SubSeq(times, Min(kept), Len(times))

(* Mutant: a time expires one tick late.                                   *)
Prune_Late(times, now) ==
  From(times, {n \in DOMAIN times : now < times[n] + Window + 1})

(* Times leave from the left, up to the first that has not expired.        *)
Prune(times, now) == From(times, Fresh(times, now))

(* Idle clients are dropped at most once per window.                       *)
Sweep(now) ==
  IF now < swept + Window THEN log
  ELSE LET Busy == {c \in DOMAIN log : Prune(log[c], now) # << >>}
       IN  [c \in Busy |-> Prune(log[c], now)]

Times(map, c, now) == IF c \in DOMAIN map THEN Prune(map[c], now) ELSE << >>

Put(map, c, times) ==
  [d \in DOMAIN map \cup {c} |-> IF d = c THEN times ELSE map[d]]

Refused(times) == Len(times) >= Limit

(* A refused client keeps its pruned times, or no entry without times.     *)
CheckGcp(c, now) ==
  LET entries == Sweep(now)
      times   == Times(entries, c, now)
  IN  /\ swept' = IF now < swept + Window THEN swept ELSE now
      /\ IF Refused(times)
         THEN log' = IF times = << >> THEN Restrict(entries, DOMAIN entries \ {c})
                     ELSE Put(entries, c, times)
         ELSE log' = Put(entries, c, Append(times, now))

-----------------------------------------------------------------------------
(* checkRateLimit, app/aws/gateway/app.ts.                                 *)

(* filter keeps the times that have not expired: those that Prune keeps, as *)
(* they are in order.  Nothing is stored for a refused request.            *)
CheckAws(c, now) ==
  LET active == Times(awsLog, c, now)
  IN  awsLog' = IF Refused(active) THEN awsLog
                ELSE Put(awsLog, c, Append(active, now))

-----------------------------------------------------------------------------
Passes(map, c, now) == ~Refused(Times(map, c, now))

Init ==
  /\ clock = Window   (* The machine has been up for that long.            *)
  /\ log = << >> /\ swept = 0 /\ awsLog = << >>
  /\ answer = [client |-> {}, at |-> Window, gcp |-> TRUE, aws |-> TRUE]
  /\ passed = [c \in Clients |-> << >>]

Check(c) ==
  LET gcp == Passes(log, c, clock)
  IN  /\ CheckGcp(c, clock)
      /\ CheckAws(c, clock)
      /\ answer' = [client |-> {c}, at |-> clock, gcp |-> gcp,
                    aws |-> Passes(awsLog, c, clock)]
      /\ passed' = IF gcp THEN [passed EXCEPT ![c] = Append(@, clock)]
                   ELSE passed
      /\ UNCHANGED clock

Tick ==
  /\ clock < MaxClock
  /\ clock' = clock + 1
  /\ UNCHANGED << log, swept, awsLog, answer, passed >>

Next == Tick \/ \E c \in Clients : Check(c)

Spec == Init /\ [][Next]_vars

-----------------------------------------------------------------------------
(* Safety.                                                                 *)

(* A check passes exactly when the client got fewer than Limit requests    *)
(* through in the window of sixty seconds before it, in both gateways and  *)
(* although times and clients are dropped: refused requests, those of      *)
(* other clients and the sweep cost nobody anything.                       *)
PassesBelowLimit ==
  \A c \in answer.client :
    LET before == Cardinality(Fresh(passed[c], answer.at))
                    - (IF answer.gcp THEN 1 ELSE 0)
    IN  /\ answer.gcp <=> before < Limit
        /\ answer.aws <=> before < Limit

=============================================================================
