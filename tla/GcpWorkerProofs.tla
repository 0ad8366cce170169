-------------------------- MODULE GcpWorkerProofs --------------------------
(***************************************************************************)
(* A GCP worker, whatever the number of requests, threads and permits, and *)
(* for any repositories of weights and modules:                            *)
(*   - loads its model once, although get_model takes no lock: get_model is*)
(*     called by the lifespan before the first request, so that no request *)
(*     ever finds the model missing;                                       *)
(*   - has a thread for every job, as long as no client gives up;          *)
(*   - can load what its build did not reject.  The validation at build    *)
(*     time ends with everything that the modules import.                  *)
(***************************************************************************)
EXTENDS GcpWorker, FiniteSetTheorems, WellFoundedInduction, TLAPS

(* Requests are there only once the port is open; it opens after the load. *)
IInv ==
  /\ DOMAIN req = Requests
  /\ loads \in {0, 1}
  /\ stage \in {"warmup", "serving"} => loads = 1
  /\ stage # "serving" => jobs = << >> /\ \A r \in Requests : req[r] = "idle"
  /\ \A r \in Requests : req[r] # "loading"

LEMMA InitHolds == Init => IInv
BY DEF Init, IInv

LEMMA BootSteps ==
  ASSUME IInv, Build \/ Lifespan \/ Warmup
  PROVE  IInv'
<1>1. stage # "serving" /\ loads \in {0, 1}
  BY DEF IInv, Build, Lifespan, Warmup
<1>2. UNCHANGED << req, jobs >>
  BY DEF Build, Lifespan, Warmup, serveVars
<1>3. CASE Build
  BY <1>1, <1>2, <1>3 DEF IInv, Build
<1>4. CASE Lifespan
  BY <1>1, <1>2, <1>4 DEF IInv, Lifespan, Preloads
<1>5. CASE Warmup
  BY <1>1, <1>2, <1>5 DEF IInv, Warmup
<1> QED
  BY <1>3, <1>4, <1>5

(* Passing the semaphore on starts no load.                                *)
LEMMA Releases ==
  ASSUME IInv, NEW r \in Requests, Release(r, "done") \/ AfterFailure(r)
  PROVE  DOMAIN req' = Requests /\ \A q \in Requests : req'[q] # "loading"
<1>1. Release(r, "done")
  BY DEF AfterFailure
<1> QED
  BY <1>1 DEF IInv, Release

(* A request that is under way: the port is open.                          *)
LEMMA RequestSteps ==
  ASSUME IInv, NEW r \in Requests,
         Accept(r) \/ GiveUp(r) \/ Prepared(r) \/ Encoded(r)
  PROVE  IInv'
<1>1. stage = "serving" /\ loads = 1 /\ stage' = stage
  BY DEF IInv, Accept, GiveUp, Live, Prepared, Encoded, bootVars
<1>2. loads' = loads
  BY DEF IInv, Accept, GiveUp, Prepared, Encoded, bootVars
<1>3. DOMAIN req' = Requests /\ \A q \in Requests : req'[q] # "loading"
  <2>1. CASE Accept(r)
    BY <2>1 DEF IInv, Accept
  <2>2. CASE GiveUp(r)
    BY <2>2 DEF IInv, GiveUp
  <2>3. CASE Prepared(r)
    BY <2>3 DEF IInv, Prepared, Acquire
  <2>4. CASE Encoded(r)
    BY <2>4, Releases DEF Encoded
  <2> QED
    BY <2>1, <2>2, <2>3, <2>4
<1> QED
  BY <1>1, <1>2, <1>3 DEF IInv

LEMMA TakeStep ==
  ASSUME IInv, Take
  PROVE  IInv'
<1>1. stage = "serving" /\ loads = 1
  BY DEF IInv, Take
<1>2. UNCHANGED << stage, loads >>
  BY DEF Take, bootVars
<1>3. DOMAIN req' = Requests /\ \A q \in Requests : req'[q] # "loading"
  BY <1>1 DEF IInv, Take
<1> QED
  BY <1>1, <1>2, <1>3 DEF IInv

(* Whatever the build put into the image and however requests overlap, the *)
(* model is loaded at most once.                                           *)
THEOREM LoadsOnce == Spec => []LoadedOnce
<1>1. IInv /\ [Next]_vars => IInv'
  <2> SUFFICES ASSUME IInv, [Next]_vars PROVE IInv'
    OBVIOUS
  <2>1. CASE UNCHANGED vars
    BY <2>1 DEF IInv, vars, bootVars, serveVars
  <2> QED
    BY <2>1, BootSteps, TakeStep, RequestSteps DEF Next
<1>2. IInv => LoadedOnce
  BY DEF IInv, LoadedOnce
<1> QED
  BY <1>1, <1>2, InitHolds, PTL DEF Spec

-----------------------------------------------------------------------------
(* A thread for every job: the jobs in the pool are those of requests that *)
(* Cloud Run counts, each once.                                            *)

(* The requests in s are different, and f has each where A says.           *)
Line(s, f, A) ==
  /\ s \in Seq(Requests)
  /\ \A i, j \in 1..Len(s) : s[i] = s[j] => i = j
  /\ \A i \in 1..Len(s) : f[s[i]] \in A

InPool == {"queued", "held"}

Lines(js, qs, f) == Line(js, f, InPool) /\ Line(qs, f, {"waiting"})

Counted ==
  /\ IsFiniteSet(Live)
  /\ stage = "serving" => Cardinality(Live) <= settings.concurrency

Opened ==
  stage \in {"boot", "warmup", "serving"} =>
    settings \in [concurrency: Concurrencies, parallel: Parallelisms]

JInv == IInv /\ Opened /\ Lines(jobs, queue, req) /\ Counted

LEMMA LineStays ==
  ASSUME NEW s, NEW f, NEW g, NEW A, Line(s, f, A),
         \A q \in Requests : f[q] \in A => g[q] \in A
  PROVE  Line(s, g, A)
<1>1. \A i \in 1..Len(s) : s[i] \in Requests
  BY DEF Line
<1> QED
  BY <1>1 DEF Line

LEMMA LineGrows ==
  ASSUME NEW s, NEW f, NEW g, NEW A, NEW r \in Requests, Line(s, f, A),
         f[r] \notin A, g[r] \in A,
         \A q \in Requests : f[q] \in A => g[q] \in A
  PROVE  Line(Append(s, r), g, A)
<1> DEFINE t == Append(s, r)
<1>1. s \in Seq(Requests) /\ Len(s) \in Nat
  BY DEF Line
<1>2. /\ t \in Seq(Requests) /\ Len(t) = Len(s) + 1 /\ t[Len(s) + 1] = r
      /\ \A i \in 1..Len(s) : t[i] = s[i]
  BY <1>1
<1>3. \A i \in 1..Len(s) : s[i] \in Requests /\ s[i] # r
  BY DEF Line
<1>4. \A i \in 1..Len(t) : i = Len(s) + 1 \/ i \in 1..Len(s)
  BY <1>1, <1>2
<1>5. \A i, j \in 1..Len(t) : t[i] = t[j] => i = j
  BY <1>2, <1>3, <1>4 DEF Line
<1>6. \A i \in 1..Len(t) : g[t[i]] \in A
  BY <1>2, <1>3, <1>4 DEF Line
<1> QED
  BY <1>2, <1>5, <1>6 DEF Line

LEMMA LineShrinks ==
  ASSUME NEW s, NEW f, NEW g, NEW A, Line(s, f, A), s # << >>,
         \A q \in Requests \ {Head(s)} : f[q] \in A => g[q] \in A
  PROVE  Head(s) \in Requests /\ f[Head(s)] \in A /\ Line(Tail(s), g, A)
<1>1. s \in Seq(Requests) /\ Len(s) \in Nat /\ Len(s) > 0
  BY DEF Line
<1>2. /\ Tail(s) \in Seq(Requests) /\ Len(Tail(s)) = Len(s) - 1
      /\ \A i \in 1..Len(Tail(s)) : Tail(s)[i] = s[i + 1] /\ i + 1 \in 1..Len(s)
      /\ Head(s) = s[1] /\ 1 \in 1..Len(s)
  BY <1>1
<1>3. \A i \in 1..Len(s) : s[i] \in Requests
  BY DEF Line
<1>4. \A i \in 1..Len(Tail(s)) : Tail(s)[i] # Head(s) /\ Tail(s)[i] \in Requests
  BY <1>2, <1>3 DEF Line
<1>5. \A i, j \in 1..Len(Tail(s)) : Tail(s)[i] = Tail(s)[j] => i = j
  <2> SUFFICES ASSUME NEW i \in 1..Len(Tail(s)), NEW j \in 1..Len(Tail(s)),
                      Tail(s)[i] = Tail(s)[j]
               PROVE  i = j
    OBVIOUS
  <2>1. i + 1 = j + 1
    BY <1>2 DEF Line
  <2> QED
    BY <2>1
<1>6. \A i \in 1..Len(Tail(s)) : g[Tail(s)[i]] \in A
  BY <1>2, <1>4 DEF Line
<1> QED
  BY <1>2, <1>3, <1>5, <1>6 DEF Line

LEMMA LineHead ==
  ASSUME NEW s, NEW f, NEW A, Line(s, f, A), s # << >>
  PROVE  Head(s) \in Requests /\ f[Head(s)] \in A
BY LineShrinks

LEMMA Interval ==
  ASSUME NEW n \in Nat
  PROVE  IsFiniteSet(1..n) /\ Cardinality(1..n) = n
BY FS_Interval

(* A line holds each of its requests once.                                 *)
LEMMA LineCounts ==
  ASSUME NEW s, NEW f, NEW A, Line(s, f, A)
  PROVE  LET S == {s[i] : i \in 1..Len(s)}
         IN  IsFiniteSet(S) /\ Cardinality(S) = Len(s)
<1> DEFINE S == {s[i] : i \in 1..Len(s)}
           b == [i \in 1..Len(s) |-> s[i]]
<1>1. Len(s) \in Nat
  BY DEF Line
<1>2. IsFiniteSet(1..Len(s)) /\ Cardinality(1..Len(s)) = Len(s)
  BY <1>1, Interval
<1>3. b \in Bijection(1..Len(s), S)
  BY DEF Line, Bijection, Injection, Surjection, IsInjective
<1> HIDE DEF S, b
<1>4. ExistsBijection(1..Len(s), S)
  BY <1>3 DEF ExistsBijection
<1>5. IsFiniteSet(S) /\ Cardinality(S) = Cardinality(1..Len(s))
  BY <1>2, <1>4, FS_Bijection
<1> QED
  BY <1>2, <1>5 DEF S

-----------------------------------------------------------------------------
(* The steps of the instance.                                              *)

LEMMA LiveShrinks ==
  ASSUME Counted, Live' \subseteq Live,
         stage' = "serving" => stage = "serving" /\ settings' = settings,
         settings.concurrency \in Nat
  PROVE  Counted'
<1>1. /\ IsFiniteSet(Live)' /\ Cardinality(Live') <= Cardinality(Live)
      /\ Cardinality(Live) \in Nat /\ Cardinality(Live') \in Nat
  BY FS_Subset, FS_CardinalityType DEF Counted
<1> QED
  BY <1>1 DEF Counted

LEMMA BootCounts ==
  ASSUME JInv, Build \/ Lifespan \/ Warmup
  PROVE  JInv'
<1>1. IInv' /\ UNCHANGED << req, gone, jobs, queue >> /\ stage # "serving"
  BY BootSteps DEF JInv, Build, Lifespan, Warmup, serveVars
<1>2. Lines(jobs, queue, req)'
  BY <1>1 DEF JInv, Lines
<1>3. Live' = {}
  BY <1>1 DEF JInv, IInv, Live
<1>4. Opened'
  <2>1. CASE Build
    BY <2>1 DEF Build, Opened
  <2>2. CASE Lifespan
    BY <2>2 DEF Lifespan, JInv, Opened
  <2>3. CASE Warmup
    BY <2>3 DEF Warmup, JInv, Opened
  <2> QED
    BY <2>1, <2>2, <2>3
<1>5. stage' = "serving" => settings'.concurrency \in Nat
  BY <1>4, SettingsAssumption DEF Opened
<1>6. IsFiniteSet(Live') /\ Cardinality(Live') = 0
  BY <1>3, FS_EmptySet
<1> QED
  BY <1>1, <1>2, <1>4, <1>5, <1>6 DEF JInv, Counted

(* The semaphore: a permit, or the place in line, goes to one request.     *)
LEMMA ReleaseLines ==
  ASSUME JInv, NEW r \in Requests, req[r] \in {"loading", "encoding"},
         Release(r, "done") \/ AfterFailure(r)
  PROVE  /\ Lines(jobs, queue, req)'
         /\ \A q \in Requests : req'[q] # req[q] =>
              req'[q] = "done" \/ req[q] = "waiting"
<1>0. /\ DOMAIN req = Requests /\ Release(r, "done")
      /\ Line(jobs, req, InPool) /\ Line(queue, req, {"waiting"})
  BY DEF JInv, IInv, Lines, AfterFailure
<1>1. CASE queue = << >>
  <2>1. /\ jobs' = jobs /\ queue' = queue /\ req' = [req EXCEPT ![r] = "done"]
    BY <1>0, <1>1 DEF Release
  <2>2. \A q \in Requests : q # r => req'[q] = req[q]
    BY <1>0, <2>1
  <2>3. Line(jobs, req', InPool) /\ Line(queue, req', {"waiting"})
    BY <1>0, <2>2, LineStays DEF InPool
  <2> QED
    BY <1>0, <2>1, <2>3 DEF Lines
<1>2. CASE queue # << >>
  <2> DEFINE h == Head(queue)
  <2>1. h \in Requests /\ req[h] = "waiting"
    <3>1. Head(queue) \in Requests /\ req[Head(queue)] \in {"waiting"}
      BY <1>0, <1>2, LineHead
    <3> QED
      BY <3>1
  <2> HIDE DEF h
  <2>2. /\ jobs' = Append(jobs, h) /\ queue' = Tail(queue)
        /\ req' = [req EXCEPT ![r] = "done", ![h] = "held"]
    BY <1>0, <1>2 DEF Release, h
  <2>3. /\ req'[r] = "done" /\ req'[h] = "held"
        /\ \A q \in Requests : q \notin {r, h} => req'[q] = req[q]
    BY <1>0, <2>1, <2>2
  <2>4. Line(jobs', req', InPool)
    <3>1. \A q \in Requests : req[q] \in InPool => req'[q] \in InPool
      BY <2>1, <2>3 DEF InPool
    <3>2. req[h] \notin InPool /\ req'[h] \in InPool
      BY <2>1, <2>3 DEF InPool
    <3> QED
      BY <1>0, <2>1, <2>2, <3>1, <3>2, LineGrows
  <2>5. Line(queue', req', {"waiting"})
    <3>1. \A q \in Requests \ {h} : req[q] \in {"waiting"} => req'[q] \in {"waiting"}
      BY <2>3
    <3> QED
      BY <1>0, <1>2, <2>2, <3>1, LineShrinks DEF h
  <2> QED
    BY <2>1, <2>3, <2>4, <2>5 DEF Lines
<1> QED
  BY <1>1, <1>2

LEMMA AcquireLines ==
  ASSUME JInv, NEW r \in Requests, req[r] = "preparing", Acquire(r)
  PROVE  /\ Lines(jobs, queue, req)'
         /\ \A q \in Requests : q # r => req'[q] = req[q]
<1>0. /\ DOMAIN req = Requests
      /\ Line(jobs, req, InPool) /\ Line(queue, req, {"waiting"})
  BY DEF JInv, IInv, Lines
<1>1. CASE permits > 0
  <2>1. /\ jobs' = Append(jobs, r) /\ queue' = queue
        /\ req' = [req EXCEPT ![r] = "held"]
    BY <1>1 DEF Acquire
  <2>2. req'[r] = "held" /\ \A q \in Requests : q # r => req'[q] = req[q]
    BY <1>0, <2>1
  <2>3. /\ req[r] \notin InPool /\ req'[r] \in InPool
        /\ \A q \in Requests : req[q] \in InPool => req'[q] \in InPool
    BY <2>2 DEF InPool
  <2>4. Line(Append(jobs, r), req', InPool)
    BY <1>0, <2>3, LineGrows
  <2>5. Line(queue, req', {"waiting"})
    BY <1>0, <2>2, LineStays
  <2> QED
    BY <2>1, <2>2, <2>4, <2>5 DEF Lines
<1>2. CASE ~(permits > 0)
  <2>1. /\ jobs' = jobs /\ queue' = Append(queue, r)
        /\ req' = [req EXCEPT ![r] = "waiting"]
    BY <1>2 DEF Acquire
  <2>2. req'[r] = "waiting" /\ \A q \in Requests : q # r => req'[q] = req[q]
    BY <1>0, <2>1
  <2>3. /\ req[r] \notin {"waiting"} /\ req'[r] \in {"waiting"}
        /\ \A q \in Requests : req[q] \in {"waiting"} => req'[q] \in {"waiting"}
    BY <2>2
  <2>4. Line(Append(queue, r), req', {"waiting"})
    BY <1>0, <2>3, LineGrows
  <2>5. Line(jobs, req', InPool)
    BY <1>0, <2>2, LineStays DEF InPool
  <2> QED
    BY <2>1, <2>2, <2>4, <2>5 DEF Lines
<1> QED
  BY <1>1, <1>2

(* Cloud Run counts a request more only when it sends one.                 *)
LEMMA AcceptCounts ==
  ASSUME JInv, NEW r \in Requests, Accept(r)
  PROVE  Lines(jobs, queue, req)' /\ Counted'
<1>0. /\ DOMAIN req = Requests
      /\ Line(jobs, req, InPool) /\ Line(queue, req, {"waiting"})
  BY DEF JInv, IInv, Lines
<1>1. /\ jobs' = Append(jobs, r) /\ queue' = queue /\ gone' = gone
      /\ req' = [req EXCEPT ![r] = "queued"] /\ req[r] = "idle"
      /\ stage = "serving" /\ stage' = stage /\ settings' = settings
  BY DEF Accept, bootVars
<1>2. req'[r] = "queued" /\ \A q \in Requests : q # r => req'[q] = req[q]
  BY <1>0, <1>1
<1>3. Lines(jobs, queue, req)'
  <2>1. /\ req[r] \notin InPool /\ req'[r] \in InPool
        /\ \A q \in Requests : req[q] \in InPool => req'[q] \in InPool
    BY <1>1, <1>2 DEF InPool
  <2>2. Line(Append(jobs, r), req', InPool)
    BY <1>0, <2>1, LineGrows
  <2>3. Line(queue, req', {"waiting"})
    BY <1>0, <1>1, <1>2, LineStays
  <2> QED
    BY <1>1, <2>2, <2>3 DEF Lines
<1>4. Live' \subseteq Live \cup {r}
  BY <1>1, <1>2 DEF Live
<1>5. IsFiniteSet(Live) /\ Cardinality(Live) < settings.concurrency
  BY DEF JInv, Counted, Accept
<1>6. IsFiniteSet(Live \cup {r}) /\ Cardinality(Live \cup {r}) <= Cardinality(Live) + 1
  <2>1. Cardinality(Live) \in Nat
    BY <1>5, FS_CardinalityType
  <2>2. /\ IsFiniteSet(Live \cup {r})
        /\ Cardinality(Live \cup {r}) =
             IF r \in Live THEN Cardinality(Live) ELSE Cardinality(Live) + 1
    BY <1>5, FS_AddElement
  <2> QED
    BY <2>1, <2>2
<1>7. /\ IsFiniteSet(Live') /\ Cardinality(Live') <= Cardinality(Live \cup {r})
      /\ Cardinality(Live') \in Nat /\ Cardinality(Live) \in Nat
      /\ Cardinality(Live \cup {r}) \in Nat
  BY <1>4, <1>5, <1>6, FS_Subset, FS_CardinalityType
<1>8. settings.concurrency \in Nat
  BY <1>1, SettingsAssumption DEF JInv, Opened
<1> QED
  BY <1>1, <1>3, <1>5, <1>6, <1>7, <1>8 DEF Counted

LEMMA ServingCounts ==
  ASSUME JInv, NEW r \in Requests, GiveUp(r) \/ Prepared(r) \/ Encoded(r)
  PROVE  Lines(jobs, queue, req)' /\ Live' \subseteq Live
<1>0. DOMAIN req = Requests /\ Lines(jobs, queue, req)
  BY DEF JInv, IInv
<1>1. CASE GiveUp(r)
  BY <1>0, <1>1 DEF GiveUp, Live, Lines
<1>2. CASE Prepared(r)
  <2>1. req[r] = "preparing" /\ gone' = gone
    BY <1>2 DEF Prepared
  <2>2. CASE Acquire(r)
    BY <2>1, <2>2, AcquireLines DEF Live
  <2>3. CASE req' = [req EXCEPT ![r] = "done"] /\ UNCHANGED << jobs, permits, queue >>
    <3>1. \A q \in Requests : q # r => req'[q] = req[q]
      BY <1>0, <2>3
    <3>2. Line(jobs, req', InPool) /\ Line(queue, req', {"waiting"})
      BY <1>0, <2>1, <3>1, LineStays DEF Lines, InPool
    <3>3. req'[r] = "done"
      BY <1>0, <2>3
    <3> QED
      BY <2>1, <2>3, <3>1, <3>2, <3>3 DEF Lines, Live
  <2> QED
    BY <1>2, <2>2, <2>3 DEF Prepared
<1>3. CASE Encoded(r)
  BY <1>3, ReleaseLines DEF Encoded, Live
<1> QED
  BY <1>1, <1>2, <1>3

LEMMA TakeCounts ==
  ASSUME JInv, Take
  PROVE  Lines(jobs, queue, req)' /\ Live' \subseteq Live
<1>0. /\ DOMAIN req = Requests /\ jobs # << >>
      /\ Line(jobs, req, InPool) /\ Line(queue, req, {"waiting"})
  BY DEF JInv, IInv, Lines, Take
<1> DEFINE h == Head(jobs)
<1>1. h \in Requests /\ req[h] \in InPool
  BY <1>0, LineHead
<1>2. /\ jobs' = Tail(jobs) /\ queue' = queue /\ gone' = gone
      /\ DOMAIN req' = Requests
      /\ req'[h] \in {"preparing", "loading", "encoding"}
      /\ \A q \in Requests : q # h => req'[q] = req[q]
  BY <1>0, <1>1 DEF Take
<1>3. Line(Tail(jobs), req', InPool)
  BY <1>0, <1>2, LineShrinks
<1>4. Line(queue, req', {"waiting"})
  BY <1>0, <1>1, <1>2, LineStays DEF InPool
<1> QED
  BY <1>1, <1>2, <1>3, <1>4 DEF Lines, Live, InPool

LEMMA InitCounts == Init => JInv
<1> SUFFICES ASSUME Init PROVE JInv
  OBVIOUS
<1>1. Live = {} /\ stage = "build"
  BY DEF Init, Live
<1>2. Line(<< >>, req, InPool) /\ Line(<< >>, req, {"waiting"})
  BY DEF Line
<1>3. Counted
  BY <1>1, FS_EmptySet DEF Counted
<1>4. Opened /\ Lines(jobs, queue, req)
  BY <1>1, <1>2 DEF Init, Opened, Lines
<1> QED
  BY <1>3, <1>4, InitHolds DEF JInv

LEMMA StepCounts == JInv /\ [Next]_vars => JInv'
<1> SUFFICES ASSUME JInv, [Next]_vars PROVE JInv'
  OBVIOUS
<1>1. CASE UNCHANGED vars
  BY <1>1 DEF JInv, IInv, Opened, Lines, Line, Counted, Live, vars, bootVars, serveVars
<1>2. CASE Build \/ Lifespan \/ Warmup
  BY <1>2, BootCounts
<1>3. ASSUME NEW r \in Requests, Accept(r)
      PROVE  JInv'
  <2>1. IInv' /\ Lines(jobs, queue, req)' /\ Counted'
    BY <1>3, RequestSteps, AcceptCounts DEF JInv
  <2>2. Opened'
    BY <1>3 DEF Accept, bootVars, JInv, Opened
  <2> QED
    BY <2>1, <2>2 DEF JInv
<1>4. ASSUME IInv', UNCHANGED << stage, settings >>, stage = "serving",
             Lines(jobs, queue, req)', Live' \subseteq Live
      PROVE  JInv'
  <2>1. Opened' /\ settings.concurrency \in Nat /\ Counted
    BY <1>4, SettingsAssumption DEF JInv, Opened
  <2>2. Counted'
    BY <1>4, <2>1, LiveShrinks
  <2> QED
    BY <1>4, <2>1, <2>2 DEF JInv
<1>5. ASSUME NEW r \in Requests, GiveUp(r) \/ Prepared(r) \/ Encoded(r)
      PROVE  JInv'
  <2>1. IInv' /\ Lines(jobs, queue, req)' /\ Live' \subseteq Live
    BY <1>5, RequestSteps, ServingCounts DEF JInv
  <2>2. stage = "serving" /\ UNCHANGED << stage, settings >>
    BY <1>5 DEF JInv, IInv, GiveUp, Live, Prepared, Encoded, bootVars
  <2> QED
    BY <1>4, <2>1, <2>2
<1>6. CASE Take
  <2>1. IInv' /\ Lines(jobs, queue, req)' /\ Live' \subseteq Live
    BY <1>6, TakeStep, TakeCounts DEF JInv
  <2>2. stage = "serving" /\ UNCHANGED << stage, settings >>
    BY <1>6 DEF JInv, IInv, Take, bootVars
  <2> QED
    BY <1>4, <2>1, <2>2
<1> QED
  BY <1>1, <1>2, <1>3, <1>5, <1>6 DEF Next

(* While no client has given up, Cloud Run counts every request that has a *)
(* thread or a job; they are no more than there are threads.               *)
LEMMA CountsFit == JInv => ThreadForEveryJob
<1> SUFFICES ASSUME JInv, stage = "serving", \A r \in gone : req[r] = "done"
             PROVE  Cardinality(Running) + Len(jobs) <= Threads
  BY DEF ThreadForEveryJob
<1> DEFINE J == {jobs[i] : i \in 1..Len(jobs)}
<1>1. Line(jobs, req, InPool) /\ IsFiniteSet(Live)
  BY DEF JInv, Lines, Counted
<1>2. IsFiniteSet(J) /\ Cardinality(J) = Len(jobs)
  BY <1>1, LineCounts
<1>3. \A r \in J : r \in Requests /\ req[r] \in InPool
  BY <1>1 DEF Line
<1>4. Running \subseteq Live /\ J \subseteq Live /\ Running \cap J = {}
  BY <1>3 DEF Running, Live, InPool
<1> HIDE DEF J
<1>5. IsFiniteSet(Running) /\ Running \cup J \subseteq Live
  BY <1>1, <1>4, FS_Subset
<1>6. Cardinality(Running \cup J) <= Cardinality(Live)
  BY <1>1, <1>5, FS_Subset
<1>7. Cardinality(Running \cup J)
        = Cardinality(Running) + Cardinality(J) - Cardinality(Running \cap J)
  BY <1>2, <1>5, FS_Union
<1>8. Cardinality(Running \cap J) = 0
  BY <1>4, FS_EmptySet
<1>9. /\ Cardinality(Running) \in Nat /\ Cardinality(J) \in Nat
      /\ Cardinality(Live) \in Nat
  BY <1>1, <1>2, <1>5, FS_CardinalityType
<1>10. /\ settings.concurrency \in Nat /\ Cardinality(Live) <= settings.concurrency
       /\ Threads \in Nat /\ settings.concurrency <= Threads
  <2>1. settings \in [concurrency: Concurrencies, parallel: Parallelisms]
    BY DEF JInv, Opened
  <2>2. settings.concurrency \in Nat
    BY <2>1, SettingsAssumption
  <2>3. Cardinality(Live) <= settings.concurrency
    BY DEF JInv, Counted
  <2>4. Threads \in Nat /\ settings.concurrency <= Threads
    BY <2>2 DEF Threads
  <2> QED
    BY <2>2, <2>3, <2>4
<1> QED
  BY <1>2, <1>6, <1>7, <1>8, <1>9, <1>10

(* Whatever WORKER_CONCURRENCY is, as long as no client has given up the   *)
(* executor has a thread for every job that is running or in its queue.    *)
THEOREM ThreadsSuffice == Spec => []ThreadForEveryJob
BY InitCounts, StepCounts, CountsFit, PTL DEF Spec

-----------------------------------------------------------------------------
(* The validation of the modules.  After as many rounds as there are       *)
(* modules the worklist is empty: what was seen is closed under imports.   *)

LEMMA LeastNumber ==
  ASSUME NEW T, T \subseteq Nat, T # {}
  PROVE  \E m \in T : \A n \in T : m <= n
<1>1. IsWellFoundedOn(OpToRel(<, Nat), Nat)
  BY NatLessThanWellFounded
<1>2. PICK m \in T : \A n \in T : ~(<< n, m >> \in OpToRel(<, Nat))
  BY <1>1, WFMin
<1>3. \A n \in T : ~(n < m)
  BY <1>2 DEF OpToRel
<1> QED
  BY <1>3

Imported(files, imports, S) == UNION {imports[m] : m \in S \cap files}

(* f holds what was seen after each of n rounds.                           *)
Rounds(f, files, imports, roots, n) ==
  f = [i \in 0 .. n |-> IF i = 0 THEN roots
                        ELSE f[i - 1] \cup Imported(files, imports, f[i - 1])]

After(files, imports, roots) ==
  CHOOSE f : Rounds(f, files, imports, roots, Cardinality(Modules))

LEMMA SeenIsAfter ==
  ASSUME NEW files, NEW imports, NEW roots
  PROVE  Seen(files, imports, roots) = After(files, imports, roots)[Cardinality(Modules)]
BY DEF Seen, After, Rounds, Imported

LEMMA RoundStep ==
  ASSUME NEW files, NEW imports, NEW roots, NEW f, NEW n \in Nat,
         Rounds(f, files, imports, roots, n), NEW i \in 0 .. n
  PROVE  f[i] = IF i = 0 THEN roots
                ELSE f[i - 1] \cup Imported(files, imports, f[i - 1])
BY DEF Rounds

LEMMA RoundsExist ==
  ASSUME NEW files, NEW imports, NEW roots, NEW n \in Nat
  PROVE  \E f : Rounds(f, files, imports, roots, n)
<1> DEFINE T == {k \in Nat : ~ \E f : Rounds(f, files, imports, roots, k)}
<1> SUFFICES ASSUME T # {} PROVE FALSE
  OBVIOUS
<1>1. PICK m \in T : \A k \in T : m <= k
  <2>1. T \subseteq Nat
    OBVIOUS
  <2> HIDE DEF T
  <2> QED
    BY <2>1, LeastNumber
<1>2. m \in Nat /\ ~ \E f : Rounds(f, files, imports, roots, m)
  BY <1>1
<1>3. m # 0
  <2> DEFINE g == [i \in 0 .. 0 |-> roots]
  <2>1. Rounds(g, files, imports, roots, 0)
    BY DEF Rounds
  <2> QED
    BY <1>2, <2>1
<1>4. m - 1 \in Nat /\ ~(m <= m - 1)
  BY <1>2, <1>3
<1>5. PICK g : Rounds(g, files, imports, roots, m - 1)
  BY <1>1, <1>4
<1> HIDE DEF T
<1> DEFINE f == [i \in 0 .. m |-> IF i = 0 THEN roots
                   ELSE g[i - 1] \cup Imported(files, imports, g[i - 1])]
<1>6. \A i \in 0 .. m - 1 : f[i] = g[i]
  <2> SUFFICES ASSUME NEW i \in 0 .. m - 1 PROVE f[i] = g[i]
    OBVIOUS
  <2>1. i \in 0 .. m
    BY <1>2
  <2>2. f[i] = IF i = 0 THEN roots
               ELSE g[i - 1] \cup Imported(files, imports, g[i - 1])
    BY <2>1
  <2>3. g[i] = IF i = 0 THEN roots
               ELSE g[i - 1] \cup Imported(files, imports, g[i - 1])
    BY <1>4, <1>5, RoundStep
  <2> QED
    BY <2>2, <2>3
<1>7. ASSUME NEW i \in 0 .. m, i # 0 PROVE f[i - 1] = g[i - 1]
  <2>1. i - 1 \in 0 .. m - 1
    BY <1>2, <1>7
  <2> QED
    BY <1>6, <2>1
<1>8. Rounds(f, files, imports, roots, m)
  BY <1>7 DEF Rounds
<1> QED
  BY <1>2, <1>8

(* Only modules of a file are asked for their imports.                     *)
Closed(S, files, imports) == \A m \in S \cap files : imports[m] \subseteq S

LEMMA ClosedStays ==
  ASSUME NEW S, NEW files, NEW imports, Closed(S, files, imports)
  PROVE  S \cup Imported(files, imports, S) = S
BY DEF Closed, Imported

LEMMA OpenGrows ==
  ASSUME NEW files, NEW imports \in [Modules -> SUBSET Modules], NEW S \in SUBSET Modules,
         ~Closed(S, files, imports)
  PROVE  LET R == S \cup Imported(files, imports, S)
         IN  R \in SUBSET Modules /\ R # S /\ S \in SUBSET R
BY DEF Closed, Imported

(* Each round that does not find the worklist empty sees a module more.    *)
LEMMA RoundsClose ==
  ASSUME NEW files, NEW imports \in [Modules -> SUBSET Modules], NEW roots \in SUBSET Modules,
         NEW n \in Nat, NEW f, Rounds(f, files, imports, roots, n), NEW k \in 0 .. n
  PROVE  /\ f[k] \in SUBSET Modules /\ roots \subseteq f[k]
         /\ Closed(f[k], files, imports) \/ Cardinality(f[k]) >= k
<1> DEFINE P(i) == /\ f[i] \in SUBSET Modules /\ roots \subseteq f[i]
                   /\ Closed(f[i], files, imports) \/ Cardinality(f[i]) >= i
           T == {i \in 0 .. n : ~P(i)}
<1> SUFFICES ASSUME T # {} PROVE FALSE
  OBVIOUS
<1>1. PICK m \in T : \A i \in T : m <= i
  <2>1. T \subseteq Nat
    OBVIOUS
  <2> HIDE DEF T
  <2> QED
    BY <2>1, LeastNumber
<1>2. m \in 0 .. n /\ ~P(m)
  BY <1>1
<1>3. f[m] = IF m = 0 THEN roots
             ELSE f[m - 1] \cup Imported(files, imports, f[m - 1])
  <2>1. m \in 0 .. n
    BY <1>2
  <2> HIDE DEF T, P
  <2> QED
    BY <2>1, RoundStep
<1>4. m # 0
  <2>1. ASSUME m = 0 PROVE P(m)
    <3>1. f[m] = roots
      BY <1>3, <2>1
    <3>2. IsFiniteSet(f[m])
      BY <3>1, ModulesAssumption, FS_Subset
    <3>3. Cardinality(f[m]) \in Nat
      BY <3>2, FS_CardinalityType
    <3>4. Cardinality(f[m]) >= m
      BY <2>1, <3>3
    <3> QED
      BY <3>1, <3>4
  <2> QED
    BY <1>2, <2>1
<1>5. m - 1 \in 0 .. n /\ ~(m <= m - 1)
  BY <1>2, <1>4
<1>6. P(m - 1)
  BY <1>1, <1>5
<1> HIDE DEF T
<1> DEFINE S == f[m - 1]
           R == S \cup Imported(files, imports, S)
<1>7. f[m] = R
  BY <1>3, <1>4
<1>8. S \in SUBSET Modules /\ roots \subseteq S
      /\ (Closed(S, files, imports) \/ Cardinality(S) >= m - 1)
  BY <1>6
<1> HIDE DEF S
<1>9. CASE Closed(S, files, imports)
  <2>1. R = S
    BY <1>9, ClosedStays
  <2> QED
    BY <1>2, <1>7, <1>8, <1>9, <2>1
<1>10. CASE ~Closed(S, files, imports)
  <2>1. R \in SUBSET Modules /\ R # S /\ S \in SUBSET R
    BY <1>8, <1>10, OpenGrows
  <2> HIDE DEF R
  <2>2. IsFiniteSet(R)
    BY <2>1, ModulesAssumption, FS_Subset
  <2>3. Cardinality(S) <= Cardinality(R) /\ Cardinality(R) # Cardinality(S) /\ IsFiniteSet(S)
    BY <2>1, <2>2, FS_Subset
  <2>4. Cardinality(S) \in Nat /\ Cardinality(R) \in Nat
    BY <2>2, <2>3, FS_CardinalityType
  <2>5. Cardinality(R) >= m
    BY <1>2, <1>8, <1>10, <2>3, <2>4
  <2>6. roots \subseteq R
    BY <1>8, <2>1
  <2> QED
    BY <1>2, <1>7, <2>1, <2>5, <2>6
<1> QED
  BY <1>9, <1>10

LEMMA SeenIsClosed ==
  ASSUME NEW files, NEW imports \in [Modules -> SUBSET Modules], NEW roots \in SUBSET Modules
  PROVE  LET S == Seen(files, imports, roots)
         IN  S \in SUBSET Modules /\ roots \subseteq S /\ Closed(S, files, imports)
<1> DEFINE c == Cardinality(Modules)
           f == After(files, imports, roots)
<1>1. c \in Nat /\ c \in 0 .. c
  <2>1. c \in Nat
    BY ModulesAssumption, FS_CardinalityType
  <2> QED
    BY <2>1
<1>2. Rounds(f, files, imports, roots, c)
  <2>1. \E g : Rounds(g, files, imports, roots, c)
    BY <1>1, RoundsExist
  <2> QED
    BY <2>1 DEF After
<1> HIDE DEF f
<1>3. /\ f[c] \in SUBSET Modules /\ roots \subseteq f[c]
      /\ Closed(f[c], files, imports) \/ Cardinality(f[c]) >= c
  <2> HIDE DEF c
  <2> QED
    BY <1>1, <1>2, RoundsClose
<1>4. Closed(f[c], files, imports)
  <2>1. CASE Cardinality(f[c]) >= c
    <3>1. /\ IsFiniteSet(f[c]) /\ Cardinality(f[c]) <= Cardinality(Modules)
          /\ Cardinality(f[c]) = Cardinality(Modules) => f[c] = Modules
      BY <1>3, ModulesAssumption, FS_Subset
    <3>2. Cardinality(f[c]) \in Nat
      BY <3>1, FS_CardinalityType
    <3>3. f[c] = Modules
      BY <1>1, <2>1, <3>1, <3>2
    <3> QED
      BY <3>3 DEF Closed
  <2> QED
    BY <1>3, <2>1
<1> QED
  BY <1>3, <1>4, SeenIsAfter DEF f

(* What passes the validation has all that its modules need.               *)
LEMMA ValidatedHasModules ==
  ASSUME NEW r \in Repo, NEW files, NEW roots \in SUBSET Modules,
         Validated(files, r, roots)
  PROVE  HasModules(files, r, roots)
<1> DEFINE S == Seen(files, r.imports, roots)
<1>1. r.imports \in [Modules -> SUBSET Modules]
  BY DEF Repo
<1>2. S \in SUBSET Modules /\ roots \subseteq S /\ Closed(S, files, r.imports)
  BY <1>1, SeenIsClosed
<1>3. \A m \in S : m \in files /\ m \notin r.odd
  BY DEF Validated
<1> HIDE DEF S
<1>4. \A x \in S : r.imports[x] \subseteq S
  BY <1>2, <1>3 DEF Closed
<1>5. Needed(r.imports, roots) \subseteq S
  BY <1>2, <1>4 DEF Needed
<1> QED
  BY <1>3, <1>5 DEF HasModules

(* Every directory that had weights keeps some.                            *)
LEMMA WeightsRemain ==
  ASSUME NEW weights, NEW d \in Dirs, NEW k \in Kinds, << d, k >> \in weights
  PROVE  \E h \in Kinds : << d, h >> \in Downloaded(weights)
<1>1. CASE << d, "safetensors" >> \in weights
  BY <1>1 DEF Downloaded, Kinds
<1>2. CASE << d, "safetensors" >> \notin weights
  BY <1>2 DEF Downloaded
<1> QED
  BY <1>1, <1>2

(* An image that was built with a model and does not load was not pinned.  *)
LEMMA BuildsLoad ==
  ASSUME NEW r \in Repo, ~BuildFails(r), NEW hub, ~Loads(Built(r), r, hub)
  PROVE  \/ ~r.named
         \/ Built(r).remote # {}
         \/ ~r.pinned /\ ~HasModules(r.own, r, Named(r.refs, {"own"}))
<1> SUFFICES ASSUME r.named, Built(r).remote = {}
             PROVE  ~r.pinned /\ ~HasModules(r.own, r, Named(r.refs, {"own"}))
  OBVIOUS
<1>1. Built(r).weights = Downloaded(r.weights)
  BY DEF Built, Localized, Unlocalized
<1>2. ~HasModules(Built(r).modules, r, Built(r).local)
  <2>1. Built(r) # Empty
    BY <1>1 DEF BuildFails, Empty
  <2> QED
    BY <1>1, <2>1, WeightsRemain DEF Loads
<1>3. CASE r.pinned
  <2>1. /\ Built(r).modules = r.own \cup r.code
        /\ Built(r).local = Named(r.refs, Origins)
    BY <1>3 DEF Built, Localized
  <2>2. Validated(r.own \cup r.code, r, Named(r.refs, Origins))
    BY <1>3 DEF BuildFails
  <2>3. Named(r.refs, Origins) \in SUBSET Modules
    BY DEF Named
  <2> QED
    BY <1>2, <2>1, <2>2, <2>3, ValidatedHasModules
<1>4. CASE ~r.pinned
  <2>1. Built(r).modules = r.own /\ Built(r).local = Named(r.refs, {"own"})
    BY <1>4 DEF Built, Unlocalized
  <2> QED
    BY <1>2, <1>4, <2>1
<1> QED
  BY <1>3, <1>4

(* An image was built until it is loaded; if there still is one after a    *)
(* crash, it did not load.                                                 *)
ImageInv ==
  /\ stage = "build"  => repo \in Repos /\ image = None
  /\ stage = "boot"   => repo \in Repos /\ image = Built(repo) /\ ~BuildFails(repo)
  /\ stage = "warmup" => image = None
  /\ stage = "crashed" /\ image # None =>
       /\ repo \in Repos /\ image = Built(repo) /\ ~BuildFails(repo)
       /\ \E hub \in BOOLEAN : ~Loads(image, repo, hub)

LEMMA ImageStep == ImageInv /\ [Next]_vars => ImageInv'
<1> SUFFICES ASSUME ImageInv, [Next]_vars PROVE ImageInv'
  OBVIOUS
<1>1. CASE UNCHANGED << stage, repo, image >>
  BY <1>1 DEF ImageInv
<1>2. CASE Build
  BY <1>2 DEF ImageInv, Build
<1>3. CASE Lifespan
  <2>1. PICK hub \in BOOLEAN :
          IF Loads(image, repo, hub)
          THEN stage' \in {"warmup", "serving"} /\ repo' = None /\ image' = None
          ELSE stage' = "crashed" /\ UNCHANGED << repo, image >>
    BY <1>3 DEF Lifespan
  <2>2. stage = "boot"
    BY <1>3 DEF Lifespan
  <2>3. CASE Loads(image, repo, hub)
    BY <2>1, <2>3 DEF ImageInv
  <2>4. CASE ~Loads(image, repo, hub)
    <3>1. stage' = "crashed" /\ repo' = repo /\ image' = image
      BY <2>1, <2>4
    <3> QED
      BY <2>2, <2>4, <3>1 DEF ImageInv
  <2> QED
    BY <2>3, <2>4
<1>4. CASE Warmup
  BY <1>4 DEF ImageInv, Warmup
<1>5. ASSUME NEW r \in Requests, Accept(r) \/ GiveUp(r) \/ Prepared(r) \/ Encoded(r)
      PROVE  UNCHANGED << stage, repo, image >>
  BY <1>5 DEF Accept, GiveUp, Prepared, Encoded, bootVars
<1>6. CASE Take
  BY <1>1, <1>6 DEF Take, bootVars
<1>7. CASE UNCHANGED vars
  BY <1>1, <1>7 DEF vars, bootVars
<1> QED
  BY <1>1, <1>2, <1>3, <1>4, <1>5, <1>6, <1>7 DEF Next

(* What a build lets through loads, offline too, unless it warned of code  *)
(* that is not pinned, or nothing was pinned and the model's own modules   *)
(* are not complete, or there was no model to build.                       *)
THEOREM BuiltImagesLoad == Spec => []BuiltImageLoads
<1>1. Init => ImageInv
  BY DEF Init, ImageInv
<1>2. ImageInv => BuiltImageLoads
  <2> SUFFICES ASSUME ImageInv, stage = "crashed", image # None
               PROVE  \/ ~repo.named
                      \/ image.remote # {}
                      \/ ~repo.pinned /\ ~HasModules(repo.own, repo, Named(repo.refs, {"own"}))
    BY DEF BuiltImageLoads
  <2>1. /\ repo \in Repo /\ image = Built(repo) /\ ~BuildFails(repo)
        /\ \E hub \in BOOLEAN : ~Loads(image, repo, hub)
    BY SettingsAssumption DEF ImageInv
  <2> QED
    BY <2>1, BuildsLoad
<1> QED
  BY <1>1, <1>2, ImageStep, PTL DEF Spec

=============================================================================
