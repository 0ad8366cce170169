-------------------------- MODULE LaunchPoolProofs --------------------------
(***************************************************************************)
(* What makes a launch safe from other launches and from the clean-up, for *)
(* any number of calls and sweeps: the lock lasts for a survey, and        *)
(* whatever removes workers, reservations and MicroVMs keeps away from a   *)
(* launch that is no older than it may be (IInv).  From this the pool      *)
(* grows within its limit: what a call has counted is still all there is   *)
(* while it decides, but for workers that a late claim brings back (PInv); *)
(* and a registered worker is spared: nothing that was written about its   *)
(* launch is left to be cleaned up (SInv).  Nothing is assumed of how late *)
(* a claim commits.                                                        *)
(***************************************************************************)
EXTENDS LaunchPool, FiniteSetTheorems, TLAPS

CallFields  == {"step", "locked", "now", "candidates", "full", "launched"}
ResvFields  == {"status", "vm", "expires"}
InstFields  == {"status", "busy", "soft", "hard"}
VmFields    == {"state", "started"}
SweepFields == {"on", "doomed", "stale", "named", "orphans", "erasing", "clearing"}

Shaped ==
  /\ clock \in Nat
  /\ DOMAIN call = Calls /\ \A c \in Calls : DOMAIN call[c] = CallFields
  /\ DOMAIN resv = Calls /\ \A c \in Calls : DOMAIN resv[c] = ResvFields
  /\ DOMAIN inst = Calls /\ \A c \in Calls : DOMAIN inst[c] = InstFields
  /\ DOMAIN vm = Calls   /\ \A c \in Calls : DOMAIN vm[c] = VmFields
  /\ DOMAIN sweep = Sweepers /\ \A s \in Sweepers : DOMAIN sweep[s] = SweepFields

Surveying(c) == call[c].step \in {"survey", "decide"}
Early(c)     == call[c].step \in {"idle", "survey", "decide"}
Launching(c) == call[c].step \in {"launch", "record", "boot", "register"}

(* Between its two reads of the clock and its reservation a call owns the  *)
(* lock, and is not late.                                                  *)
Locked(c) ==
  /\ Surveying(c) =>
       /\ call[c].locked \in Nat
       /\ lock = [owner |-> c, until |-> call[c].locked + LockSeconds]
       /\ call[c].locked <= clock /\ clock <= call[c].locked + SurveyTime
  /\ call[c].step = "decide" =>
       call[c].now \in Nat /\ call[c].locked <= call[c].now /\ call[c].now <= clock

(* Nobody is about to remove what belongs to c.                            *)
Untouched(c) ==
  /\ c \notin removals
  /\ \A s \in Sweepers :
       /\ c \notin sweep[s].doomed  /\ c \notin sweep[s].stale
       /\ c \notin sweep[s].named   /\ c \notin sweep[s].orphans
       /\ c \notin sweep[s].erasing /\ c \notin sweep[s].clearing

(* A call that has not written anything yet.                               *)
Blank(c) ==
  Early(c) =>
    /\ inst[c].status = "none" /\ resv[c].status = "none" /\ vm[c].state = "none"
    /\ Untouched(c)

(* A launch that is under way, with its reservation.                       *)
Young(c) ==
  Launching(c) =>
    /\ call[c].now \in Nat
    /\ call[c].now <= clock /\ clock <= call[c].now + LaunchTime
    /\ inst[c].status = "none"
    /\ resv[c].status = "pending"
    /\ resv[c].expires = call[c].now + ReservationSeconds
    /\ IF call[c].step = "launch" THEN vm[c].state = "none"
       ELSE /\ vm[c].state = "running"
            /\ vm[c].started \in Nat /\ call[c].now <= vm[c].started
    /\ Untouched(c)

IInv == Shaped /\ \A c \in Calls : Locked(c) /\ Blank(c) /\ Young(c)

(* How the durations in the code are ordered: a survey takes one query, the*)
(* lock 180 s; a launch waits twice for up to 120 s, against reservations  *)
(* of 300 s, a grace for orphans of 300 s at least, and hours of life.     *)
Durations ==
  /\ SurveyTime <= LockSeconds /\ SurveyTime <= LaunchTime
  /\ LaunchTime < ReservationSeconds
  /\ LaunchTime < OrphanGrace
  /\ LaunchTime < HardTtl

LEMMA InitHolds == Init => IInv
BY DEF Init, IInv, Shaped, Locked, Blank, Young, Surveying, Early, Launching,
       Untouched, NoCall, SweepOff, CallFields, ResvFields, InstFields,
       VmFields, SweepFields

-----------------------------------------------------------------------------
(* Steps of the world around the calls.                                    *)

(* They leave alone whatever belongs to a call before its registration.    *)
Spares(c) ==
  Early(c) \/ Launching(c) =>
    /\ vm'[c] = vm[c] /\ resv'[c] = resv[c] /\ inst'[c].status = inst[c].status
    /\ Untouched(c)'

LEMMA SparedHolds ==
  ASSUME IInv, Shaped', UNCHANGED << clock, call, lock >>,
         \A c \in Calls : Spares(c)
  PROVE  IInv'
<1> SUFFICES ASSUME NEW c \in Calls PROVE (Locked(c) /\ Blank(c) /\ Young(c))'
  BY DEF IInv
<1>1. Locked(c)'
  BY DEF IInv, Locked, Surveying
<1>2. Blank(c)'
  BY DEF IInv, Blank, Early, Spares
<1>3. Young(c)'
  BY DEF IInv, Young, Launching, Spares
<1> QED
  BY <1>1, <1>2, <1>3

LEMMA WorkerSpares ==
  ASSUME IInv, Durations, NEW w \in Calls, WorkerStep(w)
  PROVE  /\ Shaped' /\ UNCHANGED << clock, call, lock >>
         /\ \A c \in Calls : Spares(c)
<1>1. UNCHANGED << clock, call, lock, removals, sweep, resv >>
  BY DEF WorkerStep, WorkerClaimed, WorkerReleased, WorkerFails, PlatformStops
<1>2. ~Early(w) /\ ~Launching(w)
  <2>1. inst[w].status = "READY" => ~Early(w) /\ ~Launching(w)
    BY DEF IInv, Blank, Young
  <2>2. CASE vm[w].state = "running" /\ vm[w].started + HardTtl <= clock
    BY <2>2, BoundsAssumption DEF IInv, Shaped, Blank, Young, Durations, Early, Launching
  <2> QED
    BY <2>1, <2>2 DEF WorkerStep, WorkerClaimed, Claimable, WorkerReleased,
                      WorkerFails, PlatformStops
<1>3. \A c \in Calls \ {w} : vm'[c] = vm[c] /\ inst'[c] = inst[c]
  BY DEF IInv, Shaped, WorkerStep, WorkerClaimed, Claim, WorkerReleased,
         WorkerFails, PlatformStops, Stop
<1>4. Shaped'
  BY <1>1 DEF IInv, Shaped, WorkerStep, WorkerClaimed, Claim, WorkerReleased,
              WorkerFails, PlatformStops, Stop
<1>5. ASSUME NEW c \in Calls PROVE Spares(c)
  BY <1>1, <1>2, <1>3 DEF IInv, Spares, Blank, Young, Untouched
<1> QED
  BY <1>1, <1>4, <1>5

LEMMA StreamSpares ==
  ASSUME IInv, Durations, NEW w \in Calls,
         TtlRemovesReservation(w) \/ TtlRemovesInstance(w) \/ StreamTerminates(w)
  PROVE  /\ Shaped' /\ UNCHANGED << clock, call, lock >>
         /\ \A c \in Calls : Spares(c)
<1>1. UNCHANGED << clock, call, lock, sweep >>
  BY DEF TtlRemovesReservation, TtlRemovesInstance, StreamTerminates
<1>2. ~Early(w) /\ ~Launching(w)
  <2>1. CASE TtlRemovesReservation(w)
    BY <2>1, BoundsAssumption
    DEF TtlRemovesReservation, IInv, Shaped, Blank, Young, Durations
  <2>2. CASE TtlRemovesInstance(w)
    BY <2>2 DEF TtlRemovesInstance, IInv, Blank, Young
  <2>3. CASE StreamTerminates(w)
    BY <2>3 DEF StreamTerminates, IInv, Blank, Young, Untouched
  <2> QED
    BY <2>1, <2>2, <2>3
<1>3. /\ \A c \in Calls \ {w} : vm'[c] = vm[c] /\ inst'[c] = inst[c] /\ resv'[c] = resv[c]
      /\ removals' \subseteq removals \cup {w}
  BY DEF IInv, Shaped, TtlRemovesReservation, TtlRemovesInstance,
         StreamTerminates, DropReservation, DropInstance, Stop
<1>4. Shaped'
  BY <1>1 DEF IInv, Shaped, TtlRemovesReservation, TtlRemovesInstance,
              StreamTerminates, DropReservation, DropInstance, Stop,
              ResvFields, InstFields, VmFields
<1>5. ASSUME NEW c \in Calls PROVE Spares(c)
  BY <1>1, <1>2, <1>3 DEF IInv, Spares, Blank, Young, Untouched
<1> QED
  BY <1>1, <1>4, <1>5

(* What a sweep finds is not what a launch, or less, has left behind.      *)
LEMMA ScanSpares ==
  ASSUME IInv, Durations, NEW s \in Sweepers, SweepScans(s)
  PROVE  /\ Shaped' /\ UNCHANGED << clock, call, lock >>
         /\ \A c \in Calls : Spares(c)
<1>1. UNCHANGED << clock, call, lock, removals, vm, resv, inst >>
  BY DEF SweepScans
<1>2. Shaped'
  BY <1>1 DEF IInv, Shaped, SweepScans, SweepFields
<1>3. ASSUME NEW c \in Calls, Early(c) \/ Launching(c)
      PROVE  c \notin Doomed(clock) /\ c \notin Stale(clock) /\ c \notin Orphans(clock)
  <2>1. c \notin Doomed(clock)
    BY <1>3 DEF IInv, Blank, Young, Doomed
  <2>2. c \notin Stale(clock)
    BY <1>3, BoundsAssumption DEF IInv, Shaped, Blank, Young, Durations, Stale
  <2>3. c \notin Orphans(clock)
    BY <1>3, BoundsAssumption
    DEF IInv, Shaped, Blank, Young, Durations, Orphans, Early, Launching
  <2> QED
    BY <2>1, <2>2, <2>3
<1>4. ASSUME NEW c \in Calls, Early(c) \/ Launching(c) PROVE Untouched(c)'
  <2>1. Untouched(c)
    BY <1>4 DEF IInv, Blank, Young
  <2>2. /\ sweep'[s].doomed = Doomed(clock) /\ sweep'[s].stale = Stale(clock)
        /\ sweep'[s].named \subseteq Stale(clock)
        /\ sweep'[s].orphans = Orphans(clock)
        /\ sweep'[s].erasing = {} /\ sweep'[s].clearing = {}
        /\ \A t \in Sweepers \ {s} : sweep'[t] = sweep[t]
    BY DEF SweepScans, IInv, Shaped
  <2> QED
    BY <1>1, <1>3, <1>4, <2>1, <2>2 DEF Untouched
<1> QED
  BY <1>1, <1>2, <1>4 DEF Spares

(* A step of a sweep that may touch w and plans nothing new.               *)
Works(s, w) ==
  /\ UNCHANGED << clock, call, lock, removals >>
  /\ \A c \in Calls \ {w} : vm'[c] = vm[c] /\ resv'[c] = resv[c] /\ inst'[c] = inst[c]
  /\ \A t \in Sweepers \ {s} : sweep'[t] = sweep[t]
  /\ LET Plans == UNION {sweep[s].doomed, sweep[s].stale, sweep[s].named,
                         sweep[s].orphans, sweep[s].erasing, sweep[s].clearing}
     IN  /\ w \in Plans
         /\ UNION {sweep'[s].doomed, sweep'[s].stale, sweep'[s].named,
                   sweep'[s].orphans, sweep'[s].erasing, sweep'[s].clearing}
              \subseteq Plans

LEMMA WorkSpares ==
  ASSUME IInv, NEW s \in Sweepers, NEW w \in Calls, Works(s, w)
  PROVE  \A c \in Calls : Spares(c)
<1> SUFFICES ASSUME NEW c \in Calls, Early(c) \/ Launching(c)
             PROVE  /\ vm'[c] = vm[c] /\ resv'[c] = resv[c]
                    /\ inst'[c].status = inst[c].status /\ Untouched(c)'
  BY DEF Spares
<1>1. Untouched(c)
  BY DEF IInv, Blank, Young
<1>2. c # w
  BY <1>1 DEF Works, Untouched
<1>3. Untouched(c)'
  BY <1>1 DEF Works, Untouched
<1> QED
  BY <1>2, <1>3 DEF Works

(* The sweep drops some of what it had planned.                            *)
Shrinks(s) ==
  /\ sweep'[s].doomed \subseteq sweep[s].doomed
  /\ sweep'[s].stale \subseteq sweep[s].stale
  /\ sweep'[s].named \subseteq sweep[s].named
  /\ sweep'[s].orphans \subseteq sweep[s].orphans
  /\ sweep'[s].erasing \subseteq sweep[s].erasing
  /\ sweep'[s].clearing \subseteq sweep[s].clearing
  /\ \A t \in Sweepers \ {s} : sweep'[t] = sweep[t]

LEMMA SweepDrops ==
  ASSUME IInv, NEW s \in Sweepers, SweepSkips(s) \/ SweepEnds(s)
  PROVE  /\ Shaped' /\ Shrinks(s)
         /\ UNCHANGED << clock, call, lock, removals, vm, resv, inst >>
<1>1. UNCHANGED << clock, call, lock, removals, vm, resv, inst >>
  BY DEF SweepSkips, SweepEnds
<1>2. Shaped'
  BY <1>1 DEF IInv, Shaped, SweepSkips, SweepEnds, SweepOff, SweepFields
<1>3. Shrinks(s)
  <2> SweepFields = DOMAIN sweep[s] /\ DOMAIN sweep = Sweepers
    BY DEF IInv, Shaped
  <2>1. CASE SweepEnds(s)
    BY <2>1 DEF SweepEnds, SweepOff, Shrinks
  <2>2. ASSUME NEW c, sweep' = [sweep EXCEPT ![s].doomed = @ \ {c}, ![s].stale = @ \ {c},
                                             ![s].named = @ \ {c}]
        PROVE  Shrinks(s)
    BY <2>2 DEF SweepFields, Shrinks
  <2>3. CASE sweep' = [sweep EXCEPT ![s].erasing = {}, ![s].clearing = {}]
    BY <2>3 DEF SweepFields, Shrinks
  <2> QED
    BY <2>1, <2>2, <2>3 DEF SweepSkips
<1> QED
  BY <1>1, <1>2, <1>3

LEMMA ShrinksUntouched ==
  ASSUME NEW s \in Sweepers, Shrinks(s), removals' = removals, NEW c \in Calls, Untouched(c)
  PROVE  Untouched(c)'
BY DEF Untouched, Shrinks

LEMMA SweepWorks ==
  ASSUME IInv, NEW s \in Sweepers, NEW w \in Calls,
         \/ SweepTerminates(s, w) \/ SweepErases(s, w) \/ SweepCancels(s, w)
         \/ SweepClears(s, w) \/ SweepStopsOrphan(s, w)
  PROVE  Shaped' /\ Works(s, w)
<1>1. CASE SweepTerminates(s, w)
  BY <1>1 DEF SweepTerminates, BetweenItems, Stop, IInv, Shaped, Works, SweepFields, VmFields
<1>2. CASE SweepErases(s, w)
  BY <1>2 DEF SweepErases, DropInstance, IInv, Shaped, Works, SweepFields, InstFields
<1>3. CASE SweepCancels(s, w)
  BY <1>3 DEF SweepCancels, BetweenItems, Stop, IInv, Shaped, Works, SweepFields, VmFields
<1>4. CASE SweepClears(s, w)
  BY <1>4 DEF SweepClears, DropReservation, IInv, Shaped, Works, SweepFields, ResvFields
<1>5. CASE SweepStopsOrphan(s, w)
  BY <1>5 DEF SweepStopsOrphan, ItemsDone, BetweenItems, Stop, IInv, Shaped, Works,
              SweepFields, VmFields
<1> QED
  BY <1>1, <1>2, <1>3, <1>4, <1>5

LEMMA SweepSpares ==
  ASSUME IInv, Durations, NEW s \in Sweepers, SweepStep(s)
  PROVE  /\ Shaped' /\ UNCHANGED << clock, call, lock >>
         /\ \A c \in Calls : Spares(c)
<1>1. CASE SweepScans(s)
  BY <1>1, ScanSpares
<1>2. CASE SweepSkips(s) \/ SweepEnds(s)
  BY <1>2, SweepDrops, ShrinksUntouched DEF IInv, Spares, Blank, Young
<1>3. CASE \E w \in Calls :
             \/ SweepTerminates(s, w) \/ SweepErases(s, w) \/ SweepCancels(s, w)
             \/ SweepClears(s, w) \/ SweepStopsOrphan(s, w)
  BY <1>3, SweepWorks, WorkSpares DEF Works
<1> QED
  BY <1>1, <1>2, <1>3 DEF SweepStep

-----------------------------------------------------------------------------
(* Time, and the lock that expires with it.                                *)

LEMMA TickHolds ==
  ASSUME IInv, Tick
  PROVE  IInv'
<1>1. clock' = clock + 1 /\ UNCHANGED << lock, call, resv, inst, vm, removals, sweep >>
  BY DEF Tick
<1>2. Shaped'
  BY <1>1 DEF IInv, Shaped
<1>3. ASSUME NEW c \in Calls PROVE Locked(c)'
  BY <1>1, BoundsAssumption DEF IInv, Shaped, Tick, Locked, Surveying
<1>4. ASSUME NEW c \in Calls PROVE Blank(c)'
  BY <1>1 DEF IInv, Blank, Early, Untouched
<1>5. ASSUME NEW c \in Calls PROVE Young(c)'
  <2>1. Untouched(c) => Untouched(c)'
    BY <1>1 DEF Untouched
  <2>2. Launching(c) => /\ call[c].now \in Nat /\ call[c].now <= clock'
                        /\ clock' <= call[c].now + LaunchTime
    BY <1>1, BoundsAssumption DEF IInv, Shaped, Tick, Young, Launching
  <2> QED
    BY <1>1, <2>1, <2>2 DEF IInv, Young, Launching
<1> QED
  BY <1>2, <1>3, <1>4, <1>5 DEF IInv

(* Nobody surveys when the lock may be taken over.                         *)
LEMMA FreeLock ==
  ASSUME IInv, Durations, LockFree(clock), Nobody \notin Calls
  PROVE  \A c \in Calls : ~Surveying(c)
BY BoundsAssumption DEF IInv, Shaped, Locked, Durations, LockFree

LEMMA TtlRemovesLockHolds ==
  ASSUME IInv, Durations, TtlRemovesLock
  PROVE  IInv'
<1>1. LockFree(clock) /\ UNCHANGED << clock, call, resv, inst, vm, removals, sweep >>
  BY DEF TtlRemovesLock, LockFree
<1>2. \A c \in Calls : ~Surveying(c)
  BY <1>1, FreeLock, CallsAssumption
<1>3. \A c \in Calls : Locked(c)'
  BY <1>1, <1>2 DEF Locked, Surveying
<1>4. Shaped'
  BY <1>1 DEF IInv, Shaped
<1>5. \A c \in Calls : Blank(c)' /\ Young(c)'
  BY <1>1 DEF IInv, Blank, Young, Early, Launching, Untouched
<1> QED
  BY <1>3, <1>4, <1>5 DEF IInv

-----------------------------------------------------------------------------
(* Calls.                                                                  *)

(* A step of c leaves alone what belongs to the others.                    *)
StepOf(c) ==
  /\ clock' = clock /\ sweep' = sweep /\ removals' = removals
  /\ \A d \in Calls \ {c} :
       /\ call'[d] = call[d] /\ vm'[d] = vm[d] /\ resv'[d] = resv[d]
       /\ inst'[d].status = inst[d].status
       /\ Surveying(d) => lock' = lock

LEMMA OthersKeep ==
  ASSUME IInv, NEW c \in Calls, StepOf(c), NEW d \in Calls \ {c}
  PROVE  (Locked(d) /\ Blank(d) /\ Young(d))'
<1>1. Untouched(d)' <=> Untouched(d)
  BY DEF StepOf, Untouched
<1>2. Locked(d)'
  BY DEF IInv, StepOf, Locked, Surveying
<1>3. Blank(d)'
  BY <1>1 DEF IInv, StepOf, Blank, Early
<1>4. Young(d)'
  BY <1>1 DEF IInv, StepOf, Young, Launching
<1> QED
  BY <1>2, <1>3, <1>4

(* What a step of c has to establish.                                      *)
Keeps(c) == Shaped' /\ StepOf(c) /\ (Locked(c) /\ Blank(c) /\ Young(c))'

LEMMA KeptHolds ==
  ASSUME IInv, NEW c \in Calls, Keeps(c)
  PROVE  IInv'
BY OthersKeep DEF IInv, Keeps

(* A call that only cleans up has nothing to keep.                         *)
LEMMA LeftKeeps ==
  ASSUME NEW c \in Calls,
         call'[c].step \in {"unlock", "undo", "unreserve", "done"}
  PROVE  (Locked(c) /\ Blank(c) /\ Young(c))'
BY DEF Locked, Blank, Young, Surveying, Early, Launching

LEMMA StartKeeps ==
  ASSUME IInv, Durations, NEW c \in Calls, CallStarts(c)
  PROVE  Keeps(c)
<1>1. CASE AcquireLock(c)
  <2>1. Shaped'
    BY <1>1 DEF IInv, Shaped, AcquireLock, CallFields
  <2>2. StepOf(c)
    BY <1>1, FreeLock, CallsAssumption DEF IInv, Shaped, AcquireLock, StepOf
  <2>3. /\ call'[c].step = "survey" /\ call'[c].locked = clock /\ clock' = clock
        /\ lock' = [owner |-> c, until |-> clock + LockSeconds]
        /\ UNCHANGED << resv, inst, vm, removals, sweep >>
    BY <1>1 DEF IInv, Shaped, AcquireLock, CallFields
  <2>4. Locked(c)'
    BY <2>3, BoundsAssumption DEF IInv, Shaped, Locked, Surveying
  <2>5. Blank(c)'
    BY <1>1, <2>3 DEF IInv, Blank, Early, AcquireLock, Untouched
  <2>6. Young(c)'
    BY <2>3 DEF Young, Launching
  <2> QED
    BY <2>1, <2>2, <2>4, <2>5, <2>6 DEF Keeps
<1>2. CASE LockRefused(c)
  <2>1. Shaped' /\ StepOf(c) /\ call'[c].step = "done"
    BY <1>2 DEF IInv, Shaped, LockRefused, Leave, NoCall, StepOf, CallFields
  <2> QED
    BY <2>1, LeftKeeps DEF Keeps
<1> QED
  BY <1>1, <1>2 DEF CallStarts

LEMMA SurveyKeeps ==
  ASSUME IInv, Durations, NEW c \in Calls, Survey(c)
  PROVE  Keeps(c)
<1>1. Shaped' /\ StepOf(c)
  BY DEF IInv, Shaped, Survey, StepOf, CallFields
<1>2. /\ call'[c].step = "decide" /\ call'[c].locked = call[c].locked
      /\ call'[c].now = clock
      /\ UNCHANGED << clock, lock, resv, inst, vm, removals, sweep >>
  BY DEF IInv, Shaped, Survey, CallFields
<1>3. Locked(c)'
  <2>1. Locked(c) /\ Surveying(c) /\ clock \in Nat
    BY DEF IInv, Shaped, Survey, Surveying
  <2> QED
    BY <1>2, <2>1, BoundsAssumption DEF Locked, Surveying
<1>4. Blank(c)' /\ Young(c)'
  BY <1>2 DEF IInv, Survey, Blank, Young, Early, Launching, Untouched
<1> QED
  BY <1>1, <1>3, <1>4 DEF Keeps

LEMMA CandidateKeeps ==
  ASSUME IInv, NEW c \in Calls, NEW w \in Calls, TryCandidate(c, w)
  PROVE  Keeps(c)
<1>1. ASSUME NEW now, Claim(w, now), Leave(c, "unlock", FALSE)
      PROVE  Keeps(c)
  <2>1. Shaped' /\ StepOf(c) /\ call'[c].step = "unlock"
    BY <1>1 DEF IInv, Shaped, TryCandidate, Claim, Leave, NoCall, StepOf, CallFields
  <2> QED
    BY <2>1, LeftKeeps DEF Keeps
<1>2. CASE call' = [call EXCEPT ![c].candidates = @ \ {w}] /\ UNCHANGED inst
  <2>1. Shaped' /\ StepOf(c)
    BY <1>2 DEF IInv, Shaped, TryCandidate, StepOf, CallFields
  <2>2. /\ call'[c].step = call[c].step /\ call'[c].locked = call[c].locked
        /\ call'[c].now = call[c].now /\ call[c].step = "decide"
        /\ UNCHANGED << clock, lock, resv, inst, vm, removals, sweep >>
    BY <1>2 DEF IInv, Shaped, TryCandidate, CallFields
  <2>3. Locked(c)'
    BY <2>2 DEF IInv, Locked, Surveying
  <2>4. Blank(c)' /\ Young(c)'
    BY <2>2 DEF IInv, Blank, Young, Early, Launching, Untouched
  <2> QED
    BY <2>1, <2>3, <2>4 DEF Keeps
<1> QED
  BY <1>1, <1>2 DEF TryCandidate

(* The reservation is written in time, and expires after the launch.       *)
LEMMA ReserveKeeps ==
  ASSUME IInv, Durations, NEW c \in Calls, Reserve(c)
  PROVE  Keeps(c)
<1>1. Shaped' /\ StepOf(c)
  BY DEF IInv, Shaped, Reserve, Goto, StepOf, CallFields, ResvFields
<1>2. /\ call'[c].step = "launch" /\ call'[c].now = call[c].now
      /\ resv'[c].status = "pending"
      /\ resv'[c].expires = call[c].now + ReservationSeconds
      /\ UNCHANGED << clock, lock, inst, vm, removals, sweep >>
  BY DEF IInv, Shaped, Reserve, Goto, CallFields
<1>3. /\ call[c].now \in Nat /\ call[c].now <= clock
      /\ clock <= call[c].now + LaunchTime
  BY BoundsAssumption DEF IInv, Shaped, Reserve, Locked, Surveying, Durations
<1>4. Locked(c)' /\ Blank(c)'
  BY <1>2 DEF Locked, Surveying, Blank, Early
<1>5. Young(c)'
  BY <1>2, <1>3 DEF IInv, Reserve, Blank, Early, Young, Untouched
<1> QED
  BY <1>1, <1>4, <1>5 DEF Keeps

LEMMA LaunchKeeps ==
  ASSUME IInv, NEW c \in Calls, Launch(c)
  PROVE  Keeps(c)
<1>1. Shaped' /\ StepOf(c)
  BY DEF IInv, Shaped, Launch, StepOf, CallFields, VmFields
<1>2. /\ call'[c].step = "record" /\ call'[c].now = call[c].now
      /\ vm'[c].state = "running" /\ vm'[c].started = clock
      /\ UNCHANGED << clock, lock, inst, resv, removals, sweep >>
  BY DEF IInv, Shaped, Launch, CallFields
<1>3. Locked(c)' /\ Blank(c)'
  BY <1>2 DEF Locked, Surveying, Blank, Early
<1>4. Young(c)'
  BY <1>2 DEF IInv, Shaped, Launch, Launching, Young, Untouched
<1> QED
  BY <1>1, <1>3, <1>4 DEF Keeps

LEMMA RecordKeeps ==
  ASSUME IInv, NEW c \in Calls, Record(c) \/ Boot(c)
  PROVE  Keeps(c)
<1>1. Launching(c) /\ call[c].step # "launch"
  BY DEF Record, Boot, Launching
<1>2. Shaped' /\ StepOf(c)
  BY DEF IInv, Shaped, Record, Boot, Goto, StepOf, CallFields, ResvFields
<1>3. /\ call'[c].step \in {"boot", "register"} /\ call'[c].now = call[c].now
      /\ resv'[c].status = "pending" /\ resv'[c].expires = resv[c].expires
      /\ UNCHANGED << clock, lock, inst, vm, removals, sweep >>
  BY <1>1 DEF IInv, Young, Shaped, Record, Boot, Goto, CallFields
<1>4. Locked(c)' /\ Blank(c)'
  BY <1>3 DEF Locked, Surveying, Blank, Early
<1>5. Young(c)'
  BY <1>1, <1>3 DEF IInv, Launching, Young, Untouched
<1> QED
  BY <1>2, <1>4, <1>5 DEF Keeps

(* The other steps end the survey or the launch.                           *)
LEMMA EndKeeps ==
  ASSUME IInv, NEW c \in Calls,
         \/ PoolFull(c) \/ LaunchFails(c) \/ BootFails(c) \/ Register(c)
         \/ RegisterFails(c) \/ UndoTerminates(c) \/ UndoUnreserves(c)
         \/ ReleaseLock(c) \/ Crash(c)
  PROVE  Keeps(c)
<1>1. call'[c].step \in {"unlock", "undo", "unreserve", "done"}
  BY DEF IInv, Shaped, PoolFull, LaunchFails, BootFails, Register, RegisterFails,
         UndoTerminates, UndoUnreserves, ReleaseLock, Crash, Leave, NoCall
<1>2. CASE PoolFull(c) \/ LaunchFails(c) \/ BootFails(c)
  BY <1>1, <1>2, LeftKeeps
  DEF IInv, Shaped, Keeps, StepOf, PoolFull, LaunchFails, BootFails, Leave, NoCall,
      CallFields, VmFields
<1>3. CASE Register(c) \/ RegisterFails(c)
  BY <1>1, <1>3, LeftKeeps
  DEF IInv, Shaped, Keeps, StepOf, Register, RegisterFails, WriteInstance, Leave,
      NoCall, CallFields, InstFields, ResvFields
<1>4. CASE UndoTerminates(c) \/ UndoUnreserves(c)
  BY <1>1, <1>4, LeftKeeps
  DEF IInv, Shaped, Keeps, StepOf, UndoTerminates, UndoUnreserves, Stop, Leave,
      NoCall, CallFields, VmFields, ResvFields
<1>5. CASE ReleaseLock(c)
  <2>1. Shaped'
    BY <1>5 DEF IInv, Shaped, ReleaseLock, Leave, NoCall, CallFields
  <2>2. \A d \in Calls \ {c} : Surveying(d) => lock' = lock
    BY <1>5 DEF IInv, Locked, ReleaseLock
  <2>3. StepOf(c)
    BY <1>5, <2>2 DEF IInv, Shaped, StepOf, ReleaseLock, Leave
  <2> QED
    BY <1>1, <2>1, <2>3, LeftKeeps DEF Keeps
<1>6. CASE Crash(c)
  BY <1>1, <1>6, LeftKeeps
  DEF IInv, Shaped, Keeps, StepOf, Crash, Leave, NoCall, CallFields
<1> QED
  BY <1>2, <1>3, <1>4, <1>5, <1>6

LEMMA CallKeeps ==
  ASSUME IInv, Durations, NEW c \in Calls, CallStarts(c) \/ CallProceeds(c)
  PROVE  Keeps(c)
BY StartKeeps, SurveyKeeps, CandidateKeeps, ReserveKeeps, LaunchKeeps, RecordKeeps,
   EndKeeps
DEF CallProceeds

-----------------------------------------------------------------------------
LEMMA NextHolds ==
  ASSUME IInv, Durations, [Next]_vars
  PROVE  IInv'
<1>1. CASE UNCHANGED vars
  BY <1>1 DEF IInv, vars, Shaped, Locked, Blank, Young, Surveying, Early,
              Launching, Untouched
<1>2. ASSUME NEW c \in Calls, CallStarts(c) \/ CallProceeds(c)
      PROVE  IInv'
  BY <1>2, CallKeeps, KeptHolds
<1>3. ASSUME NEW c \in Calls, WorkerStep(c)
      PROVE  IInv'
  BY <1>3, WorkerSpares, SparedHolds
<1>4. CASE StreamStep
  BY <1>4, StreamSpares, SparedHolds, TtlRemovesLockHolds DEF StreamStep
<1>5. ASSUME NEW s \in Sweepers, SweepStep(s)
      PROVE  IInv'
  BY <1>5, SweepSpares, SparedHolds
<1> QED
  BY <1>1, <1>2, <1>3, <1>4, <1>5, TickHolds DEF Next

LEMMA InvHolds ==
  ASSUME Durations
  PROVE  Spec => []IInv
<1>1. IInv /\ [Next]_vars => IInv'
  BY NextHolds
<1> QED
  BY <1>1, InitHolds, PTL DEF Spec

(* A lock that expires by itself keeps surveys apart, if a survey takes no *)
(* longer than the lock lasts: whoever was overtaken has its reservation.  *)
THEOREM SurveysExclude ==
  ASSUME Durations
  PROVE  Spec => []OneSurveyor
<1>1. IInv => OneSurveyor
  <2> SUFFICES ASSUME IInv PROVE OneSurveyor
    OBVIOUS
  <2> DEFINE S == {c \in Calls : call[c].step \in {"survey", "decide"}}
  <2>1. \A c, d \in S : c = d
    BY DEF IInv, Locked, Surveying
  <2>2. Cardinality(S) <= 1
    <3>1. CASE S = {}
      BY <3>1, FS_EmptySet
    <3>2. ASSUME NEW c \in S PROVE Cardinality(S) <= 1
      <4>1. S = {c}
        BY <2>1
      <4>2. Cardinality(S) = 1
        BY <4>1, FS_Singleton
      <4> QED
        BY <4>2
    <3> QED
      BY <3>1, <3>2
  <2> QED
    BY <2>2 DEF OneSurveyor
<1> QED
  BY <1>1, InvHolds, PTL

(* No expired row, stream record or sweep stops a MicroVM that is being    *)
(* launched, however old the scan is that the sweep works through.         *)
THEOREM LaunchesAreSpared ==
  ASSUME Durations
  PROVE  Spec => LaunchSpared
<1> DEFINE Safe(c) ==
      call[c].step \in {"record", "boot", "register"} =>
        ~(vm[c].state = "running" /\ vm'[c].state = "stopped")
<1>1. IInv /\ [Next]_vars => [\A c \in Calls : Safe(c)]_vars
  <2> SUFFICES ASSUME IInv, Next, NEW c \in Calls, Launching(c), call[c].step # "launch",
                      vm[c].state = "running"
               PROVE  vm'[c].state # "stopped"
    BY DEF Launching, vars
  <2>1. Spares(c) => vm'[c].state = "running"
    BY DEF Spares
  <2>2. CASE Tick \/ TtlRemovesLock
    BY <2>2 DEF Tick, TtlRemovesLock
  <2>3. ASSUME NEW d \in Calls, CallStarts(d) \/ CallProceeds(d), d # c
        PROVE  vm'[c].state = "running"
    BY <2>3, CallKeeps DEF Keeps, StepOf
  <2>4. CASE CallStarts(c) \/ CallProceeds(c)
    BY <2>4 DEF CallStarts, CallProceeds, AcquireLock, LockRefused, Survey, PoolFull,
       Reserve, TryCandidate, Launch, LaunchFails, Record, Boot, BootFails, Register,
       RegisterFails, UndoTerminates, UndoUnreserves, ReleaseLock, Crash, Launching
  <2>5. ASSUME NEW w \in Calls, WorkerStep(w) PROVE Spares(c)
    BY <2>5, WorkerSpares
  <2>6. CASE StreamStep
    BY <2>1, <2>2, <2>6, StreamSpares DEF StreamStep
  <2>7. ASSUME NEW s \in Sweepers, SweepStep(s) PROVE Spares(c)
    BY <2>7, SweepSpares
  <2> QED
    BY <2>1, <2>2, <2>3, <2>4, <2>5, <2>6, <2>7 DEF Next
<1>2. Spec => [][\A c \in Calls : Safe(c)]_vars
  BY <1>1, InvHolds, PTL DEF Spec
<1> QED
  BY <1>2 DEF LaunchSpared

-----------------------------------------------------------------------------
(* The workers in service, and their number.                               *)

Numbers ==
  \A c \in Calls :
    /\ call[c].now \in Nat /\ resv[c].expires \in Nat /\ vm[c].started \in Nat
    /\ inst[c].soft \in Nat /\ inst[c].hard \in Nat

(* What counts against max_instances, late claims aside.                   *)
Slots == (Active(clock) \cup Pending(clock)) \ revived

(* A call that may launch found room, and the lock has kept it free.       *)
Counted(c) ==
  call[c].step = "decide" /\ ~call[c].full => Cardinality(Slots) < MaxInstances

(* The row of a worker only ages: it gains no time that it had lost, unless *)
(* it is revived.                                                          *)
Ages(w) ==
  inst'[w].status = "READY" /\ w \notin revived' =>
    /\ inst[w].status = "READY"
    /\ inst'[w].hard = inst[w].hard
    /\ inst'[w].soft > clock' => inst[w].soft > clock
    /\ inst'[w].busy => inst[w].busy \/ inst[w].soft > clock

Fades(c) ==
  resv'[c].status = "pending" =>
    resv[c].status = "pending" /\ resv'[c].expires = resv[c].expires

Later == Numbers' /\ clock' \in Nat /\ clock <= clock' /\ revived \subseteq revived'

(* A claim in time finds the worker in service; a late one revives it.     *)
LEMMA ClaimAges ==
  ASSUME IInv, Numbers, NEW w \in Calls, NEW start, NEW now \in Nat,
         Claimable(w, start, now), Claim(w, now), clock' = clock
  PROVE  /\ \A c \in Calls : Ages(c)
         /\ \A c \in Calls : inst'[c].soft \in Nat /\ inst'[c].hard \in Nat
         /\ revived \subseteq revived'
<1>1. /\ inst'[w].status = inst[w].status /\ inst'[w].hard = inst[w].hard
      /\ inst'[w].soft = MinOf(now + SoftTtl, inst[w].hard)
      /\ \A c \in Calls \ {w} : inst'[c] = inst[c]
  BY DEF IInv, Shaped, InstFields, Claim
<1>2. /\ revived' = IF inst[w].soft <= clock THEN revived \cup {w} ELSE revived
      /\ inst[w].status = "READY"
  BY DEF Claim, Claimable
<1>3. MinOf(now + SoftTtl, inst[w].hard) \in Nat
  BY BoundsAssumption DEF Numbers, MinOf
<1>4. w \in revived' \/ inst[w].soft > clock
  BY <1>2 DEF Numbers, IInv, Shaped
<1>5. Ages(w)
  BY <1>1, <1>2, <1>4 DEF Ages
<1>6. \A c \in Calls \ {w} : Ages(c)
  BY <1>1 DEF Ages
<1> QED
  BY <1>1, <1>2, <1>3, <1>5, <1>6 DEF Numbers

LEMMA WorkerAges ==
  ASSUME IInv, Numbers, NEW w \in Calls, WorkerStep(w)
  PROVE  Later /\ \A c \in Calls : Ages(c) /\ Fades(c)
<1>1. CASE WorkerClaimed(w)
  <2>1. PICK start \in 0 .. clock, now \in 0 .. clock :
          Claimable(w, start, now) /\ Claim(w, now)
    BY <1>1 DEF WorkerClaimed
  <2>2. now \in Nat /\ clock \in Nat
    BY <2>1 DEF IInv, Shaped
  <2>3. UNCHANGED << clock, call, resv, vm >>
    BY <1>1 DEF WorkerClaimed
  <2>4. /\ \A c \in Calls : Ages(c)
        /\ \A c \in Calls : inst'[c].soft \in Nat /\ inst'[c].hard \in Nat
        /\ revived \subseteq revived'
    BY <2>1, <2>2, <2>3, ClaimAges
  <2> QED
    BY <2>2, <2>3, <2>4 DEF Later, Numbers, Fades
<1>2. CASE WorkerReleased(w) \/ WorkerFails(w) \/ PlatformStops(w)
  <2>1. clock' = clock /\ UNCHANGED << call, resv, revived >>
    BY <1>2 DEF WorkerReleased, WorkerFails, PlatformStops
  <2>2. \A c \in Calls : vm'[c].started = vm[c].started
    BY <1>2 DEF WorkerReleased, WorkerFails, PlatformStops, Stop, IInv, Shaped, VmFields
  <2>3. \A c \in Calls :
          /\ inst'[c].soft = inst[c].soft /\ inst'[c].hard = inst[c].hard
          /\ inst'[c].status = "READY" => inst[c].status = "READY"
          /\ inst'[c].busy => inst[c].busy
    BY <1>2 DEF WorkerReleased, WorkerFails, PlatformStops, IInv, Shaped, InstFields
  <2> QED
    BY <2>1, <2>2, <2>3 DEF IInv, Shaped, Later, Numbers, Ages, Fades
<1> QED
  BY <1>1, <1>2 DEF WorkerStep

(* Whatever removes rows and MicroVMs makes nothing younger.               *)
LEMMA RemovalAges ==
  ASSUME IInv, Numbers, clock' = clock, call' = call, revived' = revived,
         vm' = vm \/ \E w \in Calls : Stop(w),
         inst' = inst \/ \E w \in Calls : DropInstance(w),
         resv' = resv \/ \E c \in Calls : DropReservation(c)
  PROVE  Later /\ \A c \in Calls : Ages(c) /\ Fades(c)
<1>1. \A c \in Calls : vm'[c].started = vm[c].started
  BY DEF Stop, IInv, Shaped, VmFields
<1>2. \A c \in Calls :
        inst'[c] = inst[c] \/ inst'[c] = [status |-> "gone", busy |-> FALSE,
                                          soft |-> 0, hard |-> 0]
  BY DEF DropInstance, IInv, Shaped
<1>3. \A c \in Calls :
        resv'[c] = resv[c] \/ resv'[c] = [status |-> "gone", vm |-> FALSE, expires |-> 0]
  BY DEF DropReservation, IInv, Shaped
<1>4. Numbers'
  BY <1>1, <1>2, <1>3 DEF Numbers
<1>5. \A c \in Calls : Ages(c)
  BY <1>2 DEF Ages
<1>6. \A c \in Calls : Fades(c)
  BY <1>3 DEF Fades
<1> QED
  BY <1>4, <1>5, <1>6 DEF Later, IInv, Shaped

LEMMA StreamAges ==
  ASSUME IInv, Numbers, StreamStep
  PROVE  Later /\ \A c \in Calls : Ages(c) /\ Fades(c)
<1>1. clock' = clock /\ call' = call /\ revived' = revived
  BY DEF StreamStep, TtlRemovesLock, TtlRemovesReservation, TtlRemovesInstance,
         StreamTerminates
<1>2. /\ vm' = vm \/ \E w \in Calls : Stop(w)
      /\ inst' = inst \/ \E w \in Calls : DropInstance(w)
      /\ resv' = resv \/ \E c \in Calls : DropReservation(c)
  BY DEF StreamStep, TtlRemovesLock, TtlRemovesReservation, TtlRemovesInstance,
         StreamTerminates
<1> QED
  BY <1>1, <1>2, RemovalAges

LEMMA SweepAges ==
  ASSUME IInv, Numbers, NEW s \in Sweepers, SweepStep(s)
  PROVE  Later /\ \A c \in Calls : Ages(c) /\ Fades(c)
<1>1. clock' = clock /\ call' = call /\ revived' = revived
  BY DEF SweepStep, SweepScans, SweepSkips, SweepEnds, SweepTerminates, SweepErases,
         SweepCancels, SweepClears, SweepStopsOrphan
<1>2. /\ vm' = vm \/ \E w \in Calls : Stop(w)
      /\ inst' = inst \/ \E w \in Calls : DropInstance(w)
      /\ resv' = resv \/ \E c \in Calls : DropReservation(c)
  BY DEF SweepStep, SweepScans, SweepSkips, SweepEnds, SweepTerminates, SweepErases,
         SweepCancels, SweepClears, SweepStopsOrphan
<1> QED
  BY <1>1, <1>2, RemovalAges

LEMMA TickAges ==
  ASSUME IInv, Numbers, Tick
  PROVE  Later /\ \A c \in Calls : Ages(c) /\ Fades(c)
<1>1. clock' = clock + 1 /\ clock \in Nat /\ UNCHANGED << call, resv, inst, vm, revived >>
  BY DEF IInv, Shaped, Tick
<1>2. Later
  BY <1>1 DEF Numbers, Later
<1>3. \A c \in Calls : Ages(c) /\ Fades(c)
  BY <1>1 DEF Numbers, Ages, Fades
<1> QED
  BY <1>2, <1>3

(* A step of a call on the locals, MicroVMs and reservations.              *)
LEMMA CallFrame ==
  ASSUME IInv, NEW c \in Calls, CallStarts(c) \/ CallProceeds(c)
  PROVE  /\ clock' = clock
         /\ \A d \in Calls \ {c} : call'[d] = call[d] /\ vm'[d] = vm[d] /\ resv'[d] = resv[d]
         /\ call'[c].now = call[c].now \/ call'[c].now = clock \/ call'[c].now = 0
         /\ vm'[c].started = vm[c].started \/ vm'[c].started = clock
<1>1. clock' = clock
  BY DEF CallStarts, CallProceeds, AcquireLock, LockRefused, Survey, PoolFull, Reserve,
     TryCandidate, Launch, LaunchFails, Record, Boot, BootFails, Register, RegisterFails,
     UndoTerminates, UndoUnreserves, ReleaseLock, Crash
<1>2. \A d \in Calls \ {c} : call'[d] = call[d]
  BY DEF IInv, Shaped, CallStarts, CallProceeds, AcquireLock, LockRefused,
     Survey, PoolFull, Reserve, TryCandidate, Launch, LaunchFails, Record, Boot,
     BootFails, Register, RegisterFails, UndoTerminates, UndoUnreserves, ReleaseLock,
     Crash, Leave, Goto
<1>3. \A d \in Calls \ {c} : vm'[d] = vm[d] /\ resv'[d] = resv[d]
  BY DEF IInv, Shaped, CallStarts, CallProceeds, AcquireLock, LockRefused,
     Survey, PoolFull, Reserve, TryCandidate, Launch, LaunchFails, Record, Boot,
     BootFails, Register, RegisterFails, WriteInstance, UndoTerminates, UndoUnreserves,
     ReleaseLock, Crash, Stop
<1>4. call'[c].now = call[c].now \/ call'[c].now = clock \/ call'[c].now = 0
  <2>1. CASE AcquireLock(c)
    BY <2>1 DEF AcquireLock, IInv, Shaped, CallFields
  <2>2. CASE Survey(c)
    BY <2>2 DEF Survey, IInv, Shaped, CallFields
  <2>3. CASE Launch(c)
    BY <2>3 DEF Launch, IInv, Shaped, CallFields
  <2>4. ASSUME NEW w \in Calls, call' = [call EXCEPT ![c].candidates = @ \ {w}]
        PROVE  call'[c].now = call[c].now
    BY <2>4 DEF IInv, Shaped, CallFields
  <2>5. ASSUME NEW step, NEW launched, Leave(c, step, launched) PROVE call'[c].now = 0
    BY <2>5 DEF Leave, NoCall, IInv, Shaped
  <2>6. ASSUME NEW step, Goto(c, step) PROVE call'[c].now = call[c].now
    BY <2>6 DEF Goto, IInv, Shaped, CallFields
  <2>7. CASE Reserve(c) \/ Record(c) \/ Boot(c)
    BY <2>6, <2>7 DEF Reserve, Record, Boot
  <2>8. ASSUME NEW w \in Calls, TryCandidate(c, w)
        PROVE  call'[c].now = call[c].now \/ call'[c].now = 0
    BY <2>4, <2>5, <2>8 DEF TryCandidate
  <2>9. CASE \/ LockRefused(c) \/ PoolFull(c) \/ LaunchFails(c) \/ BootFails(c) \/ Register(c)
             \/ RegisterFails(c) \/ UndoTerminates(c) \/ UndoUnreserves(c) \/ ReleaseLock(c)
             \/ Crash(c)
    BY <2>5, <2>9 DEF LockRefused, PoolFull, LaunchFails, BootFails, Register,
       RegisterFails, UndoTerminates, UndoUnreserves, ReleaseLock, Crash
  <2> QED
    BY <2>1, <2>2, <2>3, <2>7, <2>8, <2>9 DEF CallStarts, CallProceeds
<1>5. vm'[c].started = vm[c].started \/ vm'[c].started = clock
  <2>1. CASE Launch(c)
    BY <2>1 DEF Launch, IInv, Shaped
  <2>2. CASE LaunchFails(c)
    BY <2>2 DEF LaunchFails, IInv, Shaped
  <2>3. CASE UndoTerminates(c)
    BY <2>3 DEF UndoTerminates, Stop, IInv, Shaped, VmFields
  <2>4. CASE vm' = vm
    BY <2>4
  <2>5. Launch(c) \/ LaunchFails(c) \/ UndoTerminates(c) \/ vm' = vm
    BY DEF CallStarts, CallProceeds, AcquireLock, LockRefused, Survey, PoolFull, Reserve,
       TryCandidate, Record, Boot, BootFails, Register, RegisterFails, UndoUnreserves,
       ReleaseLock, Crash
  <2> QED
    BY <2>1, <2>2, <2>3, <2>4, <2>5
<1> QED
  BY <1>1, <1>2, <1>3, <1>4, <1>5

(* A call adds a place to the pool when it reserves one; registration only *)
(* turns the reservation into a worker.                                    *)
LEMMA CallAges ==
  ASSUME IInv, Numbers, NEW c \in Calls, CallStarts(c) \/ CallProceeds(c)
  PROVE  /\ Later /\ clock' = clock
         /\ \A w \in Calls :
              \/ Ages(w) /\ Fades(w)
              \/ w = c /\ (Reserve(c) \/ Register(c) \/ RegisterFails(c))
<1> clock \in Nat
  BY DEF IInv, Shaped
<1>0. /\ clock' = clock
      /\ \A d \in Calls : call'[d].now \in Nat /\ vm'[d].started \in Nat
      /\ \A d \in Calls \ {c} : resv'[d] = resv[d]
  BY CallFrame DEF Numbers
<1>1. CASE UNCHANGED << inst, resv, revived >>
  BY <1>0, <1>1 DEF Later, Numbers, Ages, Fades
<1>3. CASE Record(c) \/ UndoUnreserves(c) \/ Reserve(c)
  <2>1. inst' = inst /\ revived' = revived
    BY <1>3 DEF Record, UndoUnreserves, Reserve
  <2>2. resv'[c].expires \in Nat
    <3>1. CASE Record(c)
      BY <3>1 DEF IInv, Shaped, Record, Numbers
    <3>2. CASE UndoUnreserves(c)
      BY <3>2 DEF IInv, Shaped, UndoUnreserves, Numbers
    <3>3. CASE Reserve(c)
      BY <3>3, BoundsAssumption DEF IInv, Shaped, Reserve, Numbers
    <3> QED
      BY <1>3, <3>1, <3>2, <3>3
  <2>3. Fades(c) \/ Reserve(c)
    <3>1. CASE Record(c)
      BY <3>1 DEF IInv, Shaped, Record, Fades
    <3>2. CASE UndoUnreserves(c)
      BY <3>2 DEF IInv, Shaped, UndoUnreserves, Fades
    <3> QED
      BY <1>3, <3>1, <3>2
  <2>4. Numbers'
    BY <1>0, <2>1, <2>2 DEF Numbers
  <2> QED
    BY <1>0, <2>1, <2>3, <2>4 DEF Later, Ages, Fades
<1>4. CASE Register(c) \/ RegisterFails(c)
  <2>1. vm' = vm /\ revived' = revived
    BY <1>4 DEF Register, RegisterFails
  <2>2. CASE UNCHANGED << inst, resv >>
    BY <1>1, <2>1, <2>2
  <2>3. CASE WriteInstance(c)
    <3>1. \A d \in Calls \ {c} : inst'[d] = inst[d]
      BY <2>3 DEF IInv, Shaped, WriteInstance
    <3>2. /\ inst'[c].soft = MinOf(clock + SoftTtl, vm[c].started + HardTtl)
          /\ inst'[c].hard = vm[c].started + HardTtl
          /\ resv'[c].expires = 0
      BY <2>3 DEF IInv, Shaped, WriteInstance
    <3>3. /\ MinOf(clock + SoftTtl, vm[c].started + HardTtl) \in Nat
          /\ vm[c].started + HardTtl \in Nat
      BY BoundsAssumption DEF Numbers, MinOf
    <3>4. Numbers'
      BY <1>0, <3>1, <3>2, <3>3 DEF Numbers
    <3> QED
      BY <1>0, <1>4, <2>1, <3>1, <3>4 DEF Later, Ages, Fades
  <2> QED
    BY <1>4, <2>2, <2>3 DEF Register, RegisterFails
<1>5. ASSUME NEW w \in Calls, TryCandidate(c, w), NEW now \in call[c].now .. clock,
             Claimable(w, call[c].now, now), Claim(w, now)
      PROVE  Later /\ \A d \in Calls : Ages(d) /\ Fades(d)
  <2>1. resv' = resv
    BY <1>5 DEF TryCandidate
  <2>2. now \in Nat
    BY <1>5 DEF Numbers
  <2>3. /\ \A d \in Calls : Ages(d)
        /\ \A d \in Calls : inst'[d].soft \in Nat /\ inst'[d].hard \in Nat
        /\ revived \subseteq revived'
    BY <1>0, <1>5, <2>2, ClaimAges
  <2> QED
    BY <1>0, <2>1, <2>3 DEF Later, Numbers, Fades
<1>6. \/ Record(c) \/ UndoUnreserves(c) \/ Reserve(c) \/ Register(c) \/ RegisterFails(c)
      \/ \E w \in Calls : TryCandidate(c, w) /\ \E now \in call[c].now .. clock :
            Claimable(w, call[c].now, now) /\ Claim(w, now)
      \/ UNCHANGED << inst, resv, revived >>
  <2>1. ASSUME NEW w \in Calls, TryCandidate(c, w)
        PROVE  \/ \E now \in call[c].now .. clock :
                    Claimable(w, call[c].now, now) /\ Claim(w, now)
               \/ UNCHANGED << inst, resv, revived >>
    BY <2>1 DEF TryCandidate
  <2> QED
    BY <2>1 DEF CallStarts, CallProceeds, AcquireLock, LockRefused, Survey, PoolFull,
       Launch, LaunchFails, Boot, BootFails, UndoTerminates, ReleaseLock, Crash
<1>7. CASE \E w \in Calls : TryCandidate(c, w) /\ \E now \in call[c].now .. clock :
                 Claimable(w, call[c].now, now) /\ Claim(w, now)
  <2>1. PICK w \in Calls, now \in call[c].now .. clock :
           TryCandidate(c, w) /\ Claimable(w, call[c].now, now) /\ Claim(w, now)
    BY <1>7
  <2> QED
    BY <1>0, <1>5, <2>1
<1> QED
  BY <1>1, <1>3, <1>4, <1>6, <1>7

-----------------------------------------------------------------------------
(* The pool never grows past its limit.                                    *)

LEMMA SlotsFinite == IsFiniteSet(Slots)
<1>1. Slots \subseteq Calls
  BY DEF Slots, Active, Pending
<1> QED
  BY <1>1, FS_Subset, CallsAssumption

LEMMA SlotsNumber ==
  ASSUME NEW A, IsFiniteSet(A) PROVE Cardinality(A) \in Nat
BY FS_CardinalityType

LEMMA SlotsAge ==
  ASSUME IInv, Numbers, Later, NEW w \in Calls, Ages(w), Fades(w)
  PROVE  w \in Slots' => w \in Slots
<1> clock \in Nat
  BY DEF IInv, Shaped
<1>1. w \in Active(clock)' /\ w \notin revived' => w \in Active(clock)
  BY DEF Active, Ages, Later, Numbers
<1>2. w \in Pending(clock)' => w \in Pending(clock)
  BY DEF Pending, Fades, Later, Numbers
<1> QED
  BY <1>1, <1>2 DEF Slots, Later

(* A registration takes the place of its reservation.                      *)
LEMMA RegisterKeepsSlots ==
  ASSUME IInv, Durations, NEW c \in Calls, Register(c) \/ RegisterFails(c)
  PROVE  c \notin revived => c \in Slots
<1>1. Young(c) /\ Launching(c)
  BY DEF IInv, Register, RegisterFails, Launching
<1>2. resv[c].status = "pending" /\ resv[c].expires > clock
  BY <1>1, BoundsAssumption DEF Young, Durations, IInv, Shaped
<1> QED
  BY <1>2 DEF Slots, Pending

LEMMA SlotsShrink ==
  ASSUME IInv, Durations, Numbers, [Next]_vars,
         \A c \in Calls : ~Reserve(c)
  PROVE  Later /\ Slots' \subseteq Slots
<1>1. Slots' \subseteq Calls
  BY DEF Slots, Active, Pending
<1>2. ASSUME Later, \A w \in Calls : Ages(w) /\ Fades(w)
      PROVE  Slots' \subseteq Slots
  BY <1>1, <1>2, SlotsAge
<1>3. CASE UNCHANGED vars
  BY <1>3 DEF vars, Slots, Active, Pending, Later, Numbers, IInv, Shaped
<1>4. ASSUME NEW c \in Calls, CallStarts(c) \/ CallProceeds(c)
      PROVE  Later /\ Slots' \subseteq Slots
  <2>1. /\ Later
        /\ \A w \in Calls :
              \/ Ages(w) /\ Fades(w)
              \/ w = c /\ (Register(c) \/ RegisterFails(c))
    BY <1>4, CallAges
  <2>2. \A w \in Calls : w \in Slots' => w \in Slots
    <3>1. \A w \in Calls : w \in Slots' => w \notin revived
      BY <2>1 DEF Slots, Later
    <3> QED
      BY <2>1, <3>1, SlotsAge, RegisterKeepsSlots
  <2> QED
    BY <1>1, <2>1, <2>2
<1>5. ASSUME NEW c \in Calls, WorkerStep(c)
      PROVE  Later /\ Slots' \subseteq Slots
  BY <1>2, <1>5, WorkerAges
<1>6. CASE StreamStep
  BY <1>2, <1>6, StreamAges
<1>7. ASSUME NEW s \in Sweepers, SweepStep(s)
      PROVE  Later /\ Slots' \subseteq Slots
  BY <1>2, <1>7, SweepAges
<1>8. CASE Tick
  BY <1>2, <1>8, TickAges
<1> QED
  BY <1>3, <1>4, <1>5, <1>6, <1>7, <1>8 DEF Next

(* A call that decides came from its survey, and counted the pool then.    *)
LEMMA DecidesAfterSurvey ==
  ASSUME IInv, [Next]_vars, NEW c \in Calls, call'[c].step = "decide"
  PROVE  \/ Survey(c)
         \/ call[c].step = "decide" /\ call'[c].full = call[c].full
<1>1. CASE UNCHANGED call
  BY <1>1
<1>2. ASSUME NEW d \in Calls, CallStarts(d) \/ CallProceeds(d)
      PROVE  \/ Survey(c)
             \/ call[c].step = "decide" /\ call'[c].full = call[c].full
  <2>1. CASE c # d
    <3>1. call'[c] = call[c]
      BY <1>2, <2>1 DEF IInv, Shaped, CallStarts, CallProceeds, AcquireLock, LockRefused,
         Survey, PoolFull, Reserve, TryCandidate, Launch, LaunchFails, Record, Boot,
         BootFails, Register, RegisterFails, UndoTerminates, UndoUnreserves, ReleaseLock,
         Crash, Leave, Goto
    <3> QED
      BY <3>1
  <2>2. CASE c = d
    <3>1. Survey(c) \/ \E w \in Calls : TryCandidate(c, w)
      BY <1>2, <2>2 DEF IInv, Shaped, CallFields, CallStarts, CallProceeds, AcquireLock,
         LockRefused, PoolFull, Reserve, Launch, LaunchFails, Record, Boot,
         BootFails, Register, RegisterFails, UndoTerminates, UndoUnreserves, ReleaseLock,
         Crash, Leave, Goto, NoCall
    <3>2. ASSUME NEW w \in Calls, TryCandidate(c, w)
          PROVE  call[c].step = "decide" /\ call'[c].full = call[c].full
      BY <3>2 DEF TryCandidate, Leave, NoCall, IInv, Shaped, CallFields
    <3> QED
      BY <3>1, <3>2
  <2> QED
    BY <2>1, <2>2
<1>3. (\E d \in Calls : WorkerStep(d)) \/ StreamStep \/ (\E s \in Sweepers : SweepStep(s))
      \/ Tick \/ UNCHANGED vars => UNCHANGED call
  BY DEF WorkerStep, WorkerClaimed, WorkerReleased, WorkerFails, PlatformStops, StreamStep,
         TtlRemovesLock, TtlRemovesReservation, TtlRemovesInstance, StreamTerminates,
         SweepStep, SweepScans, SweepSkips, SweepEnds, SweepTerminates, SweepErases,
         SweepCancels, SweepClears, SweepStopsOrphan, Tick, vars
<1> QED
  BY <1>1, <1>2, <1>3 DEF Next

(* A survey that finds the pool not full leaves room for one more.         *)
LEMMA SurveyCounts ==
  ASSUME IInv, NEW c \in Calls, Survey(c), ~call'[c].full
  PROVE  Cardinality(Slots) < MaxInstances
<1> DEFINE A == Active(clock)
           P == Pending(clock)
<1>1. IsFiniteSet(A) /\ IsFiniteSet(P)
  <2>1. A \subseteq Calls /\ P \subseteq Calls
    BY DEF Active, Pending
  <2> QED
    BY <2>1, FS_Subset, CallsAssumption
<1>2. ~(Cardinality(A) + Cardinality(P) >= MaxInstances)
  BY DEF Survey, IInv, Shaped, CallFields
<1>3. Cardinality(A \cup P) = Cardinality(A) + Cardinality(P) - Cardinality(A \cap P)
  BY <1>1, FS_Union
<1>4. IsFiniteSet(A \cap P)
  BY <1>1, FS_Intersection
<1>5. /\ Cardinality(A) \in Nat /\ Cardinality(P) \in Nat
      /\ Cardinality(A \cap P) \in Nat
  BY <1>1, <1>4, SlotsNumber
<1>6. Cardinality(A \cup P) < MaxInstances
  <2> HIDE DEF A, P
  <2> QED
    BY <1>2, <1>3, <1>5, BoundsAssumption
<1>7. Slots \subseteq A \cup P /\ IsFiniteSet(A \cup P)
  BY <1>1, FS_Union DEF Slots
<1>8. /\ Cardinality(Slots) <= Cardinality(A \cup P)
      /\ Cardinality(Slots) \in Nat /\ Cardinality(A \cup P) \in Nat
  BY <1>7, FS_Subset, SlotsFinite, SlotsNumber
<1> QED
  <2> HIDE DEF A, P
  <2> QED
    BY <1>6, <1>8, BoundsAssumption

PInv == Numbers /\ GrowsWithinMax /\ \A c \in Calls : Counted(c)

LEMMA PoolInit == Init => PInv
<1> SUFFICES ASSUME Init PROVE PInv
  OBVIOUS
<1>1. Numbers /\ \A c \in Calls : Counted(c)
  BY DEF Init, Numbers, Counted, NoCall
<1>2. (Active(clock) \cup Pending(clock)) \ revived = {}
  BY DEF Init, Active, Pending
<1>3. GrowsWithinMax
  BY <1>2, FS_EmptySet, BoundsAssumption DEF GrowsWithinMax
<1> QED
  BY <1>1, <1>3 DEF PInv

LEMMA PoolHolds ==
  ASSUME IInv, Durations, PInv, [Next]_vars
  PROVE  PInv'
<1>0. Numbers /\ Cardinality(Slots) <= MaxInstances /\ MaxInstances \in Nat
  BY BoundsAssumption DEF PInv, GrowsWithinMax, Slots
<1>1. IsFiniteSet(Slots) /\ Cardinality(Slots) \in Nat
  BY SlotsFinite, SlotsNumber
<1>2. CASE \A c \in Calls : ~Reserve(c)
  <2>1. Later /\ Slots' \subseteq Slots
    BY <1>0, <1>2, SlotsShrink
  <2>2. Cardinality(Slots') <= Cardinality(Slots) /\ Cardinality(Slots') \in Nat
    BY <1>1, <2>1, FS_Subset, SlotsNumber
  <2>3. GrowsWithinMax'
    BY <1>0, <1>1, <2>2 DEF GrowsWithinMax, Slots
  <2>4. ASSUME NEW c \in Calls, call'[c].step = "decide", ~call'[c].full
        PROVE  Cardinality(Slots') < MaxInstances
    <3>1. Cardinality(Slots) < MaxInstances
      BY <2>4, DecidesAfterSurvey, SurveyCounts DEF PInv, Counted
    <3> QED
      BY <1>0, <1>1, <2>2, <3>1
  <2> QED
    BY <2>1, <2>3, <2>4 DEF PInv, Counted, Later, Slots
<1>3. ASSUME NEW c \in Calls, Reserve(c)
      PROVE  PInv'
  <2>1. CallStarts(c) \/ CallProceeds(c)
    BY <1>3 DEF CallProceeds
  <2>2. /\ Later
        /\ \A w \in Calls \ {c} : Ages(w) /\ Fades(w)
    BY <1>0, <2>1, CallAges
  <2>3. Slots' \subseteq Slots \cup {c}
    <3>1. Slots' \subseteq Calls
      BY DEF Slots, Active, Pending
    <3>2. \A w \in Calls \ {c} : w \in Slots' => w \in Slots
      BY <1>0, <2>2, SlotsAge
    <3> QED
      BY <3>1, <3>2
  <2>4. Cardinality(Slots) < MaxInstances
    BY <1>3 DEF PInv, Counted, Reserve
  <2>5. IsFiniteSet(Slots \cup {c}) /\ Cardinality(Slots \cup {c}) <= Cardinality(Slots) + 1
    <3>1. /\ IsFiniteSet(Slots \cup {c})
          /\ Cardinality(Slots \cup {c}) =
               IF c \in Slots THEN Cardinality(Slots) ELSE Cardinality(Slots) + 1
      BY <1>1, FS_AddElement
    <3> QED
      BY <1>1, <3>1
  <2>6. Cardinality(Slots') <= Cardinality(Slots \cup {c})
    BY <2>3, <2>5, FS_Subset
  <2>7. Cardinality(Slots') \in Nat /\ Cardinality(Slots \cup {c}) \in Nat
    <3>1. IsFiniteSet(Slots')
      BY <2>3, <2>5, FS_Subset
    <3> QED
      BY <2>5, <3>1, SlotsNumber
  <2>8. GrowsWithinMax'
    <3>1. Cardinality(Slots') <= MaxInstances
      BY <1>0, <1>1, <2>4, <2>5, <2>6, <2>7
    <3> QED
      BY <3>1 DEF GrowsWithinMax, Slots
  <2>9. ASSUME NEW d \in Calls PROVE call'[d].step # "decide"
    <3>1. ~Surveying(d) \/ d = c
      BY <1>3 DEF IInv, Locked, Surveying, Reserve
    <3> QED
      BY <1>3, <3>1 DEF Reserve, Goto, IInv, Shaped, CallFields, Surveying
  <2> QED
    BY <2>2, <2>8, <2>9 DEF PInv, Counted, Later
<1> QED
  BY <1>2, <1>3

(* Launches keep the pool within max_instances, however many calls, sweeps *)
(* and crashes there are and however late claims commit: whatever is there *)
(* beyond it was brought back by a late claim.                             *)
THEOREM PoolGrowsWithinMax ==
  ASSUME Durations
  PROVE  Spec => []GrowsWithinMax
<1>1. IInv /\ PInv /\ [Next]_vars => PInv'
  BY PoolHolds
<1>2. PInv => GrowsWithinMax
  BY DEF PInv
<1> QED
  BY <1>1, <1>2, PoolInit, InvHolds, PTL DEF Spec

-----------------------------------------------------------------------------
(* The clean-up never reaches a worker that was registered.                *)

(* A worker in service came from a call that launches no more, and until   *)
(* its row expires nobody plans to stop it, unless it was revived.         *)
Serving(w) ==
  inst[w].status = "READY" =>
    /\ call[w].step \in {"undo", "unreserve", "unlock", "done"}
    /\ resv[w].status = "gone"
    /\ inst[w].hard = vm[w].started + HardTtl
    /\ inst[w].soft <= inst[w].hard
    /\ inst[w].soft > clock /\ w \notin revived => Untouched(w)

(* A step that leaves the row of w alone, or ends it.                      *)
Lets(w) ==
  inst'[w].status = "READY" =>
    /\ inst'[w] = inst[w]
    /\ call'[w].step = call[w].step
    /\ resv'[w].status = "gone"
    /\ vm'[w].started = vm[w].started
    /\ revived' = revived
    /\ inst[w].soft > clock /\ w \notin revived => Untouched(w)'

LEMMA ServingLasts ==
  ASSUME IInv, Numbers, NEW w \in Calls, Serving(w), Lets(w),
         clock' \in Nat, clock <= clock'
  PROVE  Serving(w)'
<1> SUFFICES ASSUME inst'[w].status = "READY"
             PROVE  Serving(w)'
  BY DEF Serving
<1>1. inst'[w] = inst[w]
  BY DEF Lets
<1>2. inst'[w].soft > clock' => inst[w].soft > clock
  BY <1>1 DEF IInv, Shaped, Numbers
<1> QED
  BY <1>1, <1>2 DEF Serving, Lets

(* What removals do to the row and the MicroVM of a worker.                *)
LEMMA RemovalLets ==
  ASSUME IInv, NEW w \in Calls, Serving(w), clock' = clock, call' = call,
         revived' = revived, vm' = vm \/ \E c \in Calls : Stop(c),
         inst' = inst \/ \E c \in Calls : DropInstance(c),
         resv' = resv \/ \E c \in Calls : DropReservation(c),
         inst'[w].status = "READY" /\ inst[w].soft > clock /\ w \notin revived =>
           Untouched(w)'
  PROVE  Lets(w)
<1>1. vm'[w].started = vm[w].started
  BY DEF Stop, IInv, Shaped, VmFields
<1>2. inst'[w].status = "READY" => inst'[w] = inst[w]
  BY DEF DropInstance, IInv, Shaped
<1>3. resv[w].status = "gone" => resv'[w].status = "gone"
  BY DEF DropReservation, IInv, Shaped
<1> QED
  BY <1>1, <1>2, <1>3 DEF Lets, Serving

LEMMA StreamLets ==
  ASSUME IInv, NEW w \in Calls, Serving(w), StreamStep
  PROVE  Lets(w)
<1>1. /\ clock' = clock /\ call' = call /\ revived' = revived
      /\ vm' = vm \/ \E c \in Calls : Stop(c)
      /\ inst' = inst \/ \E c \in Calls : DropInstance(c)
      /\ resv' = resv \/ \E c \in Calls : DropReservation(c)
  BY DEF StreamStep, TtlRemovesLock, TtlRemovesReservation, TtlRemovesInstance,
         StreamTerminates
<1>2. ASSUME inst'[w].status = "READY", inst[w].soft > clock, w \notin revived
      PROVE  Untouched(w)'
  <2>1. inst[w].status = "READY"
    BY <1>1, <1>2 DEF DropInstance, IInv, Shaped
  <2>2. Untouched(w) /\ resv[w].status = "gone"
    BY <1>2, <2>1 DEF Serving
  <2>3. CASE TtlRemovesLock
    BY <2>2, <2>3 DEF TtlRemovesLock, Untouched
  <2>4. ASSUME NEW c \in Calls, TtlRemovesReservation(c)
        PROVE  Untouched(w)'
    BY <2>2, <2>4 DEF TtlRemovesReservation, Untouched
  <2>5. ASSUME NEW c \in Calls, TtlRemovesInstance(c)
        PROVE  Untouched(w)'
    <3>1. c # w
      BY <1>2, <2>5 DEF TtlRemovesInstance, DropInstance, IInv, Shaped
    <3> QED
      BY <2>2, <2>5, <3>1 DEF TtlRemovesInstance, Untouched
  <2>6. ASSUME NEW c \in Calls, StreamTerminates(c)
        PROVE  Untouched(w)'
    BY <2>2, <2>6 DEF StreamTerminates, Untouched
  <2> QED
    BY <2>3, <2>4, <2>5, <2>6 DEF StreamStep
<1> QED
  BY <1>1, <1>2, RemovalLets

(* A scan does not list what is in service, and not expired.               *)
LEMMA ScanLets ==
  ASSUME IInv, Numbers, NEW w \in Calls, Serving(w), NEW s \in Sweepers, SweepScans(s),
         inst[w].status = "READY", inst[w].soft > clock, w \notin revived
  PROVE  Untouched(w)'
<1>1. w \notin Doomed(clock)
  <2>1. inst[w].hard > clock /\ ~(inst[w].soft <= clock)
    BY DEF Serving, IInv, Shaped, Numbers
  <2> QED
    BY <2>1 DEF Doomed, IInv, Shaped, Numbers
<1>2. w \notin Stale(clock) /\ w \notin Orphans(clock)
  BY DEF Serving, Stale, Orphans, Known
<1>3. Untouched(w)
  BY DEF Serving
<1>4. /\ sweep'[s].doomed = Doomed(clock) /\ sweep'[s].stale = Stale(clock)
      /\ sweep'[s].named \subseteq Stale(clock)
      /\ sweep'[s].orphans = Orphans(clock)
      /\ sweep'[s].erasing = {} /\ sweep'[s].clearing = {}
      /\ \A t \in Sweepers \ {s} : sweep'[t] = sweep[t]
  BY DEF SweepScans, IInv, Shaped
<1>5. removals' = removals /\ vm' = vm
  BY DEF SweepScans
<1> QED
  BY <1>1, <1>2, <1>3, <1>4, <1>5 DEF Untouched

LEMMA SweepLets ==
  ASSUME IInv, Numbers, NEW w \in Calls, Serving(w), NEW s \in Sweepers, SweepStep(s)
  PROVE  Lets(w)
<1>1. clock' = clock /\ call' = call /\ revived' = revived
  BY DEF SweepStep, SweepScans, SweepSkips, SweepEnds, SweepTerminates, SweepErases,
         SweepCancels, SweepClears, SweepStopsOrphan
<1>2. /\ vm' = vm \/ \E c \in Calls : Stop(c)
      /\ inst' = inst \/ \E c \in Calls : DropInstance(c)
      /\ resv' = resv \/ \E c \in Calls : DropReservation(c)
  BY DEF SweepStep, SweepScans, SweepSkips, SweepEnds, SweepTerminates, SweepErases,
         SweepCancels, SweepClears, SweepStopsOrphan
<1>3. ASSUME inst'[w].status = "READY", inst[w].soft > clock, w \notin revived
      PROVE  Untouched(w)'
  <2>1. inst[w].status = "READY"
    BY <1>2, <1>3 DEF DropInstance, IInv, Shaped
  <2>2. Untouched(w)
    BY <1>3, <2>1 DEF Serving
  <2>3. CASE SweepScans(s)
    BY <1>3, <2>1, <2>3, ScanLets
  <2>4. CASE SweepSkips(s) \/ SweepEnds(s)
    BY <2>2, <2>4, SweepDrops, ShrinksUntouched
  <2>5. ASSUME NEW c \in Calls, Works(s, c)
        PROVE  Untouched(w)'
    BY <2>2, <2>5 DEF Works, Untouched
  <2> QED
    BY <2>3, <2>4, <2>5, SweepWorks DEF SweepStep
<1> QED
  BY <1>1, <1>2, <1>3, RemovalLets

(* A claim by a request or by launchAndClaim finds the worker in service,  *)
(* or revives it.                                                          *)
LEMMA ClaimServes ==
  ASSUME IInv, Numbers, NEW w \in Calls, NEW start, NEW now \in Nat,
         Claimable(w, start, now), Claim(w, now),
         clock' = clock, UNCHANGED << resv, vm, removals, sweep >>,
         NEW v \in Calls, Serving(v), call'[v].step = call[v].step
  PROVE  Serving(v)'
<1>1. /\ inst'[w].status = inst[w].status /\ inst'[w].hard = inst[w].hard
      /\ inst'[w].soft = MinOf(now + SoftTtl, inst[w].hard)
      /\ \A c \in Calls \ {w} : inst'[c] = inst[c]
  BY DEF IInv, Shaped, InstFields, Claim
<1>2. /\ inst[w].status = "READY" /\ revived \subseteq revived'
      /\ w \in revived' \/ inst[w].soft > clock
  BY DEF Claimable, Claim, Numbers, IInv, Shaped
<1>3. MinOf(now + SoftTtl, inst[w].hard) <= inst[w].hard
  BY BoundsAssumption DEF Numbers, MinOf
<1>4. Untouched(v)' <=> Untouched(v)
  BY DEF Untouched
<1>5. CASE v = w
  BY <1>1, <1>2, <1>3, <1>4, <1>5 DEF Serving
<1>6. CASE v # w
  BY <1>1, <1>2, <1>4, <1>6 DEF Serving
<1> QED
  BY <1>5, <1>6

LEMMA WorkerServes ==
  ASSUME IInv, Numbers, NEW w \in Calls, WorkerStep(w),
         NEW v \in Calls, Serving(v)
  PROVE  Serving(v)'
<1> clock \in Nat
  BY DEF IInv, Shaped
<1>1. CASE WorkerClaimed(w)
  <2>1. PICK start \in 0 .. clock, now \in 0 .. clock :
          Claimable(w, start, now) /\ Claim(w, now)
    BY <1>1 DEF WorkerClaimed
  <2>2. now \in Nat
    BY <2>1
  <2>3. UNCHANGED << clock, call, resv, vm, removals, sweep >>
    BY <1>1 DEF WorkerClaimed
  <2> QED
    BY <2>1, <2>2, <2>3, ClaimServes
<1>2. CASE WorkerReleased(w) \/ WorkerFails(w) \/ PlatformStops(w)
  <2>1. UNCHANGED << clock, call, resv, removals, sweep, revived >>
    BY <1>2 DEF WorkerReleased, WorkerFails, PlatformStops
  <2>2. /\ inst'[v].status = "READY" => inst[v].status = "READY"
        /\ inst'[v].soft = inst[v].soft /\ inst'[v].hard = inst[v].hard
    BY <1>2 DEF WorkerReleased, WorkerFails, PlatformStops, IInv, Shaped, InstFields
  <2>3. vm'[v].started = vm[v].started
    BY <1>2 DEF WorkerReleased, WorkerFails, PlatformStops, Stop, IInv, Shaped, VmFields
  <2>4. Untouched(v)' <=> Untouched(v)
    BY <2>1 DEF Untouched
  <2> QED
    BY <2>1, <2>2, <2>3, <2>4 DEF Serving
<1> QED
  BY <1>1, <1>2 DEF WorkerStep

(* A registration puts a MicroVM into service that runs and that nobody    *)
(* has any plans for.                                                      *)
LEMMA RegisterServes ==
  ASSUME IInv, Numbers, NEW c \in Calls, Register(c) \/ RegisterFails(c), WriteInstance(c)
  PROVE  Serving(c)'
<1>1. /\ inst'[c].soft = MinOf(clock + SoftTtl, vm[c].started + HardTtl)
      /\ inst'[c].hard = vm[c].started + HardTtl
      /\ resv'[c].status = "gone" /\ call'[c].step \in {"undo", "unlock"}
  BY DEF Register, RegisterFails, WriteInstance, Leave, NoCall, IInv, Shaped
<1>2. UNCHANGED << clock, vm, removals, sweep >>
  BY DEF Register, RegisterFails
<1>3. MinOf(clock + SoftTtl, vm[c].started + HardTtl) <= vm[c].started + HardTtl
  BY BoundsAssumption DEF Numbers, MinOf, IInv, Shaped
<1>4. Untouched(c)
  BY DEF Register, RegisterFails, IInv, Young, Launching
<1>5. Untouched(c)'
  BY <1>2, <1>4 DEF Untouched
<1> QED
  BY <1>1, <1>2, <1>3, <1>5 DEF Serving

LEMMA CallServes ==
  ASSUME IInv, Numbers,
         NEW c \in Calls, CallStarts(c) \/ CallProceeds(c), NEW v \in Calls, Serving(v)
  PROVE  Serving(v)'
<1>1. UNCHANGED << clock, removals, sweep >>
  BY DEF CallStarts, CallProceeds, AcquireLock, LockRefused, Survey, PoolFull, Reserve,
     TryCandidate, Launch, LaunchFails, Record, Boot, BootFails, Register, RegisterFails,
     UndoTerminates, UndoUnreserves, ReleaseLock, Crash
<1>2. clock \in Nat /\ (Untouched(v)' <=> Untouched(v))
  BY <1>1 DEF Untouched, IInv, Shaped
<1>3. CASE (Register(c) \/ RegisterFails(c)) /\ WriteInstance(c)
  <2>1. CASE v = c
    BY <1>3, <2>1, RegisterServes
  <2>2. CASE v # c
    <3>1. inst'[v] = inst[v] /\ call'[v] = call[v] /\ vm'[v] = vm[v] /\ resv'[v] = resv[v]
      BY <1>3, <2>2, CallFrame DEF WriteInstance, IInv, Shaped
    <3>2. revived' = revived
      BY <1>3 DEF Register, RegisterFails
    <3> QED
      BY <1>1, <1>2, <3>1, <3>2 DEF Serving
  <2> QED
    BY <2>1, <2>2
<1>4. ASSUME NEW w \in Calls, TryCandidate(c, w), NEW now \in call[c].now .. clock,
             Claimable(w, call[c].now, now), Claim(w, now)
      PROVE  Serving(v)'
  <2>1. UNCHANGED << resv, vm >> /\ call[c].step = "decide" /\ now \in Nat
    BY <1>4 DEF TryCandidate, Numbers
  <2>2. CASE v = c
    <3>1. v # w /\ inst[v].status = "none"
      BY <1>4, <2>1, <2>2 DEF IInv, Blank, Early, Claimable
    <3>2. inst'[v] = inst[v]
      BY <1>4, <3>1 DEF Claim, IInv, Shaped
    <3> QED
      BY <3>1, <3>2 DEF Serving
  <2>3. CASE v # c
    <3>1. call'[v].step = call[v].step
      BY <2>3, CallFrame
    <3> QED
      BY <1>1, <1>4, <2>1, <3>1, ClaimServes
  <2> QED
    BY <2>2, <2>3
<1>5. CASE UNCHANGED << inst, revived >>
  <2>1. CASE v # c
    <3>1. call'[v] = call[v] /\ vm'[v] = vm[v] /\ resv'[v] = resv[v]
      BY <2>1, CallFrame
    <3> QED
      BY <1>1, <1>2, <1>5, <3>1 DEF Serving
  <2>2. CASE v = c /\ inst[v].status = "READY"
    <3>1. UndoTerminates(c) \/ UndoUnreserves(c) \/ ReleaseLock(c) \/ Crash(c)
      BY <2>2 DEF Serving, CallStarts, CallProceeds, AcquireLock, LockRefused, Survey,
         PoolFull, Reserve, TryCandidate, Launch, LaunchFails, Record, Boot, BootFails,
         Register, RegisterFails
    <3>2. call'[c].step \in {"unreserve", "unlock", "done"}
      BY <3>1 DEF UndoTerminates, UndoUnreserves, ReleaseLock, Crash, Leave, NoCall,
         IInv, Shaped
    <3>3. vm'[c].started = vm[c].started
      BY <3>1 DEF UndoTerminates, UndoUnreserves, ReleaseLock, Crash, Stop, IInv, Shaped,
         VmFields
    <3>4. resv[c].status = "gone" => resv'[c].status = "gone"
      <4>1. CASE UndoUnreserves(c)
        <5>1. DOMAIN resv = Calls /\ DOMAIN resv[c] = ResvFields
          BY DEF IInv, Shaped
        <5>2. \/ resv' = [resv EXCEPT ![c] = [status |-> "gone", vm |-> FALSE, expires |-> 0]]
              \/ resv' = resv
          BY <4>1 DEF UndoUnreserves
        <5> QED
          BY <5>1, <5>2
      <4>2. CASE UndoTerminates(c) \/ ReleaseLock(c) \/ Crash(c)
        BY <4>2 DEF UndoTerminates, ReleaseLock, Crash
      <4> QED
        BY <3>1, <4>1, <4>2
    <3> QED
      BY <1>1, <1>2, <1>5, <2>2, <3>2, <3>3, <3>4 DEF Serving
  <2>3. CASE inst[v].status # "READY"
    BY <1>5, <2>3 DEF Serving
  <2> QED
    BY <2>1, <2>2, <2>3
<1>6. \/ (Register(c) \/ RegisterFails(c)) /\ WriteInstance(c)
      \/ UNCHANGED << inst, revived >>
      \/ \E w \in Calls : TryCandidate(c, w) /\ \E now \in call[c].now .. clock :
            Claimable(w, call[c].now, now) /\ Claim(w, now)
  <2>1. ASSUME NEW w \in Calls, TryCandidate(c, w)
        PROVE  \/ \E now \in call[c].now .. clock :
                    Claimable(w, call[c].now, now) /\ Claim(w, now)
               \/ UNCHANGED << inst, revived >>
    BY <2>1 DEF TryCandidate
  <2> QED
    BY <2>1 DEF CallStarts, CallProceeds, AcquireLock, LockRefused, Survey, PoolFull,
       Reserve, Launch, LaunchFails, Record, Boot, BootFails, Register, RegisterFails,
       UndoTerminates, UndoUnreserves, ReleaseLock, Crash
<1> QED
  BY <1>3, <1>4, <1>5, <1>6

SInv == Numbers /\ \A w \in Calls : Serving(w)

LEMMA NumbersHold ==
  ASSUME IInv, Numbers, [Next]_vars
  PROVE  Numbers' /\ clock' \in Nat /\ clock <= clock'
<1>1. CASE UNCHANGED vars
  BY <1>1 DEF vars, Numbers, IInv, Shaped
<1> QED
  BY <1>1, CallAges, WorkerAges, StreamAges, SweepAges, TickAges DEF Next, Later

LEMMA ServingHolds ==
  ASSUME IInv, SInv, [Next]_vars
  PROVE  SInv'
<1>1. Numbers /\ Numbers' /\ clock' \in Nat /\ clock <= clock'
  BY NumbersHold DEF SInv
<1> SUFFICES ASSUME NEW w \in Calls PROVE Serving(w)'
  BY <1>1 DEF SInv
<1>2. Serving(w)
  BY DEF SInv
<1>3. CASE Tick \/ UNCHANGED vars
  <2>1. UNCHANGED << call, resv, inst, vm, removals, sweep, revived >>
    BY <1>3 DEF Tick, vars
  <2>2. Untouched(w)' <=> Untouched(w)
    BY <2>1 DEF Untouched
  <2>3. Lets(w)
    BY <1>2, <2>1, <2>2 DEF Serving, Lets
  <2> QED
    BY <1>1, <1>2, <2>3, ServingLasts
<1>4. ASSUME NEW c \in Calls, CallStarts(c) \/ CallProceeds(c) PROVE Serving(w)'
  BY <1>1, <1>2, <1>4, CallServes
<1>5. ASSUME NEW c \in Calls, WorkerStep(c) PROVE Serving(w)'
  BY <1>1, <1>2, <1>5, WorkerServes
<1>6. CASE StreamStep
  BY <1>1, <1>2, <1>6, StreamLets, ServingLasts
<1>7. ASSUME NEW s \in Sweepers, SweepStep(s) PROVE Serving(w)'
  BY <1>1, <1>2, <1>7, SweepLets, ServingLasts
<1> QED
  BY <1>3, <1>4, <1>5, <1>6, <1>7 DEF Next

LEMMA ServingInvariant ==
  ASSUME Durations
  PROVE  Spec => []SInv
<1>1. Init => SInv
  BY DEF Init, SInv, Numbers, Serving, NoCall
<1>2. IInv /\ SInv /\ [Next]_vars => SInv'
  BY ServingHolds
<1> QED
  BY <1>1, <1>2, InvHolds, PTL DEF Spec

(* The MicroVM of a worker in service is stopped only by a request that    *)
(* failed on it, by the catch block of its own launch, or when a late claim*)
(* had brought the worker back: whatever calls fail or lose their answers, *)
(* for any number of launches and sweeps.                                  *)
THEOREM ReadyWorkersAreSpared ==
  ASSUME Durations
  PROVE  Spec => ReadyWorkerSpared
<1> DEFINE Spared(w) ==
      /\ inst[w].status = "READY" /\ inst[w].soft > clock
      /\ vm[w].state = "running" /\ vm'[w].state = "stopped"
      => WorkerFails(w) \/ call[w].step = "undo" \/ w \in revived
<1>1. IInv /\ SInv /\ [Next]_vars => [\A w \in Calls : Spared(w)]_vars
  <2> SUFFICES ASSUME IInv, SInv, Next, NEW w \in Calls,
                      inst[w].status = "READY", inst[w].soft > clock,
                      vm[w].state = "running", vm'[w].state = "stopped",
                      w \notin revived
               PROVE  WorkerFails(w) \/ call[w].step = "undo"
    BY DEF vars
  <2>1. Numbers /\ Untouched(w) /\ inst[w].hard > clock
        /\ inst[w].hard = vm[w].started + HardTtl
    BY DEF SInv, Serving, Numbers, IInv, Shaped
  <2>2. ASSUME NEW c \in Calls, CallStarts(c) \/ CallProceeds(c)
        PROVE  call[w].step = "undo"
    <3>1. c = w
      BY <2>2, CallFrame
    <3>2. call[w].step \in {"undo", "unreserve", "unlock", "done"}
      BY DEF SInv, Serving
    <3>3. UndoTerminates(w) \/ vm' = vm
      BY <2>2, <3>1, <3>2 DEF CallStarts, CallProceeds, AcquireLock, LockRefused, Survey,
         PoolFull, Reserve, TryCandidate, Launch, LaunchFails, Record, Boot, BootFails,
         Register, RegisterFails, UndoUnreserves, ReleaseLock, Crash
    <3> QED
      BY <3>3 DEF UndoTerminates
  <2>3. ASSUME NEW v \in Calls, WorkerStep(v)
        PROVE  WorkerFails(w)
    <3>1. v = w /\ vm' # vm
      BY <2>3 DEF WorkerStep, WorkerClaimed, WorkerReleased, WorkerFails, PlatformStops,
         Stop, IInv, Shaped
    <3>2. ~PlatformStops(w)
      BY <2>1, BoundsAssumption DEF PlatformStops, Numbers, IInv, Shaped
    <3> QED
      BY <2>3, <3>1, <3>2 DEF WorkerStep, WorkerClaimed, WorkerReleased
  <2>4. ~StreamStep
    BY <2>1 DEF StreamStep, TtlRemovesLock, TtlRemovesReservation, TtlRemovesInstance,
       StreamTerminates, Stop, Untouched, IInv, Shaped
  <2>5. ASSUME NEW s \in Sweepers, SweepStep(s)
        PROVE  FALSE
    <3>1. ~SweepScans(s) /\ ~SweepSkips(s) /\ ~SweepEnds(s)
      BY DEF SweepScans, SweepSkips, SweepEnds
    <3>2. PICK c \in Calls : Works(s, c)
      BY <2>5, <3>1, SweepWorks DEF SweepStep
    <3>3. c = w
      BY <3>2 DEF Works
    <3> QED
      BY <2>1, <3>2, <3>3 DEF Works, Untouched
  <2>6. ~Tick
    BY DEF Tick
  <2> QED
    BY <2>2, <2>3, <2>4, <2>5, <2>6 DEF Next
<1>2. Spec => [][\A w \in Calls : Spared(w)]_vars
  BY <1>1, InvHolds, ServingInvariant, PTL DEF Spec
<1> QED
  BY <1>2 DEF ReadyWorkerSpared

=============================================================================
