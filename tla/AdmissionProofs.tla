--------------------------- MODULE AdmissionProofs --------------------------
(***************************************************************************)
(* What a gateway decides before it calls a worker: whether the client may *)
(* call at all, and which tier serves the input.                           *)
(*                                                                         *)
(* Both rate limiters count exactly the requests that passed in the last   *)
(* window, for any limit, window, number of clients and length of history. *)
(* The property speaks of the history of a client, the code of what is     *)
(* left of it in a map.  The invariant says what is left: the end of the   *)
(* history, from which only expired times were dropped.                    *)
(*                                                                         *)
(* A request is routed to the cheapest tier that accepts it, and a tier    *)
(* lent in its place is no slower, for any model and input.  Everything    *)
(* rests on the sort of the tiers: the rank of a tier is a permutation of  *)
(* their places, so the sorted sequence has the same tiers in order.       *)
(***************************************************************************)
EXTENDS RateLimiter, TierRouting, SequenceTheorems, FiniteSetTheorems,
        WellFoundedInduction, TLAPS

(* The times in a map; a client that is not there has none.                *)
Stored(map, c) == IF c \in DOMAIN map THEN map[c] ELSE << >>

Ordered(times) ==
  \A i, j \in 1 .. Len(times) : i <= j => times[i] <= times[j]

(* times is what is left of the history, without expired times at most.    *)
Covers(times, history, now) ==
  /\ times \in Seq(Nat)
  /\ Len(times) <= Len(history)
  /\ \A i \in 1 .. Len(times) : times[i] = history[Len(history) - Len(times) + i]
  /\ \A i \in 1 .. Len(history) - Len(times) : history[i] + Window <= now

History(c) ==
  /\ passed[c] \in Seq(Nat) /\ Ordered(passed[c])
  /\ \A i \in 1 .. Len(passed[c]) : passed[c][i] <= clock

Logged(c) ==
  /\ Covers(Stored(log, c), passed[c], clock)
  /\ Covers(Stored(awsLog, c), passed[c], clock)

IInv ==
  /\ clock \in Nat /\ DOMAIN passed = Clients
  /\ \A c \in Clients : History(c) /\ Logged(c)

-----------------------------------------------------------------------------
(* Sequences of times.                                                     *)

LEMMA LeastNumber ==
  ASSUME NEW T, T \subseteq Nat, T # {}
  PROVE  /\ Min(T) \in T
         /\ \A n \in T : Min(T) <= n
<1>1. IsWellFoundedOn(OpToRel(<, Nat), Nat)
  BY NatLessThanWellFounded
<1>2. PICK m \in T : \A n \in T : ~(<< n, m >> \in OpToRel(<, Nat))
  BY <1>1, WFMin
<1>3. \A n \in T : ~(n < m)
  BY <1>2 DEF OpToRel
<1>4. \A n \in T : m <= n
  BY <1>3
<1> QED
  BY <1>4 DEF Min

(* What is pruned has expired; what is left begins with a fresh time.      *)
LEMMA PruneKeeps ==
  ASSUME NEW s \in Seq(Nat), NEW now \in Nat
  PROVE  LET t == Prune(s, now)
             d == Len(s) - Len(t)
         IN  /\ t \in Seq(Nat) /\ d \in Nat
             /\ \A i \in 1 .. Len(t) : t[i] = s[d + i]
             /\ \A i \in 1 .. d : s[i] + Window <= now
             /\ t # << >> => now < t[1] + Window
<1> DEFINE F == Fresh(s, now)
<1>0. Len(s) \in Nat /\ DOMAIN s = 1 .. Len(s) /\ Window \in Nat
  BY NumbersAssumption
<1>1. CASE F = {}
  <2>1. Prune(s, now) = << >>
    BY <1>1 DEF Prune, From
  <2>2. \A i \in 1 .. Len(s) : s[i] + Window <= now
    BY <1>0, <1>1 DEF Fresh
  <2> QED
    BY <1>0, <2>1, <2>2
<1>2. CASE F # {}
  <2> DEFINE m == Min(F)
  <2>1. F \subseteq 1 .. Len(s) /\ F \subseteq Nat
    BY <1>0 DEF Fresh
  <2>2. m \in F /\ \A n \in F : m <= n
    BY <1>2, <2>1, LeastNumber
  <2>3. m \in 1 .. Len(s) /\ now < s[m] + Window
    BY <2>1, <2>2 DEF Fresh
  <2>4. \A i \in 1 .. m - 1 : s[i] + Window <= now
    <3> SUFFICES ASSUME NEW i \in 1 .. m - 1 PROVE s[i] + Window <= now
      OBVIOUS
    <3>1. i \notin F /\ i \in 1 .. Len(s)
      BY <1>0, <2>2, <2>3
    <3> QED
      BY <1>0, <3>1 DEF Fresh
  <2>5. Prune(s, now) = SubSeq(s, m, Len(s))
    BY <1>2 DEF Prune, From
  <2> HIDE DEF m, F
  <2>6. /\ SubSeq(s, m, Len(s)) \in Seq(Nat)
        /\ Len(SubSeq(s, m, Len(s))) = Len(s) - m + 1
        /\ \A i \in 1 .. Len(s) - m + 1 : SubSeq(s, m, Len(s))[i] = s[m + i - 1]
    <3>1. \A i \in m .. Len(s) : s[i] \in Nat
      BY <1>0, <2>3
    <3> QED
      BY <1>0, <2>3, <3>1, SubSeqProperties
  <2>7. Len(s) - Len(Prune(s, now)) = m - 1
    BY <1>0, <2>3, <2>5, <2>6
  <2> QED
    BY <1>0, <2>3, <2>4, <2>5, <2>6, <2>7
<1> QED
  BY <1>1, <1>2

LEMMA PruneCovers ==
  ASSUME NEW now \in Nat, NEW p \in Seq(Nat), NEW s, Covers(s, p, now)
  PROVE  Covers(Prune(s, now), p, now)
<1> DEFINE t == Prune(s, now)
           d == Len(s) - Len(t)
<1>0. s \in Seq(Nat) /\ Len(s) \in Nat /\ Len(p) \in Nat /\ Len(s) <= Len(p)
  BY DEF Covers
<1>1. /\ t \in Seq(Nat) /\ d \in Nat
      /\ \A i \in 1 .. Len(t) : t[i] = s[d + i]
      /\ \A i \in 1 .. d : s[i] + Window <= now
  BY <1>0, PruneKeeps
<1>2. Len(t) \in Nat
  BY <1>1
<1> HIDE DEF t
<1>3. \A i \in 1 .. Len(t) : t[i] = p[Len(p) - Len(t) + i]
  <2> SUFFICES ASSUME NEW i \in 1 .. Len(t) PROVE t[i] = p[Len(p) - Len(t) + i]
    OBVIOUS
  <2>1. d + i \in 1 .. Len(s) /\ Len(p) - Len(s) + (d + i) = Len(p) - Len(t) + i
    BY <1>0, <1>1, <1>2
  <2>2. s[d + i] = p[Len(p) - Len(s) + (d + i)]
    BY <2>1 DEF Covers
  <2> QED
    BY <1>1, <2>1, <2>2
<1>4. \A i \in 1 .. Len(p) - Len(t) : p[i] + Window <= now
  <2> SUFFICES ASSUME NEW i \in 1 .. Len(p) - Len(t) PROVE p[i] + Window <= now
    OBVIOUS
  <2>1. CASE i <= Len(p) - Len(s)
    BY <1>0, <2>1 DEF Covers
  <2>2. CASE i > Len(p) - Len(s)
    <3> DEFINE j == i - (Len(p) - Len(s))
    <3>1. j \in 1 .. d /\ j \in 1 .. Len(s) /\ Len(p) - Len(s) + j = i
      BY <1>0, <1>1, <1>2, <2>2
    <3>2. s[j] = p[i]
      BY <3>1 DEF Covers
    <3>3. s[j] + Window <= now
      BY <1>1, <3>1
    <3> QED
      BY <3>2, <3>3
  <2> QED
    BY <1>0, <2>1, <2>2
<1>5. Len(t) <= Len(p)
  BY <1>0, <1>1, <1>2
<1> QED
  BY <1>1, <1>3, <1>4, <1>5 DEF Covers, t

(* What is left after pruning are the fresh times of the history.          *)
LEMMA PruneCounts ==
  ASSUME NEW now \in Nat, NEW p \in Seq(Nat), Ordered(p), NEW s, Covers(s, p, now)
  PROVE  /\ IsFiniteSet(Fresh(p, now))
         /\ Cardinality(Fresh(p, now)) = Len(Prune(s, now))
<1> DEFINE t == Prune(s, now)
           k == Len(p) - Len(t)
<1>1. Covers(t, p, now)
  BY PruneCovers
<1>2. t # << >> => now < t[1] + Window
  BY PruneKeeps DEF Covers
<1> HIDE DEF t
<1>3. /\ t \in Seq(Nat) /\ Len(t) \in Nat /\ Len(p) \in Nat /\ Len(t) <= Len(p)
      /\ Window \in Nat /\ DOMAIN p = 1 .. Len(p) /\ k \in Nat
  BY <1>1, NumbersAssumption DEF Covers
<1>4. Fresh(p, now) = (k + 1) .. Len(p)
  <2>1. ASSUME NEW i \in 1 .. Len(p), i <= k PROVE i \notin Fresh(p, now)
    <3>1. p[i] + Window <= now /\ p[i] \in Nat
      BY <1>1, <1>3, <2>1 DEF Covers
    <3> QED
      BY <1>3, <3>1 DEF Fresh
  <2>2. ASSUME NEW i \in 1 .. Len(p), i > k PROVE i \in Fresh(p, now)
    <3>1. Len(t) > 0 /\ t # << >>
      BY <1>3, <2>2
    <3>2. t[1] = p[k + 1] /\ k + 1 \in 1 .. Len(p)
      BY <1>1, <1>3, <3>1 DEF Covers
    <3>3. k + 1 <= i /\ k \in Nat
      BY <1>3, <2>2
    <3>4. p[k + 1] <= p[i]
      BY <3>2, <3>3 DEF Ordered
    <3>5. p[k + 1] \in Nat /\ p[i] \in Nat
      BY <3>2
    <3>6. now < p[i] + Window
      BY <1>2, <1>3, <3>1, <3>2, <3>4, <3>5
    <3> QED
      BY <1>3, <3>6 DEF Fresh
  <2>3. Fresh(p, now) \subseteq 1 .. Len(p)
    BY <1>3 DEF Fresh
  <2> DEFINE f == Fresh(p, now)
  <2> HIDE DEF f, k
  <2>4. \A i \in f : i \in (k + 1) .. Len(p)
    BY <1>3, <2>1, <2>3 DEF f
  <2>5. \A i \in (k + 1) .. Len(p) : i \in f
    BY <1>3, <2>2 DEF f
  <2> QED
    BY <2>4, <2>5 DEF f, k
<1>5. /\ IsFiniteSet((k + 1) .. Len(p))
      /\ Cardinality((k + 1) .. Len(p)) = IF k + 1 > Len(p) THEN 0 ELSE Len(p) - (k + 1) + 1
  <2>1. k + 1 \in Int /\ Len(p) \in Int
    BY <1>3
  <2> QED
    BY <2>1, FS_Interval
<1>6. (IF k + 1 > Len(p) THEN 0 ELSE Len(p) - (k + 1) + 1) = Len(t)
  BY <1>3
<1> QED
  BY <1>4, <1>5, <1>6 DEF t

LEMMA AppendCovers ==
  ASSUME NEW now \in Nat, NEW p \in Seq(Nat), NEW s, Covers(s, p, now)
  PROVE  Covers(Append(s, now), Append(p, now), now)
<1>1. s \in Seq(Nat) /\ Len(s) \in Nat /\ Len(p) \in Nat /\ Len(s) <= Len(p)
  BY DEF Covers
<1>2. /\ Append(s, now) \in Seq(Nat) /\ Len(Append(s, now)) = Len(s) + 1
      /\ \A i \in 1 .. Len(s) : Append(s, now)[i] = s[i]
      /\ Append(s, now)[Len(s) + 1] = now
  BY <1>1, AppendProperties
<1>3. /\ Len(Append(p, now)) = Len(p) + 1
      /\ \A i \in 1 .. Len(p) : Append(p, now)[i] = p[i]
      /\ Append(p, now)[Len(p) + 1] = now
  BY AppendProperties
<1>4. \A i \in 1 .. Len(s) + 1 : Append(s, now)[i] = Append(p, now)[Len(p) - Len(s) + i]
  <2>1. \A i \in 1 .. Len(s) : /\ Append(s, now)[i] = p[Len(p) - Len(s) + i]
                               /\ Len(p) - Len(s) + i \in 1 .. Len(p)
    BY <1>1, <1>2 DEF Covers
  <2>2. Len(p) - Len(s) + (Len(s) + 1) = Len(p) + 1
    BY <1>1
  <2>3. \A i \in 1 .. Len(s) : Append(s, now)[i] = Append(p, now)[Len(p) - Len(s) + i]
    BY <1>2, <1>3, <2>1
  <2>4. Append(s, now)[Len(s) + 1] = Append(p, now)[Len(p) - Len(s) + (Len(s) + 1)]
    BY <1>2, <1>3, <2>2
  <2>5. \A i \in 1 .. Len(s) + 1 : i \in 1 .. Len(s) \/ i = Len(s) + 1
    BY <1>1
  <2> QED
    BY <2>3, <2>4, <2>5
<1>5. \A i \in 1 .. Len(p) - Len(s) : Append(p, now)[i] + Window <= now
  BY <1>1, <1>3 DEF Covers
<1>6. (Len(p) + 1) - (Len(s) + 1) = Len(p) - Len(s)
  BY <1>1
<1> DEFINE t == Append(s, now)
           q == Append(p, now)
<1>7. /\ t \in Seq(Nat) /\ Len(t) = Len(s) + 1 /\ Len(q) = Len(p) + 1
      /\ Len(q) - Len(t) = Len(p) - Len(s)
      /\ \A i \in 1 .. Len(s) + 1 : t[i] = q[Len(p) - Len(s) + i]
      /\ \A i \in 1 .. Len(p) - Len(s) : q[i] + Window <= now
  BY <1>2, <1>3, <1>4, <1>5, <1>6
<1>8. Len(t) <= Len(q)
  BY <1>1, <1>7
<1> HIDE DEF t, q
<1>9. Covers(t, q, now)
  BY <1>7, <1>8 DEF Covers
<1> QED
  BY <1>9 DEF t, q

LEMMA LaterCovers ==
  ASSUME NEW now \in Nat, NEW p \in Seq(Nat), NEW s, Covers(s, p, now)
  PROVE  Covers(s, p, now + 1)
<1>1. Len(p) \in Nat /\ Len(s) \in Nat /\ Window \in Nat
  BY NumbersAssumption DEF Covers
<1>2. \A i \in 1 .. Len(p) - Len(s) : p[i] \in Nat /\ p[i] + Window <= now
  BY <1>1 DEF Covers
<1>3. \A i \in 1 .. Len(p) - Len(s) : p[i] + Window <= now + 1
  BY <1>1, <1>2
<1> QED
  BY <1>3 DEF Covers

(* A request that passes now is fresh.                                     *)
LEMMA AppendCounts ==
  ASSUME NEW now \in Nat, NEW p \in Seq(Nat), IsFiniteSet(Fresh(p, now))
  PROVE  Cardinality(Fresh(Append(p, now), now)) = Cardinality(Fresh(p, now)) + 1
<1>1. /\ Len(p) \in Nat /\ DOMAIN p = 1 .. Len(p)
      /\ DOMAIN Append(p, now) = 1 .. Len(p) + 1
      /\ \A i \in 1 .. Len(p) : Append(p, now)[i] = p[i]
      /\ Append(p, now)[Len(p) + 1] = now
  BY AppendProperties
<1>2. now < now + Window
  BY NumbersAssumption
<1>3. 1 .. Len(p) + 1 = (1 .. Len(p)) \cup {Len(p) + 1}
  BY <1>1
<1>4. Fresh(Append(p, now), now) = Fresh(p, now) \cup {Len(p) + 1}
  BY <1>1, <1>2, <1>3 DEF Fresh
<1>5. Len(p) + 1 \notin Fresh(p, now)
  BY <1>1 DEF Fresh
<1> QED
  BY <1>4, <1>5, FS_AddElement

-----------------------------------------------------------------------------
(* The maps.                                                               *)

LEMMA TimesArePruned ==
  ASSUME NEW map, NEW c, NEW now
  PROVE  Times(map, c, now) = Prune(Stored(map, c), now)
<1>1. Prune(<< >>, now) = << >>
  BY DEF Prune, From, Fresh
<1> QED
  BY <1>1 DEF Times, Stored

LEMMA PutStores ==
  ASSUME NEW map, NEW c, NEW times, NEW d
  PROVE  Stored(Put(map, c, times), d) = IF d = c THEN times ELSE Stored(map, d)
BY DEF Put, Stored

(* The sweep prunes, and drops who has nothing left.                       *)
LEMMA SweepCovers ==
  ASSUME NEW now \in Nat, NEW c, NEW p \in Seq(Nat), Covers(Stored(log, c), p, now)
  PROVE  Covers(Stored(Sweep(now), c), p, now)
<1>1. Stored(Sweep(now), c) \in {Stored(log, c), Prune(Stored(log, c), now)}
  BY DEF Sweep, Stored
<1> QED
  BY <1>1, PruneCovers

(* What CheckGcp keeps.                                                    *)
LEMMA GcpKeeps ==
  ASSUME NEW c, NEW now \in Nat, CheckGcp(c, now), NEW d
  PROVE  LET times == Times(Sweep(now), c, now)
         IN  Stored(log', d) = IF d # c THEN Stored(Sweep(now), d)
                               ELSE IF Refused(times) THEN times
                               ELSE Append(times, now)
<1> DEFINE entries == Sweep(now)
           times   == Times(entries, c, now)
<1>1. CASE ~Refused(times)
  <2> DEFINE new == Append(times, now)
  <2>1. log' = Put(entries, c, new)
    BY <1>1 DEF CheckGcp
  <2> HIDE DEF entries, times, new
  <2>2. Stored(log', d) = IF d = c THEN new ELSE Stored(entries, d)
    BY <2>1, PutStores
  <2> QED
    BY <1>1, <2>2 DEF entries, times, new
<1>2. CASE Refused(times) /\ times # << >>
  <2>1. log' = Put(entries, c, times)
    BY <1>2 DEF CheckGcp
  <2> HIDE DEF entries, times
  <2>2. Stored(log', d) = IF d = c THEN times ELSE Stored(entries, d)
    BY <2>1, PutStores
  <2> QED
    BY <1>2, <2>2 DEF entries, times
<1>3. CASE Refused(times) /\ times = << >>
  <2>1. log' = Restrict(entries, DOMAIN entries \ {c})
    BY <1>3 DEF CheckGcp
  <2> HIDE DEF entries, times
  <2>2. Stored(log', d) = IF d # c THEN Stored(entries, d) ELSE times
    BY <1>3, <2>1 DEF Stored, Restrict
  <2> QED
    BY <1>3, <2>2 DEF entries, times
<1> QED
  BY <1>1, <1>2, <1>3

LEMMA AwsKeeps ==
  ASSUME NEW c, NEW now \in Nat, CheckAws(c, now), NEW d
  PROVE  LET active == Times(awsLog, c, now)
         IN  Stored(awsLog', d) = IF d # c \/ Refused(active) THEN Stored(awsLog, d)
                                  ELSE Append(active, now)
<1> DEFINE active == Times(awsLog, c, now)
<1>1. CASE Refused(active)
  BY <1>1 DEF CheckAws
<1>2. CASE ~Refused(active)
  <2> DEFINE new == Append(active, now)
  <2>1. awsLog' = Put(awsLog, c, new)
    BY <1>2 DEF CheckAws
  <2> HIDE DEF active, new
  <2>2. Stored(awsLog', d) = IF d = c THEN new ELSE Stored(awsLog, d)
    BY <2>1, PutStores
  <2> QED
    BY <1>2, <2>2 DEF active, new
<1> QED
  BY <1>1, <1>2

-----------------------------------------------------------------------------
(* The steps.                                                              *)

LEMMA InitHolds == Init => IInv /\ PassesBelowLimit
<1> SUFFICES ASSUME Init PROVE IInv /\ PassesBelowLimit
  OBVIOUS
<1>1. PassesBelowLimit
  BY DEF Init, PassesBelowLimit
<1>2. clock \in Nat /\ DOMAIN passed = Clients
  BY NumbersAssumption DEF Init
<1>3. ASSUME NEW c \in Clients PROVE History(c) /\ Logged(c)
  <2>1. passed[c] = << >> /\ Stored(log, c) = << >> /\ Stored(awsLog, c) = << >>
    BY DEF Init, Stored
  <2> QED
    BY <2>1 DEF History, Logged, Covers, Ordered
<1> QED
  BY <1>1, <1>2, <1>3 DEF IInv

LEMMA TickHolds ==
  ASSUME IInv, PassesBelowLimit, Tick
  PROVE  IInv' /\ PassesBelowLimit'
<1>1. clock' = clock + 1 /\ clock \in Nat /\ UNCHANGED << log, awsLog, answer, passed >>
  BY DEF IInv, Tick
<1>2. ASSUME NEW c \in Clients PROVE History(c)'
  BY <1>1 DEF IInv, History
<1>3. ASSUME NEW c \in Clients PROVE Logged(c)'
  BY <1>1, LaterCovers DEF IInv, History, Logged
<1>4. PassesBelowLimit'
  BY <1>1 DEF PassesBelowLimit
<1> QED
  BY <1>1, <1>2, <1>3, <1>4 DEF IInv

(* Both gateways see as many times as there are fresh ones in the history. *)
LEMMA BothCount ==
  ASSUME IInv, NEW c \in Clients
  PROVE  LET n == Cardinality(Fresh(passed[c], clock))
         IN  /\ n \in Nat /\ IsFiniteSet(Fresh(passed[c], clock))
             /\ Len(Times(log, c, clock)) = n
             /\ Len(Times(Sweep(clock), c, clock)) = n
             /\ Len(Times(awsLog, c, clock)) = n
<1>1. clock \in Nat /\ History(c) /\ Logged(c)
  BY DEF IInv
<1>2. passed[c] \in Seq(Nat) /\ Ordered(passed[c])
  BY <1>1 DEF History
<1>3. /\ Covers(Stored(log, c), passed[c], clock)
      /\ Covers(Stored(awsLog, c), passed[c], clock)
      /\ Covers(Stored(Sweep(clock), c), passed[c], clock)
  BY <1>1, <1>2, SweepCovers DEF Logged
<1> QED
  BY <1>1, <1>2, <1>3, PruneCounts, TimesArePruned, FS_CardinalityType

LEMMA CheckHolds ==
  ASSUME IInv, NEW c \in Clients, Check(c)
  PROVE  IInv' /\ PassesBelowLimit'
<1> DEFINE n == Cardinality(Fresh(passed[c], clock))
           gcp == Passes(log, c, clock)
<1>1. /\ n \in Nat /\ IsFiniteSet(Fresh(passed[c], clock))
      /\ Len(Times(log, c, clock)) = n
      /\ Len(Times(Sweep(clock), c, clock)) = n
      /\ Len(Times(awsLog, c, clock)) = n
  BY BothCount
<1>2. /\ Refused(Times(log, c, clock)) <=> ~(n < Limit)
      /\ Refused(Times(Sweep(clock), c, clock)) <=> ~(n < Limit)
      /\ Refused(Times(awsLog, c, clock)) <=> ~(n < Limit)
  BY <1>1, NumbersAssumption DEF Refused
<1>3. /\ gcp <=> n < Limit
      /\ Passes(awsLog, c, clock) <=> n < Limit
  BY <1>2 DEF Passes
<1>4. /\ clock' = clock /\ clock \in Nat
      /\ CheckGcp(c, clock) /\ CheckAws(c, clock)
      /\ answer' = [client |-> {c}, at |-> clock, gcp |-> gcp,
                    aws |-> Passes(awsLog, c, clock)]
      /\ passed' = IF gcp THEN [passed EXCEPT ![c] = Append(@, clock)] ELSE passed
  BY DEF Check, IInv
<1> HIDE DEF gcp, n
<1>5. /\ DOMAIN passed' = Clients
      /\ \A d \in Clients \ {c} : passed'[d] = passed[d]
      /\ passed'[c] = IF n < Limit THEN Append(passed[c], clock) ELSE passed[c]
  BY <1>3, <1>4 DEF IInv
<1>6. ASSUME NEW d \in Clients \ {c} PROVE History(d)' /\ Logged(d)'
  <2>1. History(d) /\ Logged(d)
    BY DEF IInv
  <2>2. Covers(Stored(Sweep(clock), d), passed[d], clock)
    BY <1>4, <2>1, SweepCovers DEF Logged, History
  <2>3. Stored(log', d) = Stored(Sweep(clock), d) /\ Stored(awsLog', d) = Stored(awsLog, d)
    BY <1>4, GcpKeeps, AwsKeeps
  <2>4. passed'[d] = passed[d]
    BY <1>5
  <2>5. History(d)'
    BY <1>4, <2>1, <2>4 DEF History
  <2>6. Logged(d)'
    BY <1>4, <2>1, <2>2, <2>3, <2>4 DEF Logged
  <2> QED
    BY <2>5, <2>6
<1>7. History(c) /\ Logged(c) /\ passed[c] \in Seq(Nat)
  BY DEF IInv, History
<1>8. /\ Covers(Times(Sweep(clock), c, clock), passed[c], clock)
      /\ Covers(Times(awsLog, c, clock), passed[c], clock)
  <2>1. Covers(Stored(Sweep(clock), c), passed[c], clock)
    BY <1>4, <1>7, SweepCovers DEF Logged
  <2>2. Covers(Stored(awsLog, c), passed[c], clock)
    BY <1>7 DEF Logged
  <2> QED
    BY <1>4, <1>7, <2>1, <2>2, PruneCovers, TimesArePruned
<1>9. Logged(c)'
  <2>1. CASE n < Limit
    <3>1. /\ Stored(log', c) = Append(Times(Sweep(clock), c, clock), clock)
          /\ Stored(awsLog', c) = Append(Times(awsLog, c, clock), clock)
      BY <1>2, <1>4, <2>1, GcpKeeps, AwsKeeps
    <3>2. passed'[c] = Append(passed[c], clock)
      BY <1>5, <2>1
    <3>3. /\ Covers(Stored(log', c), passed'[c], clock)
          /\ Covers(Stored(awsLog', c), passed'[c], clock)
      BY <1>4, <1>7, <1>8, <3>1, <3>2, AppendCovers
    <3> QED
      BY <1>4, <3>3 DEF Logged
  <2>2. CASE ~(n < Limit)
    <3>1. /\ Stored(log', c) = Times(Sweep(clock), c, clock)
          /\ Stored(awsLog', c) = Stored(awsLog, c)
      BY <1>2, <1>4, <2>2, GcpKeeps, AwsKeeps
    <3>2. passed'[c] = passed[c]
      BY <1>5, <2>2
    <3> QED
      BY <1>4, <1>7, <1>8, <3>1, <3>2 DEF Logged
  <2> QED
    BY <2>1, <2>2
<1>10. History(c)'
  <2>1. CASE ~(n < Limit)
    <3>1. passed'[c] = passed[c]
      BY <1>5, <2>1
    <3> QED
      BY <1>4, <1>7, <3>1 DEF History
  <2>2. CASE n < Limit
    <3> DEFINE p == passed[c]
               q == Append(p, clock)
    <3>1. passed'[c] = q
      BY <1>5, <2>2
    <3>2. /\ q \in Seq(Nat) /\ Len(q) = Len(p) + 1 /\ Len(p) \in Nat
          /\ \A i \in 1 .. Len(p) : q[i] = p[i]
          /\ q[Len(p) + 1] = clock
      BY <1>4, <1>7, AppendProperties
    <3>3. Ordered(p) /\ \A i \in 1 .. Len(p) : p[i] <= clock
      BY <1>7 DEF History
    <3> HIDE DEF p, q
    <3>4. \A i \in 1 .. Len(q) : q[i] <= clock
      BY <1>4, <3>2, <3>3
    <3>5. Ordered(q)
      <4> SUFFICES ASSUME NEW i \in 1 .. Len(q), NEW j \in 1 .. Len(q), i <= j
                   PROVE  q[i] <= q[j]
        BY DEF Ordered
      <4>1. CASE j = Len(p) + 1
        BY <3>2, <3>4, <4>1
      <4>2. CASE j # Len(p) + 1
        <5>1. i \in 1 .. Len(p) /\ j \in 1 .. Len(p)
          BY <3>2, <4>2
        <5> QED
          BY <3>2, <3>3, <5>1 DEF Ordered
      <4> QED
        BY <4>1, <4>2
    <3> QED
      BY <1>4, <3>1, <3>2, <3>4, <3>5 DEF History
  <2> QED
    BY <2>1, <2>2
<1>11. PassesBelowLimit'
  <2> DEFINE after == Cardinality(Fresh(passed'[c], clock))
  <2>1. after - (IF gcp THEN 1 ELSE 0) = n
    <3>1. CASE n < Limit
      <4>1. after = n + 1
        BY <1>1, <1>4, <1>5, <1>7, <3>1, AppendCounts DEF n
      <4> QED
        BY <1>1, <1>3, <3>1, <4>1
    <3>2. CASE ~(n < Limit)
      <4>1. after = n
        BY <1>5, <3>2 DEF n
      <4> QED
        BY <1>1, <1>3, <3>2, <4>1
    <3> QED
      BY <3>1, <3>2
  <2>2. /\ answer'.client = {c} /\ answer'.at = clock /\ answer'.gcp = gcp
        /\ answer'.aws = Passes(awsLog, c, clock)
    BY <1>4
  <2> QED
    BY <1>3, <2>1, <2>2 DEF PassesBelowLimit
<1> QED
  BY <1>4, <1>5, <1>6, <1>9, <1>10, <1>11 DEF IInv

(* A check passes exactly when fewer than Limit requests of the client     *)
(* passed in the window before it, in both gateways, whatever was dropped. *)
THEOREM LimitsAreExact == Spec => []PassesBelowLimit
<1>1. IInv /\ PassesBelowLimit /\ [Next]_vars => IInv' /\ PassesBelowLimit'
  <2>1. CASE UNCHANGED vars
    BY <2>1 DEF vars, IInv, History, Logged, PassesBelowLimit
  <2> QED
    BY <2>1, TickHolds, CheckHolds DEF Next
<1> QED
  BY <1>1, InitHolds, PTL DEF Spec

-----------------------------------------------------------------------------
(* Tier routing: the metrics of a workload.                                *)

Sums(f, counts, n) ==
  f = [i \in 0 .. n |-> IF i = 0 THEN 0 ELSE f[i - 1] + counts[i]]

LEMMA SumStep ==
  ASSUME NEW f, NEW counts, NEW n \in Nat, Sums(f, counts, n), NEW i \in 0 .. n
  PROVE  f[i] = IF i = 0 THEN 0 ELSE f[i - 1] + counts[i]
BY DEF Sums

LEMMA SumsExist ==
  ASSUME NEW counts, NEW n \in Nat
  PROVE  \E f : Sums(f, counts, n)
<1> DEFINE T == {k \in Nat : ~ \E f : Sums(f, counts, k)}
           m == Min(T)
<1> SUFFICES ASSUME T # {} PROVE FALSE
  OBVIOUS
<1>1. m \in T /\ \A k \in T : m <= k
  <2>1. T \subseteq Nat
    OBVIOUS
  <2> HIDE DEF T
  <2> QED
    BY <2>1, LeastNumber
<1> HIDE DEF m
<1>2. m \in Nat /\ ~ \E f : Sums(f, counts, m)
  BY <1>1
<1>3. m # 0
  <2>1. Sums([i \in 0 .. 0 |-> 0], counts, 0)
    BY DEF Sums
  <2> QED
    BY <1>2, <2>1
<1>4. m - 1 \in Nat /\ ~(m <= m - 1)
  BY <1>2, <1>3
<1>5. PICK g : Sums(g, counts, m - 1)
  BY <1>1, <1>4
<1> HIDE DEF T
<1> DEFINE f == [i \in 0 .. m |-> IF i = 0 THEN 0 ELSE g[i - 1] + counts[i]]
<1>6. \A i \in 0 .. m - 1 : f[i] = g[i]
  <2> SUFFICES ASSUME NEW i \in 0 .. m - 1 PROVE f[i] = g[i]
    OBVIOUS
  <2>1. i \in 0 .. m
    BY <1>2
  <2>2. f[i] = IF i = 0 THEN 0 ELSE g[i - 1] + counts[i]
    BY <2>1
  <2>3. g[i] = IF i = 0 THEN 0 ELSE g[i - 1] + counts[i]
    BY <1>4, <1>5, SumStep
  <2> QED
    BY <2>2, <2>3
<1>7. ASSUME NEW i \in 0 .. m, i # 0 PROVE f[i - 1] = g[i - 1]
  <2>1. i - 1 \in 0 .. m - 1
    BY <1>2, <1>7
  <2> QED
    BY <1>6, <2>1
<1>8. Sums(f, counts, m)
  BY <1>7 DEF Sums
<1> QED
  BY <1>2, <1>8

LEMMA TotalIsNat ==
  ASSUME NEW counts \in Seq(Nat)
  PROVE  Total(counts) \in Nat
<1> DEFINE N == Len(counts)
           f == CHOOSE f : Sums(f, counts, N)
           T == {i \in 0 .. N : f[i] \notin Nat}
           m == Min(T)
<1>0. N \in Nat
  OBVIOUS
<1>1. Sums(f, counts, N)
  <2>1. \E g : Sums(g, counts, N)
    BY <1>0, SumsExist
  <2> QED
    BY <2>1
<1>2. Total(counts) = f[N]
  BY DEF Total, Sums
<1> HIDE DEF f
<1>3. ASSUME T # {} PROVE FALSE
  <2>1. m \in T /\ \A k \in T : m <= k
    <3>1. T \subseteq Nat
      BY <1>0
    <3> HIDE DEF T
    <3> QED
      BY <1>3, <3>1, LeastNumber
  <2> HIDE DEF m
  <2>2. m \in 0 .. N /\ f[m] \notin Nat
    BY <2>1
  <2>3. f[m] = IF m = 0 THEN 0 ELSE f[m - 1] + counts[m]
    BY <1>0, <1>1, <2>2, SumStep
  <2>4. m # 0
    BY <2>2, <2>3
  <2>5. m - 1 \in 0 .. N /\ ~(m <= m - 1) /\ counts[m] \in Nat
    BY <1>0, <2>2, <2>4
  <2>6. f[m - 1] \in Nat
    BY <2>1, <2>5
  <2> HIDE DEF T
  <2> QED
    BY <2>2, <2>3, <2>4, <2>5, <2>6
<1>4. N \in 0 .. N
  BY <1>0
<1> QED
  BY <1>2, <1>3, <1>4

(* The largest of finitely many counts.                                    *)
LEMMA LargestCount ==
  ASSUME NEW counts \in Seq(Nat)
  PROVE  Max(ToSet(counts) \cup {0}) \in Nat
<1> DEFINE N == Len(counts)
           Part(k) == {counts[i] : i \in 1 .. k} \cup {0}
           Bounded(k) == \E n \in Part(k) : \A c \in Part(k) : n >= c
           T == {k \in 0 .. N : ~Bounded(k)}
           m == Min(T)
<1>0. N \in Nat /\ \A i \in 1 .. N : counts[i] \in Nat
  OBVIOUS
<1>1. ASSUME T # {} PROVE FALSE
  <2>1. m \in T /\ \A k \in T : m <= k
    <3>1. T \subseteq Nat
      BY <1>0
    <3> HIDE DEF T
    <3> QED
      BY <1>1, <3>1, LeastNumber
  <2> HIDE DEF m
  <2>2. m \in 0 .. N /\ ~Bounded(m)
    BY <2>1
  <2>3. Bounded(0)
    OBVIOUS
  <2>4. m # 0
    BY <2>2, <2>3
  <2>5. m - 1 \in 0 .. N /\ ~(m <= m - 1) /\ m \in 1 .. N /\ counts[m] \in Nat
    BY <1>0, <2>2, <2>4
  <2>6. Bounded(m - 1)
    <3> HIDE DEF Bounded
    <3> QED
      BY <2>1, <2>5
  <2> HIDE DEF T
  <2>7. PICK n \in Part(m - 1) : \A c \in Part(m - 1) : n >= c
    BY <2>6
  <2>8. Part(m) = Part(m - 1) \cup {counts[m]}
    <3>1. 1 .. m = (1 .. m - 1) \cup {m}
      BY <2>5
    <3> QED
      BY <3>1
  <2>9. \A c \in Part(m - 1) : c \in Nat
    <3>1. \A i \in 1 .. m - 1 : i \in 1 .. N
      BY <1>0, <2>5
    <3> QED
      BY <1>0, <3>1
  <2> HIDE DEF Part
  <2>10. Bounded(m)
    <3>1. CASE n >= counts[m]
      BY <2>7, <2>8, <3>1
    <3>2. CASE ~(n >= counts[m])
      BY <2>5, <2>7, <2>8, <2>9, <3>2
    <3> QED
      BY <3>1, <3>2
  <2> QED
    BY <2>2, <2>10
<1>2. Bounded(N)
  <2>1. N \in 0 .. N
    BY <1>0
  <2> HIDE DEF Bounded
  <2> QED
    BY <1>1, <2>1
<1>3. Part(N) = ToSet(counts) \cup {0} /\ \A c \in Part(N) : c \in Nat
  BY <1>0 DEF ToSet
<1> HIDE DEF Part
<1>4. Max(Part(N)) \in Part(N)
  BY <1>2 DEF Max
<1> QED
  BY <1>3, <1>4

LEMMA MetricsAreNumbers ==
  ASSUME NEW input \in Inputs
  PROVE  LET m == Metrics(input)
         IN  /\ m.maxTokens \in Nat /\ m.totalTokens \in Nat /\ m.batchItems \in Nat
             /\ m.attentionScore \in Nat /\ m.responseBytes \in Nat
<1>1. input \in Seq(Nat)
  BY InputsAssumption
<1>2. [n \in DOMAIN input |-> input[n] * input[n]] \in Seq(Nat)
  <2>1. DOMAIN input = 1 .. Len(input) /\ Len(input) \in Nat
    BY <1>1
  <2>2. \A n \in 1 .. Len(input) : input[n] * input[n] \in Nat
    BY <1>1
  <2> QED
    BY <2>1, <2>2
<1>3. Total(input) \in Nat /\ Total([n \in DOMAIN input |-> input[n] * input[n]]) \in Nat
  BY <1>1, <1>2, TotalIsNat
<1>4. Max(ToSet(input) \cup {0}) \in Nat
  BY <1>1, LargestCount
<1>5. Len(input) \in Nat /\ Len(input) * ItemBytes \in Nat
  BY <1>1, UnitsAssumption
<1> QED
  BY <1>3, <1>4, <1>5 DEF Metrics

-----------------------------------------------------------------------------
(* The order of the tiers.                                                 *)

LEMMA TiersAreRanked ==
  ASSUME NEW stored \in Seq(Tier)
  PROVE  LET D == 1 .. Len(stored)
         IN  /\ \A i \in D : Rank(stored, i) \in D
             /\ \A i, j \in D : Before(stored, i, j) => Rank(stored, i) < Rank(stored, j)
             /\ \A i, j \in D : i # j => Before(stored, i, j) \/ Before(stored, j, i)
<1> DEFINE D == 1 .. Len(stored)
           Earlier(i) == {j \in D : Before(stored, j, i)}
<1>1. Len(stored) \in Nat /\ DOMAIN stored = D
  OBVIOUS
<1>2. \A i \in D : stored[i].order \in Nat
  <2>1. \A i \in D : stored[i] \in Tier
    OBVIOUS
  <2> QED
    BY <2>1 DEF Tier
<1>3. \A i, j \in D : i # j => Before(stored, i, j) \/ Before(stored, j, i)
  BY <1>1, <1>2 DEF Before
<1>4. \A i \in D : ~Before(stored, i, i)
  BY <1>1, <1>2 DEF Before
<1>5. \A i, j, k \in D : Before(stored, i, j) /\ Before(stored, j, k) => Before(stored, i, k)
  BY <1>1, <1>2 DEF Before
<1>6. IsFiniteSet(D) /\ Cardinality(D) = Len(stored)
  BY <1>1, FS_Interval
<1>7. \A i \in D : Rank(stored, i) = 1 + Cardinality(Earlier(i))
  BY <1>1 DEF Rank
<1> HIDE DEF D
<1>8. ASSUME NEW i \in D
      PROVE  IsFiniteSet(Earlier(i)) /\ Cardinality(Earlier(i)) \in Nat
  BY <1>6, FS_Subset, FS_CardinalityType
<1>9. ASSUME NEW i \in D, NEW S, Earlier(i) \subseteq S \ {i}, i \in S, IsFiniteSet(S)
      PROVE  Rank(stored, i) <= Cardinality(S)
  <2> DEFINE R == S \ {i}
             E == Earlier(i)
  <2>1. IsFiniteSet(R) /\ Cardinality(R) = Cardinality(S) - 1
    BY <1>9, FS_RemoveElement
  <2>2. E \in SUBSET R
    BY <1>9
  <2> HIDE DEF R, E
  <2>3. Cardinality(E) <= Cardinality(R)
    BY <2>1, <2>2, FS_Subset
  <2>4. Cardinality(S) \in Nat
    BY <1>9, FS_CardinalityType
  <2>5. Cardinality(E) \in Nat
    BY <1>8 DEF E
  <2>6. Rank(stored, i) = 1 + Cardinality(E)
    BY <1>7 DEF E
  <2> QED
    BY <2>1, <2>3, <2>4, <2>5, <2>6
<1>10. ASSUME NEW i \in D PROVE Rank(stored, i) \in 1 .. Len(stored)
  <2>1. Earlier(i) \subseteq D \ {i}
    BY <1>4
  <2>2. Rank(stored, i) <= Len(stored)
    BY <1>6, <1>9, <2>1
  <2> DEFINE c == Cardinality(Earlier(i))
  <2>3. c \in Nat /\ Rank(stored, i) = 1 + c
    BY <1>7, <1>8
  <2> HIDE DEF c
  <2> QED
    BY <1>1, <2>2, <2>3
<1>11. ASSUME NEW i \in D, NEW j \in D, Before(stored, i, j)
       PROVE  Rank(stored, i) < Rank(stored, j)
  <2>1. Earlier(i) \subseteq Earlier(j) \ {i} /\ i \in Earlier(j)
    BY <1>4, <1>5, <1>11
  <2>2. IsFiniteSet(Earlier(j)) /\ Cardinality(Earlier(j)) \in Nat /\ Cardinality(Earlier(i)) \in Nat
    BY <1>8
  <2>3. Rank(stored, i) <= Cardinality(Earlier(j))
    <3> DEFINE S == Earlier(j)
    <3>1. Earlier(i) \subseteq S \ {i} /\ i \in S /\ IsFiniteSet(S)
      BY <2>1, <2>2
    <3> HIDE DEF S
    <3>2. Rank(stored, i) <= Cardinality(S)
      BY <1>9, <3>1
    <3> QED
      BY <3>2 DEF S
  <2> QED
    BY <1>7, <2>2, <2>3
<1> QED
  BY <1>3, <1>10, <1>11 DEF D

(* Sorting keeps the tiers and puts them in ascending order.               *)
LEMMA SortedHolds ==
  ASSUME NEW stored \in Seq(Tier)
  PROVE  LET s == Sorted(stored)
             D == 1 .. Len(stored)
         IN  /\ DOMAIN s = D /\ Len(s) = Len(stored) /\ Len(stored) \in Nat
             /\ \A n \in D : s[n] \in Tier /\ s[n] \in ToSet(stored)
             /\ \A t \in ToSet(stored) : \E n \in D : s[n] = t
             /\ \A n, k \in D : n <= k => s[n].order <= s[k].order
<1> DEFINE s == Sorted(stored)
           D == 1 .. Len(stored)
           r == [i \in D |-> Rank(stored, i)]
<1>1. Len(stored) \in Nat /\ DOMAIN stored = D /\ IsFiniteSet(D) /\ \A i \in D : stored[i] \in Tier
  <2>1. Len(stored) \in Nat
    OBVIOUS
  <2> QED
    BY <2>1, FS_Interval
<1>2. /\ \A i \in D : Rank(stored, i) \in D
      /\ \A i, j \in D : Before(stored, i, j) => Rank(stored, i) < Rank(stored, j)
      /\ \A i, j \in D : i # j => Before(stored, i, j) \/ Before(stored, j, i)
  BY TiersAreRanked
<1>3. \A i \in D : Rank(stored, i) \in Nat
  BY <1>2
<1>4. \A i, j \in D : Rank(stored, i) = Rank(stored, j) => i = j
  <2> SUFFICES ASSUME NEW i \in D, NEW j \in D, Rank(stored, i) = Rank(stored, j), i # j
               PROVE  FALSE
    OBVIOUS
  <2> HIDE DEF D
  <2>1. Rank(stored, i) < Rank(stored, j) \/ Rank(stored, j) < Rank(stored, i)
    BY <1>2
  <2> QED
    BY <1>3, <2>1
<1>5. \A n \in D : \E i \in D : Rank(stored, i) = n
  <2>1. r \in [D -> D]
    BY <1>2
  <2>2. \A i, j \in D : r[i] = r[j] => i = j
    BY <1>4
  <2> HIDE DEF r, D
  <2>3. r \in Injection(D, D)
    BY <2>1, <2>2 DEF Injection, IsInjective
  <2>4. r \in Surjection(D, D)
    BY <1>1, <2>3, FS_Injection
  <2>5. \A n \in D : \E i \in D : r[i] = n
    BY <2>4 DEF Surjection
  <2> QED
    BY <2>5 DEF r
<1> DEFINE At(n) == CHOOSE i \in D : Rank(stored, i) = n
<1> HIDE DEF D
<1>6. \A n \in D : At(n) \in D /\ Rank(stored, At(n)) = n
  BY <1>5
<1>7. DOMAIN s = D /\ \A n \in D : s[n] = stored[At(n)]
  BY <1>1 DEF Sorted
<1> HIDE DEF s, At
<1>8. \A n \in D : s[n] \in Tier /\ s[n] \in ToSet(stored)
  BY <1>1, <1>6, <1>7 DEF ToSet
<1>9. ASSUME NEW t \in ToSet(stored) PROVE \E n \in D : s[n] = t
  <2>1. PICK i \in D : stored[i] = t
    BY <1>1 DEF ToSet
  <2>2. Rank(stored, i) \in D
    BY <1>2
  <2>3. At(Rank(stored, i)) = i
    BY <1>4, <1>6, <2>2
  <2> QED
    BY <1>7, <2>1, <2>2, <2>3
<1>10. ASSUME NEW n \in D, NEW k \in D, n <= k PROVE s[n].order <= s[k].order
  <2> DEFINE i == At(n)
             j == At(k)
  <2>1. i \in D /\ j \in D /\ Rank(stored, i) = n /\ Rank(stored, j) = k
    BY <1>6
  <2>2. s[n] = stored[i] /\ s[k] = stored[j]
    BY <1>7
  <2> HIDE DEF i, j
  <2>3. n \in Nat /\ k \in Nat
    BY <1>3, <2>1
  <2>4. stored[i].order \in Nat /\ stored[j].order \in Nat
    BY <1>1, <2>1 DEF Tier
  <2>5. ~Before(stored, j, i)
    BY <1>2, <1>10, <2>1, <2>3
  <2>6. stored[i].order <= stored[j].order
    BY <2>4, <2>5 DEF Before
  <2> QED
    BY <2>2, <2>6
<1>11. Len(s) = Len(stored)
  BY <1>1, <1>7 DEF D
<1> QED
  BY <1>1, <1>7, <1>8, <1>9, <1>10, <1>11 DEF s, D

-----------------------------------------------------------------------------
(* The choice.                                                             *)

(* The shape of a list of tiers that was sorted.                           *)
Ascending(sorted) ==
  /\ Len(sorted) \in Nat \ {0} /\ DOMAIN sorted = 1 .. Len(sorted)
  /\ \A n \in DOMAIN sorted : sorted[n] \in Tier
  /\ \A n, k \in DOMAIN sorted : n <= k => sorted[n].order <= sorted[k].order

LEMMA SortedAscends ==
  ASSUME NEW stored \in Seq(Tier), stored # << >>
  PROVE  /\ Ascending(Sorted(stored))
         /\ \A t : t \in ToSet(stored) <=>
                     \E n \in DOMAIN Sorted(stored) : Sorted(stored)[n] = t
<1>1. Len(stored) \in Nat \ {0}
  BY EmptySeq
<1> QED
  BY <1>1, SortedHolds DEF Ascending

LEMMA ChoiceHolds ==
  ASSUME NEW sorted, Ascending(sorted), NEW m
  PROVE  LET i == EffectiveIndex(sorted, m)
         IN  /\ i \in DOMAIN sorted
             /\ Accepting(sorted, m) # {} =>
                  /\ TierAccepts(sorted[i], m)
                  /\ \A n \in DOMAIN sorted :
                       TierAccepts(sorted[n], m) => sorted[i].order <= sorted[n].order
             /\ Accepting(sorted, m) = {} => i = Len(sorted)
<1> DEFINE A == Accepting(sorted, m)
           i == EffectiveIndex(sorted, m)
<1>1. Len(sorted) \in Nat \ {0} /\ DOMAIN sorted = 1 .. Len(sorted)
  BY DEF Ascending
<1>2. CASE A = {}
  <2>1. i = Len(sorted)
    BY <1>2 DEF EffectiveIndex
  <2> QED
    BY <1>1, <1>2, <2>1
<1>3. CASE A # {}
  <2>1. A \subseteq Nat /\ A \subseteq DOMAIN sorted
    BY <1>1 DEF Accepting
  <2>2. i = Min(A)
    BY <1>3 DEF EffectiveIndex
  <2>3. i \in A /\ \A n \in A : i <= n
    <3> HIDE DEF A, i
    <3> QED
      BY <1>3, <2>1, <2>2, LeastNumber
  <2>4. TierAccepts(sorted[i], m)
    BY <2>3 DEF Accepting
  <2>5. ASSUME NEW n \in DOMAIN sorted, TierAccepts(sorted[n], m)
        PROVE  sorted[i].order <= sorted[n].order
    <3>1. n \in A
      BY <2>5 DEF Accepting
    <3> QED
      BY <2>1, <2>3, <3>1 DEF Ascending
  <2> QED
    BY <1>3, <2>1, <2>3, <2>4, <2>5
<1> QED
  BY <1>2, <1>3

(* What the selection leaves behind, and the worker it may get.            *)
Selection ==
  /\ tiers = Sorted(model.tiers) /\ model.tiers # << >>
  /\ selected = EffectiveIndex(tiers, Metrics(items))
  /\ ~Overload(tiers, Metrics(items))
  /\ served = 0 \/ served \in selected .. Len(tiers)

RoutingInv ==
  /\ model \in Models /\ items \in Inputs
  /\ outcome = "selected" => Selection
  /\ outcome # "selected" => served = 0
  /\ outcome = "413" =>
       model.tiers # << >> /\ Overload(Sorted(model.tiers), Metrics(items))

LEMMA RoutingStep == RoutingInv /\ [RoutingNext]_routingVars => RoutingInv'
<1> SUFFICES ASSUME RoutingInv, [RoutingNext]_routingVars PROVE RoutingInv'
  OBVIOUS
<1>1. CASE UNCHANGED routingVars
  BY <1>1 DEF RoutingInv, Selection, routingVars
<1>2. CASE RefusesImage \/ NoTiers
  BY <1>2 DEF RoutingInv, RefusesImage, NoTiers, Refuse
<1>3. CASE TooLarge
  BY <1>3 DEF RoutingInv, TooLarge, Refuse
<1>4. CASE SelectTier
  <2>1. /\ outcome = "none" /\ outcome' = "selected" /\ UNCHANGED << model, items, served >>
        /\ model.tiers # << >> /\ ~Overload(Sorted(model.tiers), Metrics(items))
        /\ tiers' = Sorted(model.tiers) /\ selected' = EffectiveIndex(tiers', Metrics(items))
    BY <1>4 DEF SelectTier
  <2> QED
    BY <2>1 DEF RoutingInv, Selection
<1>5. CASE ClaimWorker
  BY <1>5 DEF RoutingInv, Selection, ClaimWorker
<1> QED
  BY <1>1, <1>2, <1>3, <1>4, <1>5 DEF RoutingNext

LEMMA RoutingIsSorted ==
  ASSUME RoutingInv, model.tiers # << >>
  PROVE  /\ Ascending(Sorted(model.tiers))
         /\ \A t : t \in ToSet(model.tiers) <=>
                     \E n \in DOMAIN Sorted(model.tiers) : Sorted(model.tiers)[n] = t
<1>1. model.tiers \in Seq(Tier)
  BY ModelsAssumption DEF RoutingInv
<1> QED
  BY <1>1, SortedAscends

(* However the tiers are stored and whatever they are, no cheaper tier than*)
(* the selected one accepts the workload; the largest is selected in place *)
(* of none only if it can run it safely.                                   *)
THEOREM SelectsCheapest == RoutingSpec => []CheapestTier
<1> DEFINE m == Metrics(items)
           s == Sorted(model.tiers)
<1>1. RoutingInit => RoutingInv
  BY DEF RoutingInit, RoutingInv
<1>2. ASSUME RoutingInv, outcome = "selected", NEW t \in Accept
      PROVE  tiers[selected] \in Accept /\ tiers[selected].order <= t.order
  <2>1. /\ tiers = s /\ model.tiers # << >> /\ selected = EffectiveIndex(tiers, m)
    BY <1>2 DEF RoutingInv, Selection
  <2>2. /\ Ascending(tiers)
        /\ \A u : u \in ToSet(model.tiers) <=> \E n \in DOMAIN tiers : tiers[n] = u
    BY <1>2, <2>1, RoutingIsSorted
  <2>3. t \in ToSet(model.tiers) /\ TierAccepts(t, m)
    BY DEF Accept
  <2>4. PICK n \in DOMAIN tiers : tiers[n] = t
    BY <2>2, <2>3
  <2>5. n \in Accepting(tiers, m)
    BY <2>3, <2>4 DEF Accepting
  <2> HIDE DEF m, s
  <2>6. /\ selected \in DOMAIN tiers /\ TierAccepts(tiers[selected], m)
        /\ \A k \in DOMAIN tiers :
             TierAccepts(tiers[k], m) => tiers[selected].order <= tiers[k].order
    BY <2>1, <2>2, <2>5, ChoiceHolds
  <2>7. tiers[selected] \in ToSet(model.tiers)
    BY <2>2, <2>6
  <2> QED
    BY <2>3, <2>4, <2>6, <2>7 DEF Accept, m
<1>3. ASSUME RoutingInv, outcome = "413"
      PROVE  /\ Accept = {}
             /\ \A t \in ToSet(model.tiers) :
                  (\A u \in ToSet(model.tiers) : u.order < t.order \/ u = t)
                    => ~CanSafelyRun(t, m)
  <2>1. model.tiers # << >> /\ Overload(s, m)
    BY <1>3 DEF RoutingInv
  <2>2. /\ Ascending(s)
        /\ \A u : u \in ToSet(model.tiers) <=> \E n \in DOMAIN s : s[n] = u
    BY <1>3, <2>1, RoutingIsSorted
  <2>3. Accepting(s, m) = {} /\ ~CanSafelyRun(s[Len(s)], m)
    BY <2>1 DEF Overload
  <2> HIDE DEF m, s
  <2>4. Accept = {}
    BY <2>2, <2>3 DEF Accept, Accepting, m
  <2>5. ASSUME NEW t \in ToSet(model.tiers),
               \A u \in ToSet(model.tiers) : u.order < t.order \/ u = t
        PROVE  t = s[Len(s)]
    <3>1. PICK n \in DOMAIN s : s[n] = t
      BY <2>2
    <3>2. Len(s) \in DOMAIN s /\ n <= Len(s)
      BY <2>2 DEF Ascending
    <3>3. t.order <= s[Len(s)].order /\ t \in Tier /\ s[Len(s)] \in Tier
      BY <2>2, <3>1, <3>2 DEF Ascending
    <3>4. s[Len(s)] \in ToSet(model.tiers)
      BY <2>2, <3>2
    <3>5. t.order \in Nat /\ s[Len(s)].order \in Nat
      BY <3>3 DEF Tier
    <3>6. ~(s[Len(s)].order < t.order)
      BY <3>3, <3>5
    <3> QED
      BY <2>5, <3>4, <3>6
  <2> QED
    BY <2>3, <2>4, <2>5 DEF m
<1>4. RoutingInv => CheapestTier
  BY <1>2, <1>3 DEF CheapestTier
<1> QED
  BY <1>1, <1>4, RoutingStep, PTL DEF RoutingSpec

-----------------------------------------------------------------------------
(* The prediction.                                                         *)

LEMMA DivisionGrows ==
  ASSUME NEW x \in Nat, NEW y \in Nat, NEW d \in Nat \ {0}, x <= y
  PROVE  x \div d \in Nat /\ y \div d \in Nat /\ x \div d <= y \div d
OBVIOUS

LEMMA MinGrows ==
  ASSUME NEW c \in Nat, NEW x \in Nat, NEW y \in Nat, x <= y
  PROVE  Min({c, x}) <= Min({c, y})
<1>1. {c, x} \subseteq Nat /\ {c, x} # {} /\ {c, y} \subseteq Nat /\ {c, y} # {}
  OBVIOUS
<1>2. /\ Min({c, x}) \in {c, x} /\ \A n \in {c, x} : Min({c, x}) <= n
      /\ Min({c, y}) \in {c, y}
  BY <1>1, LeastNumber
<1> QED
  BY <1>2

(* Later tiers have more processors: the prediction does not grow.         *)
LEMMA LaterIsFaster ==
  ASSUME NEW t \in Tier, NEW u \in Tier, t.order <= u.order, NEW m,
         m.attentionScore \in Nat, m.maxTokens \in Nat
  PROVE  PredictRuntime(u, m) <= PredictRuntime(t, m)
<1> DEFINE U == TokenUnit
           d == 20 * U * U
           rest == 40 * U * U + 20 * U * m.maxTokens
           work(f) == rest + 7 * f * m.attentionScore
           long(f) == CeilDiv(work(f), d)
<1>1. U \in Nat \ {0} /\ RuntimeCap \in Nat
  BY UnitsAssumption
<1>2. U * U \in Nat \ {0}
  BY <1>1
<1>3. d \in Nat \ {0} /\ rest \in Nat
  <2>1. d = 20 * (U * U) /\ rest = 40 * (U * U) + 20 * (U * m.maxTokens)
    BY <1>1
  <2>2. U * m.maxTokens \in Nat
    BY <1>1
  <2> QED
    BY <1>2, <2>1, <2>2
<1> DEFINE f == TierFactor(u)
           g == TierFactor(t)
<1>4. f \in Nat /\ g \in Nat /\ f <= g
  <2>1. t.order \in Nat \ {0} /\ u.order \in Nat \ {0}
    BY DEF Tier
  <2> QED
    BY <2>1 DEF TierFactor
<1> HIDE DEF U, d, rest, f, g
<1>5. work(f) \in Nat /\ work(g) \in Nat /\ work(f) <= work(g)
  <2> DEFINE a == m.attentionScore
  <2>1. 7 * f * a \in Nat /\ 7 * g * a \in Nat /\ 7 * f * a <= 7 * g * a
    BY <1>4
  <2> QED
    BY <1>3, <2>1
<1> DEFINE x == work(f)
           y == work(g)
<1> HIDE DEF x, y
<1>6. /\ CeilDiv(x, d) \in Nat /\ CeilDiv(y, d) \in Nat
      /\ CeilDiv(x, d) <= CeilDiv(y, d)
  <2>1. x + d - 1 \in Nat /\ y + d - 1 \in Nat /\ x + d - 1 <= y + d - 1
    BY <1>3, <1>5 DEF x, y
  <2> QED
    BY <1>3, <2>1, DivisionGrows DEF CeilDiv
<1>7. /\ PredictRuntime(u, m) = Min({RuntimeCap, CeilDiv(x, d)})
      /\ PredictRuntime(t, m) = Min({RuntimeCap, CeilDiv(y, d)})
  BY DEF PredictRuntime, x, y, rest, d, U, f, g
<1> QED
  BY <1>1, <1>6, <1>7, MinGrows

(* A worker that a later tier lends is as fast as predicted, and as roomy  *)
(* if limits grow with the order of the tiers.                             *)
THEOREM LentTiersSuffice == RoutingSpec => []LentTierSuffices
<1> DEFINE m == Metrics(items)
<1>1. RoutingInit => RoutingInv
  BY DEF RoutingInit, RoutingInv
<1>2. ASSUME RoutingInv, served # 0
      PROVE  /\ Monotone(tiers) => CanSafelyRun(tiers[served], m)
             /\ PredictRuntime(tiers[served], m) <= PredictRuntime(tiers[selected], m)
  <2>1. /\ tiers = Sorted(model.tiers) /\ model.tiers # << >>
        /\ selected = EffectiveIndex(tiers, m) /\ ~Overload(tiers, m)
        /\ served \in selected .. Len(tiers)
    BY <1>2 DEF RoutingInv, Selection
  <2>2. Ascending(tiers)
    BY <1>2, <2>1, RoutingIsSorted
  <2>3. /\ m.maxTokens \in Nat /\ m.totalTokens \in Nat /\ m.batchItems \in Nat
        /\ m.attentionScore \in Nat /\ m.responseBytes \in Nat
    BY <1>2, MetricsAreNumbers DEF RoutingInv
  <2> HIDE DEF m
  <2>4. /\ selected \in DOMAIN tiers
        /\ CanSafelyRun(tiers[selected], m)
    <3>1. CASE Accepting(tiers, m) # {}
      BY <2>1, <2>2, <3>1, ChoiceHolds DEF TierAccepts
    <3>2. CASE Accepting(tiers, m) = {}
      BY <2>1, <2>2, <3>2, ChoiceHolds DEF Overload
    <3> QED
      BY <3>1, <3>2
  <2>5. /\ served \in DOMAIN tiers /\ selected <= served
        /\ tiers[selected] \in Tier /\ tiers[served] \in Tier
        /\ tiers[selected].order <= tiers[served].order
    BY <2>1, <2>2, <2>4 DEF Ascending
  <2>6. ASSUME Monotone(tiers) PROVE CanSafelyRun(tiers[served], m)
    <3> DEFINE t == tiers[selected]
               u == tiers[served]
    <3>1. /\ t.max_total_tokens <= u.max_total_tokens
          /\ t.max_batch_items <= u.max_batch_items
          /\ t.max_attention_score <= u.max_attention_score
          /\ t.max_response_bytes <= u.max_response_bytes
      BY <2>4, <2>5, <2>6 DEF Monotone
    <3>2. t \in Tier /\ u \in Tier /\ CanSafelyRun(t, m)
      BY <2>4, <2>5
    <3> HIDE DEF t, u
    <3>3. CanSafelyRun(u, m)
      BY <2>3, <3>1, <3>2 DEF Tier, CanSafelyRun
    <3> QED
      BY <3>3 DEF u
  <2>7. PredictRuntime(tiers[served], m) <= PredictRuntime(tiers[selected], m)
    BY <2>3, <2>5, LaterIsFaster
  <2> QED
    BY <2>6, <2>7
<1>3. RoutingInv => LentTierSuffices
  BY <1>2 DEF LentTierSuffices
<1> QED
  BY <1>1, <1>3, RoutingStep, PTL DEF RoutingSpec

=============================================================================
