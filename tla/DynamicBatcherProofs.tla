------------------------ MODULE DynamicBatcherProofs ------------------------
(***************************************************************************)
(* The batcher neither loses, repeats nor overtakes a job, and hands every *)
(* handler the rows of its own texts, for any number of jobs of any size   *)
(* and a queue and batches of any length.                                  *)
(*                                                                         *)
(* NothingLost alone is not inductive: a job that does not fit is deferred *)
(* over whatever was deferred before.  The invariant adds that nothing is  *)
(* while a batch is collected.                                             *)
(*                                                                         *)
(* That a slice of the encoded batch holds the rows of one job needs what  *)
(* FlattenSeq computes for every sequence of jobs.  It is shown by the     *)
(* least number for which it would fail.                                   *)
(***************************************************************************)
EXTENDS DynamicBatcher, SequenceTheorems, WellFoundedInduction, TLAPS

Sequences ==
  /\ queue \in Seq(Jobs) /\ deferred \in Seq(Jobs) /\ batch \in Seq(Jobs)
  /\ accepted \in Seq(Jobs) /\ started \in Seq(Jobs)

(* One job at most is carried over, and none into a batch that is open.    *)
CarriedOver == Len(deferred) <= 1 /\ (phase = "collect" => deferred = << >>)

IInv == Sequences /\ CarriedOver /\ NothingLost

LEMMA InitHolds == Init => IInv
BY DEF Init, IInv, Sequences, CarriedOver, NothingLost

-----------------------------------------------------------------------------
(* Sequences of jobs.                                                      *)

LEMMA Split ==
  ASSUME NEW s \in Seq(Jobs), s # << >>
  PROVE  /\ Head(s) \in Jobs /\ Tail(s) \in Seq(Jobs)
         /\ << Head(s) >> \in Seq(Jobs) /\ s = << Head(s) >> \o Tail(s)
OBVIOUS

LEMMA Regroup ==
  ASSUME NEW s \in Seq(Jobs), NEW t \in Seq(Jobs), NEW u \in Seq(Jobs)
  PROVE  (s \o t) \o u = s \o (t \o u)
BY ConcatAssociative

(* The head of what follows may as well end what comes before.             *)
LEMMA Shift ==
  ASSUME NEW s \in Seq(Jobs), NEW t \in Seq(Jobs), t # << >>
  PROVE  s \o t = (s \o << Head(t) >>) \o Tail(t)
<1>1. /\ << Head(t) >> \in Seq(Jobs) /\ Tail(t) \in Seq(Jobs)
      /\ t = << Head(t) >> \o Tail(t)
  BY Split
<1>2. (s \o << Head(t) >>) \o Tail(t) = s \o (<< Head(t) >> \o Tail(t))
  BY <1>1, Regroup, Zenon
<1> QED
  BY <1>1, <1>2, Zenon

-----------------------------------------------------------------------------
(* A job is accepted at the end of the queue.                              *)
LEMMA PutHolds ==
  ASSUME IInv, NEW j \in Jobs, Put(j)
  PROVE  IInv'
<1>1. /\ queue' = Append(queue, j) /\ accepted' = Append(accepted, j)
      /\ UNCHANGED << deferred, batch, phase, started >>
  BY DEF Put
<1>2. Sequences'
  BY <1>1 DEF IInv, Sequences
<1>3. CarriedOver'
  BY <1>1 DEF IInv, CarriedOver
<1>4. NothingLost'
  <2>1. Append(accepted, j) = accepted \o << j >> /\ Append(queue, j) = queue \o << j >>
    BY AppendIsConcat DEF IInv, Sequences
  <2>2. (started \o deferred \o queue) \o << j >> = (started \o deferred) \o (queue \o << j >>)
    <3>1. started \o deferred \in Seq(Jobs) /\ << j >> \in Seq(Jobs) /\ queue \in Seq(Jobs)
      BY ConcatProperties DEF IInv, Sequences
    <3> QED
      BY <3>1, Regroup, Zenon
  <2> QED
    BY <1>1, <2>1, <2>2 DEF IInv, NothingLost
<1> QED
  BY <1>2, <1>3, <1>4 DEF IInv

(* A batch starts with the job that was carried over, or with the head of  *)
(* the queue if there is none.                                             *)
LEMMA TakeFirstHolds ==
  ASSUME IInv, TakeFirst
  PROVE  IInv'
<1>1. phase' = "collect" /\ accepted' = accepted /\ started' = started \o batch'
  BY DEF TakeFirst
<1>2. CASE deferred # << >>
  <2>1. batch' = deferred /\ deferred' = << >> /\ queue' = queue
    BY <1>2 DEF TakeFirst
  <2>2. Sequences' /\ CarriedOver'
    BY <1>1, <2>1, ConcatProperties DEF IInv, Sequences, CarriedOver
  <2>3. (started \o deferred) \o << >> = started \o deferred
    BY ConcatProperties, ConcatEmptySeq DEF IInv, Sequences
  <2> QED
    BY <1>1, <2>1, <2>2, <2>3 DEF IInv, NothingLost
<1>3. CASE deferred = << >>
  <2>1. /\ queue # << >> /\ batch' = << Head(queue) >> /\ queue' = Tail(queue)
        /\ deferred' = deferred
    BY <1>3 DEF TakeFirst
  <2>2. Sequences' /\ CarriedOver'
    BY <1>1, <1>3, <2>1, Split, ConcatProperties DEF IInv, Sequences, CarriedOver
  <2>3. started \o deferred = started
    BY <1>3, ConcatEmptySeq DEF IInv, Sequences
  <2>4. started \o queue = (started \o << Head(queue) >>) \o Tail(queue)
    BY <2>1, Shift, Zenon DEF IInv, Sequences
  <2>5. (started \o << Head(queue) >>) \o << >> = started \o << Head(queue) >>
    BY <2>1, Split, ConcatProperties, ConcatEmptySeq DEF IInv, Sequences
  <2> QED
    BY <1>1, <1>3, <2>1, <2>2, <2>3, <2>4, <2>5 DEF IInv, NothingLost
<1> QED
  BY <1>2, <1>3

LEMMA CoalesceHolds ==
  ASSUME IInv, Coalesce
  PROVE  IInv'
<1>1. /\ queue # << >> /\ phase = "collect" /\ queue' = Tail(queue)
      /\ batch' = Append(batch, Head(queue)) /\ started' = Append(started, Head(queue))
      /\ UNCHANGED << deferred, phase, accepted >>
  BY DEF Coalesce
<1>2. deferred = << >>
  BY <1>1 DEF IInv, CarriedOver
<1>3. Sequences' /\ CarriedOver'
  BY <1>1, <1>2, Split, AppendProperties DEF IInv, Sequences, CarriedOver
<1>4. started' = started \o << Head(queue) >> /\ started' \in Seq(Jobs)
  BY <1>1, Split, AppendIsConcat, ConcatProperties DEF IInv, Sequences
<1>5. started \o queue = (started \o << Head(queue) >>) \o Tail(queue)
  BY <1>1, Shift, Zenon DEF IInv, Sequences
<1>6. started \o << >> = started /\ started' \o << >> = started'
  BY <1>4, ConcatEmptySeq DEF IInv, Sequences
<1> QED
  BY <1>1, <1>2, <1>3, <1>4, <1>5, <1>6 DEF IInv, NothingLost

(* Nothing is deferred yet when a job is.                                  *)
LEMMA DeferHolds ==
  ASSUME IInv, Defer
  PROVE  IInv'
<1>1. /\ queue # << >> /\ phase = "collect" /\ queue' = Tail(queue)
      /\ deferred' = << Head(queue) >> /\ phase' = "ready"
      /\ UNCHANGED << batch, accepted, started >>
  BY DEF Defer
<1>2. deferred = << >>
  BY <1>1 DEF IInv, CarriedOver
<1>3. Sequences' /\ CarriedOver'
  BY <1>1, Split DEF IInv, Sequences, CarriedOver
<1>4. started \o queue = (started \o << Head(queue) >>) \o Tail(queue)
  BY <1>1, Shift, Zenon DEF IInv, Sequences
<1>5. started \o << >> = started
  BY ConcatEmptySeq DEF IInv, Sequences
<1> QED
  BY <1>1, <1>2, <1>3, <1>4, <1>5 DEF IInv, NothingLost

(* The other steps of the batcher move no job; none opens a batch.         *)
LEMMA OtherHolds ==
  ASSUME IInv, UNCHANGED << queue, deferred, accepted, started >>,
         batch' \in {batch, << >>}, phase' = "collect" => phase = "collect"
  PROVE  IInv'
<1>1. Sequences'
  <2>1. << >> \in Seq(Jobs)
    OBVIOUS
  <2> QED
    BY <2>1 DEF IInv, Sequences
<1>2. CarriedOver' /\ NothingLost'
  BY DEF IInv, CarriedOver, NothingLost
<1> QED
  BY <1>1, <1>2 DEF IInv

LEMMA StepHolds == IInv /\ [Next]_vars => IInv'
<1> SUFFICES ASSUME IInv, [Next]_vars PROVE IInv'
  OBVIOUS
<1>1. CASE UNCHANGED vars
  BY <1>1, OtherHolds DEF vars
<1>2. ASSUME NEW j \in Jobs, PutFails(j) \/ Return(j) \/ TimeOut(j) PROVE IInv'
  BY <1>2, OtherHolds DEF PutFails, Return, TimeOut
<1>3. CASE Close \/ TakeLock \/ Encode \/ EncodeFails \/ Publish
  BY <1>3, OtherHolds DEF Close, TakeLock, Encode, EncodeFails, Publish
<1>4. ASSUME NEW v \in Validators, Validate(v) \/ ValidateEnds(v) PROVE IInv'
  BY <1>4, OtherHolds DEF Validate, ValidateEnds
<1> QED
  BY <1>1, <1>2, <1>3, <1>4, PutHolds, TakeFirstHolds, CoalesceHolds, DeferHolds
  DEF Next, HandlerStep, BatcherStep

LEMMA Invariant == Spec => []IInv
  BY StepHolds, InitHolds, PTL DEF Spec

(* Every accepted job has started, is carried over or queued, exactly once *)
(* and in the order of acceptance.                                         *)
THEOREM NoJobIsLost == Spec => []NothingLost
<1>1. IInv => NothingLost
  BY DEF IInv
<1> QED
  BY <1>1, Invariant, PTL

-----------------------------------------------------------------------------
(* What FlattenSeq builds.                                                 *)

LEMMA LeastNumber ==
  ASSUME NEW T, T \subseteq Nat, T # {}
  PROVE  \E m \in T : \A n \in T : m <= n
<1>1. IsWellFoundedOn(OpToRel(<, Nat), Nat)
  BY NatLessThanWellFounded
<1>2. PICK m \in T : \A n \in T : ~(<< n, m >> \in OpToRel(<, Nat))
  BY <1>1, WFMin
<1>3. \A n \in T : ~(n < m)
  BY <1>2 DEF OpToRel
<1> QED
  BY <1>3

(* f holds the concatenations of the first n sequences.                    *)
Builds(f, seqs, n) ==
  f = [i \in 1 .. n |-> IF i = 1 THEN seqs[i] ELSE f[i - 1] \o seqs[i]]

Sums(seqs) == CHOOSE f : Builds(f, seqs, Len(seqs))

LEMMA FlattenIsSum ==
  ASSUME NEW X, NEW seqs \in Seq(Seq(X)), Len(seqs) # 0
  PROVE  FlattenSeq(seqs) = Sums(seqs)[Len(seqs)]
BY DEF FlattenSeq, Sums, Builds

(* The function that FlattenSeq defines by recursion exists.               *)
LEMMA SumsExist ==
  ASSUME NEW seqs, NEW n \in Nat
  PROVE  \E f : Builds(f, seqs, n)
<1> DEFINE T == {k \in Nat : ~ \E f : Builds(f, seqs, k)}
<1> SUFFICES ASSUME T # {} PROVE FALSE
  OBVIOUS
<1>1. PICK m \in T : \A k \in T : m <= k
  <2>1. T \subseteq Nat
    OBVIOUS
  <2> HIDE DEF T
  <2> QED
    BY <2>1, LeastNumber
<1>2. m \in Nat /\ ~ \E f : Builds(f, seqs, m)
  BY <1>1
<1>3. Builds(<< >>, seqs, 0)
  BY DEF Builds
<1>4. m # 0
  BY <1>2, <1>3
<1>5. m - 1 \in Nat /\ ~(m <= m - 1)
  BY <1>2, <1>4
<1>6. PICK g : Builds(g, seqs, m - 1)
  BY <1>1, <1>5
<1> HIDE DEF T
<1> DEFINE f == [i \in 1 .. m |-> IF i = 1 THEN seqs[i] ELSE g[i - 1] \o seqs[i]]
<1>7. \A i \in 1 .. m - 1 : f[i] = g[i]
  <2> SUFFICES ASSUME NEW i \in 1 .. m - 1 PROVE f[i] = g[i]
    OBVIOUS
  <2>1. i \in 1 .. m
    BY <1>2
  <2>2. f[i] = IF i = 1 THEN seqs[i] ELSE g[i - 1] \o seqs[i]
    BY <2>1
  <2>3. g[i] = IF i = 1 THEN seqs[i] ELSE g[i - 1] \o seqs[i]
    BY <1>6 DEF Builds
  <2> QED
    BY <2>2, <2>3
<1>8. ASSUME NEW i \in 1 .. m, i # 1 PROVE f[i - 1] = g[i - 1]
  <2>1. i - 1 \in 1 .. m - 1
    BY <1>2, <1>8
  <2> QED
    BY <1>7, <2>1
<1>9. f = [i \in 1 .. m |-> IF i = 1 THEN seqs[i] ELSE f[i - 1] \o seqs[i]]
  BY <1>8
<1>10. Builds(f, seqs, m)
  BY <1>9 DEF Builds
<1> QED
  BY <1>2, <1>10

LEMMA SumsBuild ==
  ASSUME NEW seqs, Len(seqs) \in Nat
  PROVE  Builds(Sums(seqs), seqs, Len(seqs))
<1>1. \E f : Builds(f, seqs, Len(seqs))
  BY SumsExist
<1> QED
  BY <1>1 DEF Sums

LEMMA SumStep ==
  ASSUME NEW f, NEW seqs, NEW n \in Nat, Builds(f, seqs, n), NEW i \in 1 .. n
  PROVE  f[i] = IF i = 1 THEN seqs[i] ELSE f[i - 1] \o seqs[i]
BY DEF Builds

LEMMA SumsAreSeqs ==
  ASSUME NEW X, NEW seqs \in Seq(Seq(X)), NEW f, Builds(f, seqs, Len(seqs))
  PROVE  \A i \in 1 .. Len(seqs) : f[i] \in Seq(X)
<1> DEFINE T == {i \in 1 .. Len(seqs) : f[i] \notin Seq(X)}
<1> SUFFICES ASSUME T # {} PROVE FALSE
  OBVIOUS
<1>0. Len(seqs) \in Nat
  OBVIOUS
<1>1. PICK m \in T : \A k \in T : m <= k
  <2>1. T \subseteq Nat
    BY <1>0
  <2> HIDE DEF T
  <2> QED
    BY <2>1, LeastNumber
<1>2. m \in 1 .. Len(seqs) /\ f[m] \notin Seq(X) /\ seqs[m] \in Seq(X)
  BY <1>1
<1>3. f[m] = IF m = 1 THEN seqs[m] ELSE f[m - 1] \o seqs[m]
  BY <1>0, <1>2, SumStep
<1>4. m # 1
  BY <1>2, <1>3
<1>5. m - 1 \in 1 .. Len(seqs) /\ ~(m <= m - 1)
  BY <1>0, <1>2, <1>4
<1>6. f[m - 1] \in Seq(X)
  BY <1>1, <1>5
<1> HIDE DEF T
<1>7. f[m - 1] \o seqs[m] \in Seq(X)
  BY <1>2, <1>6, ConcatProperties
<1> QED
  BY <1>2, <1>3, <1>4, <1>7

(* Sums of the same sequences are the same.                                *)
LEMMA SumsAgree ==
  ASSUME NEW r, NEW s, NEW f, NEW g, NEW n \in Nat, NEW m \in Nat,
         Builds(f, r, n), Builds(g, s, m), m <= n, \A i \in 1 .. m : r[i] = s[i]
  PROVE  \A i \in 1 .. m : f[i] = g[i]
<1> DEFINE T == {i \in 1 .. m : f[i] # g[i]}
<1> SUFFICES ASSUME T # {} PROVE FALSE
  OBVIOUS
<1>1. PICK k \in T : \A i \in T : k <= i
  <2>1. T \subseteq Nat
    OBVIOUS
  <2> HIDE DEF T
  <2> QED
    BY <2>1, LeastNumber
<1>2. k \in 1 .. m /\ f[k] # g[k] /\ k \in 1 .. n
  BY <1>1
<1>3. /\ f[k] = IF k = 1 THEN r[k] ELSE f[k - 1] \o r[k]
      /\ g[k] = IF k = 1 THEN s[k] ELSE g[k - 1] \o s[k]
  BY <1>2, SumStep
<1>4. r[k] = s[k] /\ k # 1
  BY <1>2, <1>3
<1>5. k - 1 \in 1 .. m /\ ~(k <= k - 1)
  BY <1>2, <1>4
<1>6. f[k - 1] = g[k - 1]
  BY <1>1, <1>5
<1> QED
  BY <1>2, <1>3, <1>4, <1>6

(* A sum begins with every earlier one.                                    *)
LEMMA SumsGrow ==
  ASSUME NEW X, NEW seqs \in Seq(Seq(X)), NEW f, Builds(f, seqs, Len(seqs)),
         NEW n \in 1 .. Len(seqs), NEW m \in n .. Len(seqs)
  PROVE  /\ Len(f[n]) <= Len(f[m])
         /\ \A i \in 1 .. Len(f[n]) : f[m][i] = f[n][i]
<1> DEFINE Begins(k) == /\ Len(f[n]) <= Len(f[k])
                        /\ \A i \in 1 .. Len(f[n]) : f[k][i] = f[n][i]
           T == {k \in n .. Len(seqs) : ~Begins(k)}
<1>0. Len(seqs) \in Nat /\ \A i \in 1 .. Len(seqs) : f[i] \in Seq(X)
  BY SumsAreSeqs
<1> SUFFICES ASSUME T # {} PROVE FALSE
  OBVIOUS
<1>1. PICK k \in T : \A i \in T : k <= i
  <2>1. T \subseteq Nat
    BY <1>0
  <2> HIDE DEF T
  <2> QED
    BY <2>1, LeastNumber
<1>2. k \in n .. Len(seqs) /\ ~Begins(k) /\ k \in 1 .. Len(seqs)
  BY <1>0, <1>1
<1>3. Begins(n)
  <2>1. Len(f[n]) \in Nat
    BY <1>0
  <2> QED
    BY <2>1
<1>4. k # n /\ k # 1
  BY <1>2, <1>3
<1>5. k - 1 \in n .. Len(seqs) /\ k - 1 \in 1 .. Len(seqs) /\ ~(k <= k - 1)
  BY <1>0, <1>2, <1>4
<1>6. Begins(k - 1)
  BY <1>1, <1>5
<1> HIDE DEF T
<1>7. f[k] = f[k - 1] \o seqs[k]
  BY <1>0, <1>2, <1>4, SumStep
<1> DEFINE a == f[k - 1]
           b == seqs[k]
<1>8. a \in Seq(X) /\ b \in Seq(X) /\ Len(f[n]) \in Nat
  BY <1>0, <1>2, <1>5
<1>9. f[k] = a \o b
  BY <1>7
<1>10. Len(f[n]) <= Len(a) /\ \A i \in 1 .. Len(f[n]) : a[i] = f[n][i]
  BY <1>6
<1> HIDE DEF a, b
<1>11. /\ Len(a \o b) = Len(a) + Len(b)
       /\ \A i \in 1 .. Len(a) + Len(b) :
            (a \o b)[i] = IF i <= Len(a) THEN a[i] ELSE b[i - Len(a)]
  BY <1>8, ConcatProperties
<1>12. Len(a) \in Nat /\ Len(b) \in Nat
  BY <1>8
<1>13. Len(f[n]) <= Len(f[k])
  BY <1>8, <1>9, <1>10, <1>11, <1>12
<1>14. \A i \in 1 .. Len(f[n]) : f[k][i] = f[n][i]
  <2> SUFFICES ASSUME NEW i \in 1 .. Len(f[n]) PROVE f[k][i] = f[n][i]
    OBVIOUS
  <2>1. i \in 1 .. Len(a) + Len(b) /\ i <= Len(a)
    BY <1>8, <1>10, <1>12
  <2>2. (a \o b)[i] = a[i]
    BY <1>11, <2>1
  <2> QED
    BY <1>9, <1>10, <2>2
<1>15. Begins(k)
  BY <1>13, <1>14
<1> QED
  BY <1>2, <1>15

(* A concatenation ends with its second part.                              *)
LEMMA ConcatEnds ==
  ASSUME NEW X, NEW a \in Seq(X), NEW b \in Seq(X), NEW k \in 1 .. Len(b)
  PROVE  (a \o b)[Len(a) + k] = b[k]
<1>1. Len(a) \in Nat /\ Len(b) \in Nat
  OBVIOUS
<1> DEFINE i == Len(a) + k
<1>2. i \in 1 .. Len(a) + Len(b) /\ ~(i <= Len(a)) /\ i - Len(a) = k
  BY <1>1
<1> HIDE DEF i
<1>3. (a \o b)[i] = b[i - Len(a)]
  BY <1>2, ConcatProperties
<1> QED
  BY <1>2, <1>3 DEF i

(* A part of t that agrees with v is v.                                    *)
LEMMA SubSeqFound ==
  ASSUME NEW X, NEW t, NEW v \in Seq(X), NEW o \in Nat,
         \A k \in 1 .. Len(v) : t[o + k] = v[k]
  PROVE  SubSeq(t, o + 1, o + Len(v)) = v
<1> DEFINE lo == o + 1
           hi == o + Len(v)
           u  == SubSeq(t, lo, hi)
<1>1. Len(v) \in Nat /\ lo \in Int /\ hi \in Int
  OBVIOUS
<1>2. \A i \in lo .. hi : t[i] \in X
  <2> SUFFICES ASSUME NEW i \in lo .. hi PROVE t[i] \in X
    OBVIOUS
  <2> DEFINE k == i - o
  <2>1. k \in 1 .. Len(v) /\ o + k = i
    BY <1>1
  <2> HIDE DEF k
  <2>2. t[o + k] = v[k] /\ v[k] \in X
    BY <2>1
  <2> QED
    BY <2>1, <2>2
<1>3. hi - lo + 1 = Len(v) /\ \A k \in 1 .. Len(v) : lo + k - 1 = o + k
  BY <1>1
<1>4. (IF lo <= hi THEN hi - lo + 1 ELSE 0) = Len(v)
  BY <1>1
<1> HIDE DEF lo, hi
<1>5. /\ u \in Seq(X) /\ Len(u) = IF lo <= hi THEN hi - lo + 1 ELSE 0
      /\ \A k \in 1 .. hi - lo + 1 : u[k] = t[lo + k - 1]
  BY <1>1, <1>2, SubSeqProperties
<1>6. Len(u) = Len(v) /\ \A k \in 1 .. Len(v) : u[k] = v[k]
  BY <1>3, <1>4, <1>5
<1> HIDE DEF u
<1>7. u = [k \in 1 .. Len(u) |-> u[k]] /\ v = [k \in 1 .. Len(v) |-> v[k]]
  BY <1>5
<1>8. u = v
  BY <1>6, <1>7
<1> QED
  BY <1>8 DEF u, lo, hi

(* Where the n-th sequence begins in the sum of all, behind the earlier    *)
(* ones.                                                                   *)
Before(f, n) == IF n = 1 THEN 0 ELSE Len(f[n - 1])

(* The sum of all sequences holds the n-th one where the earlier ones end. *)
LEMMA SumHolds ==
  ASSUME NEW X, NEW seqs \in Seq(Seq(X)), NEW f, Builds(f, seqs, Len(seqs)),
         NEW n \in 1 .. Len(seqs)
  PROVE  LET o == Before(f, n)
         IN  SubSeq(f[Len(seqs)], o + 1, o + Len(seqs[n])) = seqs[n]
<1> DEFINE N == Len(seqs)
           o == Before(f, n)
           b == seqs[n]
<1>1. /\ N \in Nat /\ n \in Nat /\ n <= N /\ b \in Seq(X) /\ Len(b) \in Nat
      /\ \A i \in 1 .. N : f[i] \in Seq(X)
  BY SumsAreSeqs
<1>2. f[n] = IF n = 1 THEN b ELSE f[n - 1] \o b
  BY <1>1, SumStep
<1>3. /\ o \in Nat /\ Len(f[n]) = o + Len(b)
      /\ \A k \in 1 .. Len(b) : f[n][o + k] = b[k]
  <2>1. CASE n = 1
    <3>1. o = 0 /\ f[n] = b
      BY <1>2, <2>1 DEF Before
    <3> HIDE DEF o, b
    <3> QED
      BY <1>1, <3>1
  <2>2. CASE n # 1
    <3> DEFINE a == f[n - 1]
    <3>1. n - 1 \in 1 .. N
      BY <1>1, <2>2
    <3>2. a \in Seq(X) /\ f[n] = a \o b /\ o = Len(a)
      BY <1>1, <1>2, <2>2, <3>1 DEF Before
    <3> HIDE DEF a, b, o
    <3>3. Len(a \o b) = Len(a) + Len(b) /\ Len(a) \in Nat
      BY <1>1, <3>2, ConcatProperties
    <3>4. \A k \in 1 .. Len(b) : (a \o b)[Len(a) + k] = b[k]
      BY <1>1, <3>2, ConcatEnds
    <3> QED
      BY <3>2, <3>3, <3>4
  <2> QED
    BY <2>1, <2>2
<1>4. Len(f[n]) <= Len(f[N]) /\ \A i \in 1 .. Len(f[n]) : f[N][i] = f[n][i]
  <2>1. N \in n .. N
    BY <1>1
  <2> QED
    BY <2>1, SumsGrow
<1> DEFINE t == f[N]
<1>5. \A k \in 1 .. Len(b) : t[o + k] = b[k]
  <2> HIDE DEF o, b, t
  <2> SUFFICES ASSUME NEW k \in 1 .. Len(b) PROVE t[o + k] = b[k]
    OBVIOUS
  <2>1. o + k \in 1 .. Len(f[n])
    BY <1>1, <1>3
  <2> QED
    BY <1>3, <1>4, <2>1 DEF t
<1> HIDE DEF o, b, t
<1>6. SubSeq(t, o + 1, o + Len(b)) = b
  BY <1>1, <1>3, <1>5, SubSeqFound
<1> QED
  BY <1>6 DEF o, b, t

-----------------------------------------------------------------------------
(* The rows of a job, and of the jobs of a batch.                          *)
Own(j) == [k \in 1 .. Items(j) |-> << j, k >>]

Rows(jobs) == [n \in DOMAIN jobs |-> Own(jobs[n])]

LEMMA RowsAreSeqs ==
  ASSUME NEW jobs \in Seq(Jobs)
  PROVE  /\ Rows(jobs) \in Seq(Seq(Jobs \X Nat)) /\ Len(Rows(jobs)) = Len(jobs)
         /\ Len(jobs) \in Nat /\ DOMAIN jobs = 1 .. Len(jobs)
         /\ \A n \in 1 .. Len(jobs) :
              /\ Rows(jobs)[n] = Own(jobs[n]) /\ Own(jobs[n]) \in Seq(Jobs \X Nat)
              /\ Len(Own(jobs[n])) = Items(jobs[n]) /\ Items(jobs[n]) \in Nat
<1>1. Len(jobs) \in Nat /\ DOMAIN jobs = 1 .. Len(jobs)
  OBVIOUS
<1>2. ASSUME NEW n \in 1 .. Len(jobs)
      PROVE  /\ Rows(jobs)[n] = Own(jobs[n]) /\ Own(jobs[n]) \in Seq(Jobs \X Nat)
             /\ Len(Own(jobs[n])) = Items(jobs[n]) /\ Items(jobs[n]) \in Nat
  <2>1. jobs[n] \in Jobs /\ Items(jobs[n]) \in Nat
    BY <1>1, JobsAssumption
  <2>2. Own(jobs[n]) \in [1 .. Items(jobs[n]) -> Jobs \X Nat]
    BY <2>1 DEF Own
  <2> QED
    BY <1>1, <2>1, <2>2, LenProperties DEF Rows, Own
<1>3. Rows(jobs) \in [1 .. Len(jobs) -> Seq(Jobs \X Nat)]
  BY <1>1, <1>2 DEF Rows
<1> QED
  BY <1>1, <1>2, <1>3

LEMMA FlattenSums ==
  ASSUME NEW jobs \in Seq(Jobs), jobs # << >>
  PROVE  Flatten(jobs) = Sums(Rows(jobs))[Len(jobs)]
<1>1. Len(Rows(jobs)) = Len(jobs) /\ Len(jobs) # 0 /\ Rows(jobs) \in Seq(Seq(Jobs \X Nat))
  BY RowsAreSeqs, EmptySeq
<1>2. Flatten(jobs) = FlattenSeq(Rows(jobs))
  BY DEF Flatten, Rows, Own
<1> QED
  BY <1>1, <1>2, FlattenIsSum

LEMMA FlattenEmpty == Len(Flatten(<< >>)) = 0
BY DEF Flatten, FlattenSeq

(* offset counts the rows of the earlier jobs.                             *)
LEMMA OffsetIsBefore ==
  ASSUME NEW jobs \in Seq(Jobs), NEW n \in 1 .. Len(jobs)
  PROVE  Offset(jobs, n) = Before(Sums(Rows(jobs)), n)
<1>1. CASE n = 1
  <2>1. SubSeq(jobs, 1, n - 1) = << >>
    BY <1>1, SubSeqEmpty
  <2> QED
    BY <1>1, <2>1, FlattenEmpty DEF Offset, ItemCount, Before
<1>2. CASE n # 1
  <2> DEFINE N == Len(jobs)
             m == n - 1
             p == SubSeq(jobs, 1, m)
             r == Rows(jobs)
             q == Rows(p)
  <2>1. N \in Nat /\ m \in Nat /\ m # 0 /\ m <= N /\ m \in 1 .. m
    BY <1>2
  <2>2. p \in Seq(Jobs) /\ Len(p) = m /\ \A i \in 1 .. m : p[i] = jobs[i]
    <3>1. m \in Int /\ 1 \in Int /\ \A i \in 1 .. m : jobs[i] \in Jobs
      BY <2>1
    <3> HIDE DEF m
    <3>2. /\ p \in Seq(Jobs) /\ Len(p) = IF 1 <= m THEN m - 1 + 1 ELSE 0
          /\ \A i \in 1 .. m - 1 + 1 : p[i] = jobs[1 + i - 1]
      BY <3>1, SubSeqProperties
    <3> HIDE DEF p
    <3> QED
      BY <2>1, <3>2
  <2> HIDE DEF m, p
  <2>3. Len(r) = N /\ \A i \in 1 .. m : r[i] = Own(jobs[i])
    BY <2>1, RowsAreSeqs
  <2>4. Len(q) = m /\ \A i \in 1 .. m : q[i] = Own(p[i])
    BY <2>2, RowsAreSeqs
  <2>5. \A i \in 1 .. m : r[i] = q[i]
    <3> HIDE DEF r, q
    <3> QED
      BY <2>2, <2>3, <2>4
  <2>6. Builds(Sums(r), r, N) /\ Builds(Sums(q), q, m)
    <3> HIDE DEF r, q, N
    <3> QED
      BY <2>1, <2>3, <2>4, SumsBuild
  <2>7. Sums(r)[m] = Sums(q)[m]
    <3> DEFINE f == Sums(r)
               g == Sums(q)
    <3> HIDE DEF f, g, r, q, N
    <3>1. \A i \in 1 .. m : f[i] = g[i]
      BY <2>1, <2>5, <2>6, SumsAgree DEF f, g
    <3>2. f[m] = g[m]
      BY <2>1, <3>1
    <3> QED
      BY <3>2 DEF f, g
  <2>8. Flatten(p) = Sums(q)[m]
    <3>1. p # << >>
      BY <2>1, <2>2
    <3> QED
      BY <2>2, <3>1, FlattenSums
  <2> QED
    BY <1>2, <2>7, <2>8 DEF Offset, ItemCount, Before, m, p
<1> QED
  BY <1>1, <1>2

(* The slice of a job holds its own rows, whatever it was batched with.    *)
LEMMA SliceIsOwn ==
  ASSUME NEW jobs \in Seq(Jobs), NEW n \in 1 .. Len(jobs)
  PROVE  Slice(jobs, n) = Own(jobs[n])
<1> DEFINE r == Rows(jobs)
           f == Sums(r)
           X == Jobs \X Nat
<1>1. /\ r \in Seq(Seq(X)) /\ Len(r) = Len(jobs) /\ Len(jobs) \in Nat
      /\ r[n] = Own(jobs[n]) /\ Len(r[n]) = Items(jobs[n])
  BY RowsAreSeqs
<1>2. Flatten(jobs) = f[Len(r)]
  <2>1. jobs # << >>
    BY EmptySeq
  <2> QED
    BY <1>1, <2>1, FlattenSums
<1>3. Offset(jobs, n) = Before(f, n)
  BY OffsetIsBefore
<1>4. Slice(jobs, n) = SubSeq(f[Len(r)], Before(f, n) + 1, Before(f, n) + Len(r[n]))
  BY <1>1, <1>2, <1>3 DEF Slice
<1>5. Builds(f, r, Len(r)) /\ n \in 1 .. Len(r)
  BY <1>1, SumsBuild
<1> HIDE DEF r, f, X
<1>6. SubSeq(f[Len(r)], Before(f, n) + 1, Before(f, n) + Len(r[n])) = r[n]
  BY <1>1, <1>5, SumHolds
<1> QED
  BY <1>1, <1>4, <1>6

-----------------------------------------------------------------------------
(* Rows reach their handlers.                                              *)

JobFields == {"rows", "error", "completed"}

Served(j) == job[j].error \/ job[j].rows = Own(j)

(* Once encoded, every job of the batch has its rows or an error, and so   *)
(* has every job that is completed; rows that are right stay right.        *)
RowsInv ==
  /\ DOMAIN handler = Jobs /\ DOMAIN job = Jobs
  /\ \A j \in Jobs : DOMAIN job[j] = JobFields
  /\ phase = "publish" => \A n \in DOMAIN batch : Served(batch[n])
  /\ \A j \in Jobs :
       /\ job[j].completed => Served(j)
       /\ handler[j] = "answered" => job[j].rows = Own(j)

LEMMA RowsInit == Init => RowsInv
<1> SUFFICES ASSUME Init PROVE RowsInv
  OBVIOUS
<1>1. phase = "get" /\ DOMAIN handler = Jobs /\ DOMAIN job = Jobs
  BY DEF Init
<1>2. ASSUME NEW j \in Jobs
      PROVE  DOMAIN job[j] = JobFields /\ ~job[j].completed /\ handler[j] # "answered"
  BY DEF Init, JobFields
<1> QED
  BY <1>1, <1>2 DEF RowsInv

(* A handler returns rows only when its job is completed without an error. *)
LEMMA HandlersKeepRows ==
  ASSUME RowsInv, NEW j \in Jobs, HandlerStep(j)
  PROVE  RowsInv'
<1>1. UNCHANGED << batch, phase, job >>
  BY DEF HandlerStep, Put, PutFails, Return, TimeOut
<1>2. /\ DOMAIN handler' = Jobs /\ \A i \in Jobs \ {j} : handler'[i] = handler[i]
      /\ handler'[j] = "answered" =>
           handler[j] = "answered" \/ (job[j].completed /\ ~job[j].error)
  BY DEF HandlerStep, Put, PutFails, Return, TimeOut, RowsInv
<1>3. \A i : Served(i)' <=> Served(i)
  BY <1>1 DEF Served
<1>4. ASSUME NEW i \in Jobs, handler'[i] = "answered" PROVE job[i].rows = Own(i)
  BY <1>2, <1>4 DEF RowsInv, Served
<1> QED
  BY <1>1, <1>2, <1>3, <1>4 DEF RowsInv

(* Steps that touch neither jobs nor handlers, and do not publish.         *)
LEMMA OthersKeepRows ==
  ASSUME RowsInv, UNCHANGED << handler, job >>,
         phase' # "publish" \/ UNCHANGED << phase, batch >>
  PROVE  RowsInv'
<1>1. \A i : Served(i)' <=> Served(i)
  BY DEF Served
<1> QED
  BY <1>1 DEF RowsInv

(* A batch that was encoded has the rows of every job in it.               *)
LEMMA EncodeKeepsRows ==
  ASSUME IInv, RowsInv, Encode
  PROVE  RowsInv'
<1>1. phase' = "publish" /\ UNCHANGED << handler, batch >>
  BY DEF Encode
<1>2. batch \in Seq(Jobs)
  BY DEF IInv, Sequences
<1>3. DOMAIN job' = Jobs
  BY DEF Encode
<1>4. ASSUME NEW j \in Jobs
      PROVE  /\ DOMAIN job'[j] = JobFields
             /\ job'[j].completed = job[j].completed /\ job'[j].error = job[j].error
             /\ job'[j].rows = job[j].rows \/ job'[j].rows = Own(j)
             /\ (\E n \in DOMAIN batch : batch[n] = j) => job'[j].rows = Own(j)
  <2>1. DOMAIN job[j] = JobFields
    BY DEF RowsInv
  <2>2. CASE \E n \in DOMAIN batch : batch[n] = j
    <3> DEFINE m == CHOOSE n \in DOMAIN batch : batch[n] = j
    <3>1. m \in DOMAIN batch /\ batch[m] = j
      BY <2>2
    <3>2. job'[j] = [job[j] EXCEPT !.rows = Slice(batch, m)]
      BY <2>2 DEF Encode
    <3> HIDE DEF m
    <3>3. Slice(batch, m) = Own(j)
      BY <1>2, <3>1, SliceIsOwn
    <3> QED
      BY <2>1, <3>2, <3>3 DEF JobFields
  <2>3. CASE ~ \E n \in DOMAIN batch : batch[n] = j
    BY <2>1, <2>3 DEF Encode
  <2> QED
    BY <2>2, <2>3
<1>5. \A j \in Jobs : Served(j) => Served(j)'
  BY <1>4 DEF Served
<1>6. \A n \in DOMAIN batch : Served(batch[n])'
  <2>1. \A n \in DOMAIN batch : batch[n] \in Jobs
    BY <1>2
  <2> QED
    BY <1>1, <1>4, <2>1 DEF Served
<1>7. \A j \in Jobs : handler[j] = "answered" => job'[j].rows = Own(j)
  BY <1>4 DEF RowsInv
<1>8. \A j \in Jobs : job'[j].completed => Served(j)'
  BY <1>4, <1>5 DEF RowsInv
<1> QED
  BY <1>1, <1>3, <1>4, <1>6, <1>7, <1>8 DEF RowsInv

LEMMA FailureKeepsRows ==
  ASSUME IInv, RowsInv, EncodeFails
  PROVE  RowsInv'
<1>1. phase' = "publish" /\ UNCHANGED << handler, batch >> /\ batch \in Seq(Jobs)
  BY DEF EncodeFails, IInv, Sequences
<1>2. DOMAIN job' = Jobs
  BY DEF EncodeFails
<1>3. ASSUME NEW j \in Jobs
      PROVE  /\ DOMAIN job'[j] = JobFields
             /\ job'[j].completed = job[j].completed /\ job'[j].rows = job[j].rows
             /\ job'[j].error = TRUE \/ job'[j].error = job[j].error
             /\ j \in ToSet(batch) => job'[j].error = TRUE
  <2>1. DOMAIN job[j] = JobFields
    BY DEF RowsInv
  <2>2. CASE j \in ToSet(batch)
    BY <2>1, <2>2 DEF EncodeFails, JobFields
  <2>3. CASE j \notin ToSet(batch)
    BY <2>1, <2>3 DEF EncodeFails
  <2> QED
    BY <2>2, <2>3
<1>4. \A j \in Jobs : Served(j) => Served(j)'
  BY <1>3 DEF Served
<1>5. \A n \in DOMAIN batch : Served(batch[n])'
  <2>1. \A n \in DOMAIN batch : batch[n] \in ToSet(batch) /\ batch[n] \in Jobs
    BY <1>1 DEF ToSet
  <2> QED
    BY <1>1, <1>3, <2>1 DEF Served
<1>6. \A j \in Jobs : handler[j] = "answered" => job'[j].rows = Own(j)
  BY <1>3 DEF RowsInv
<1>7. \A j \in Jobs : job'[j].completed => Served(j)'
  BY <1>3, <1>4 DEF RowsInv
<1> QED
  BY <1>1, <1>2, <1>3, <1>5, <1>6, <1>7 DEF RowsInv

LEMMA PublishKeepsRows ==
  ASSUME IInv, RowsInv, Publish
  PROVE  RowsInv'
<1>1. phase' = "get" /\ phase = "publish" /\ UNCHANGED handler
  BY DEF Publish
<1>2. DOMAIN job' = Jobs
  BY DEF Publish
<1>3. ASSUME NEW j \in Jobs
      PROVE  /\ DOMAIN job'[j] = JobFields
             /\ job'[j].error = job[j].error /\ job'[j].rows = job[j].rows
             /\ job'[j].completed = job[j].completed \/ j \in ToSet(batch)
  <2>1. DOMAIN job[j] = JobFields
    BY DEF RowsInv
  <2>2. CASE j \in ToSet(batch)
    BY <2>1, <2>2 DEF Publish, JobFields
  <2>3. CASE j \notin ToSet(batch)
    BY <2>1, <2>3 DEF Publish
  <2> QED
    BY <2>2, <2>3
<1>4. \A j \in Jobs : Served(j)' <=> Served(j)
  BY <1>3 DEF Served
<1>5. \A j \in Jobs : j \in ToSet(batch) => Served(j)
  BY <1>1 DEF RowsInv, ToSet
<1>6. \A j \in Jobs : job'[j].completed => Served(j)'
  BY <1>3, <1>4, <1>5 DEF RowsInv
<1>7. \A j \in Jobs : handler[j] = "answered" => job'[j].rows = Own(j)
  BY <1>3 DEF RowsInv
<1> QED
  BY <1>1, <1>2, <1>3, <1>6, <1>7 DEF RowsInv

(* A handler that gets embeddings gets those of its own texts, all of them *)
(* and in order, whatever its job was batched with.                        *)
THEOREM RowsAreOwn == Spec => []OwnRows
<1>1. IInv /\ RowsInv /\ [Next]_vars => RowsInv'
  <2> SUFFICES ASSUME IInv, RowsInv, [Next]_vars PROVE RowsInv'
    OBVIOUS
  <2>1. CASE UNCHANGED vars
    BY <2>1, OthersKeepRows DEF vars
  <2>2. CASE TakeFirst \/ Coalesce \/ Defer \/ Close \/ TakeLock
    BY <2>2, OthersKeepRows DEF TakeFirst, Coalesce, Defer, Close, TakeLock
  <2>3. ASSUME NEW v \in Validators, Validate(v) \/ ValidateEnds(v) PROVE RowsInv'
    BY <2>3, OthersKeepRows DEF Validate, ValidateEnds
  <2> QED
    BY <2>1, <2>2, <2>3, HandlersKeepRows, EncodeKeepsRows, FailureKeepsRows,
       PublishKeepsRows DEF Next, BatcherStep
<1>2. RowsInv => OwnRows
  BY DEF RowsInv, OwnRows, Own
<1> QED
  BY <1>1, <1>2, Invariant, InitHolds, RowsInit, PTL DEF Spec

=============================================================================
