--------------------------- MODULE GatewayProofs ---------------------------
(***************************************************************************)
(* Proofs about Gateway for all values of its constants: a worker is only  *)
(* called under a lease on it, and every path gives back what it took.     *)
(***************************************************************************)
EXTENDS Gateway, TLAPS

(* The steps in which the handler knows of the worker it has leased.       *)
Leased(q) ==
  \/ req[q].step \in {"token", "invoke", "judge", "fail", "body", "stream",
                      "cleanup"}
  \/ req[q].step = "caught" /\ req[q].worker # NoWorker

(* How many calls the attempt had made at most when it asked last.         *)
Before(asked) ==
  CASE asked = "first" -> 0 [] asked = "refreshed" -> 1 [] OTHER -> 2

Counted(q) ==
  /\ req[q].step \in {"idle", "acquire", "done"} => sent[q] = 0
  /\ req[q].step \in {"token", "invoke"} => sent[q] <= Before(req[q].asked)
  /\ req[q].step = "judge" => sent[q] <= Before(req[q].asked) + 1

(* What the handler believes to hold is in the table.                      *)
Holding(q) ==
  Leased(q) =>
    /\ req[q].worker \in Workers
    /\ lease[Current(q)] = [status |-> "held", worker |-> req[q].worker]

(* Before its attempt acquires, a lease identifier is not used; nor is a   *)
(* worker known.                                                           *)
Unused(q) ==
  /\ req[q].step = "idle" => req[q].attempt = 0
  /\ req[q].step \in {"idle", "acquire"} =>
       /\ lease[Current(q)].status = "none"
       /\ req[q].worker = NoWorker
  /\ req[q].step # "done" /\ req[q].attempt = 0 =>
       lease[<< q, 1 >>].status = "none"

(* What is in the table is in the hands of its handler, unless it was      *)
(* struck.                                                                 *)
InHand(q) ==
  q \notin struck =>
    \A n \in Attempts :
      lease[<< q, n >>].status = "held" => req[q].attempt = n /\ Leased(q)

(* A lease that is held is on a worker that was opened.                    *)
Housed ==
  \A l \in Leases :
    lease[l].status = "held" =>
      lease[l].worker \in Workers /\ door[lease[l].worker] # "unbuilt"

IInv ==
  /\ TypeOK
  /\ \A q \in Requests : Counted(q) /\ Holding(q) /\ Unused(q) /\ InHand(q)
  /\ Housed

(* No request has begun.                                                   *)
LEMMA InitIInv == Init => IInv
<1> SUFFICES ASSUME Init PROVE IInv
  OBVIOUS
<1>1. TypeOK
  BY DEF Init, TypeOK, Fresh, Request, Lease, Leases, Attempts, Step, Status
<1>2. ASSUME NEW q \in Requests
      PROVE  Counted(q) /\ Holding(q) /\ Unused(q) /\ InHand(q)
  BY <1>2 DEF Init, Fresh, Counted, Holding, Unused, InHand, Leased, Current,
     Leases, Attempts
<1>3. Housed
  BY DEF Init, Housed
<1>4. QED
  BY <1>1, <1>2, <1>3 DEF IInv

(* What a step of one request leaves alone.                                *)
OnlyOf(q) ==
  \A p \in Requests \ {q} :
    /\ req'[p] = req[p] /\ sent'[p] = sent[p]
    /\ p \in struck' <=> p \in struck
    /\ \A n \in Attempts : lease'[<< p, n >>] = lease[<< p, n >>]

(* A step of one request preserves the invariant if it does so for that    *)
(* request.                                                                *)
LEMMA StepOfOne ==
  ASSUME IInv, TypeOK', Housed', NEW q \in Requests, OnlyOf(q),
         Counted(q)', Holding(q)', Unused(q)', InHand(q)'
  PROVE  IInv'
<1>1. ASSUME NEW p \in Requests \ {q}
      PROVE  (Counted(p) /\ Holding(p) /\ Unused(p) /\ InHand(p))'
  <2>1. /\ req'[p] = req[p] /\ sent'[p] = sent[p]
        /\ p \in struck' <=> p \in struck
        /\ \A n \in Attempts : lease'[<< p, n >>] = lease[<< p, n >>]
    BY <1>1 DEF OnlyOf
  <2>2. Counted(p) /\ Holding(p) /\ Unused(p) /\ InHand(p) /\ req[p] \in Request
    BY <1>1 DEF IInv, TypeOK
  <2>3. lease'[Current(p)'] = lease[Current(p)]
    BY <2>1, <2>2 DEF Current, Request
  <2>4. Leased(p)' <=> Leased(p)
    BY <2>1 DEF Leased
  <2>5. Counted(p)'
    BY <2>1, <2>2 DEF Counted
  <2>6. Holding(p)'
    BY <2>1, <2>2, <2>3, <2>4 DEF Holding
  <2>7. Unused(p)'
    BY <2>1, <2>2, <2>3 DEF Unused, Attempts
  <2>8. InHand(p)'
    BY <2>1, <2>2, <2>4 DEF InHand
  <2>9. QED
    BY <2>5, <2>6, <2>7, <2>8
<1>2. QED
  BY <1>1 DEF IInv

(* The request goes on under its lease.                                    *)
LEMMA GoesOn ==
  ASSUME IInv, NEW q \in Requests,
         req' \in [Requests -> Request],
         sent' \in [Requests -> 0 .. 3],
         \A p \in Requests \ {q} : req'[p] = req[p] /\ sent'[p] = sent[p],
         UNCHANGED << lease, door, struck >>,
         Leased(q),
         req'[q].worker = req[q].worker, req'[q].attempt = req[q].attempt,
         req'[q].step \in {"token", "invoke", "judge", "fail", "body", "stream",
                          "cleanup", "caught"},
         Counted(q)'
  PROVE  IInv'
<1>1. TypeOK'
  BY DEF IInv, TypeOK
<1>2. Housed'
  BY DEF IInv, Housed
<1>3. OnlyOf(q)
  BY DEF OnlyOf
<1>4. req[q].worker \in Workers /\ Holding(q) /\ Unused(q) /\ InHand(q)
  BY DEF IInv, Holding
<1>5. Leased(q)'
  BY <1>4, NoWorkerAssumption DEF Leased
<1>6. Current(q)' = Current(q)
  BY DEF Current
<1>7. Holding(q)'
  BY <1>4, <1>6 DEF Holding
<1>8. Unused(q)'
  BY <1>4 DEF Unused, Leased
<1>9. InHand(q)'
  BY <1>4, <1>5 DEF InHand
<1>10. QED
  BY <1>1, <1>2, <1>3, <1>7, <1>8, <1>9, StepOfOne

(* The request ends its attempt: what it held is given back, or it is      *)
(* struck.                                                                 *)
LEMMA EndsAttempt ==
  ASSUME IInv, NEW q \in Requests, NEW step, NEW n,
         \/ step = "done" /\ n = 0
         \/ step = "acquire" /\ n = 1 /\ req[q].attempt = 0
            /\ req[q].step # "done",
         req' = [req EXCEPT ![q] = Fresh(step, n)],
         sent' = [sent EXCEPT ![q] = 0],
         door' \in [Workers -> {"unbuilt", "open", "closed"}],
         \A w \in Workers : door[w] # "unbuilt" => door'[w] # "unbuilt",
         NEW status \in {"released", "failed"},
         \/ UNCHANGED lease
         \/ SetLease(Current(q), status, req[q].worker),
         UNCHANGED struck \/ Strike(q),
         q \notin struck' => \/ SetLease(Current(q), status, req[q].worker)
                            \/ ~Leased(q)
  PROVE  IInv'
<1> USE DEF SetLease, Strike
<1>1. /\ Fresh(step, n) \in Request
      /\ req'[q] = Fresh(step, n) /\ sent'[q] = 0
  BY DEF IInv, TypeOK, Fresh, Request, Step, Attempts, Status
<1>2. /\ req[q].attempt \in Attempts /\ req[q].worker \in Workers \cup {NoWorker}
      /\ Current(q) \in Leases /\ Current(q) = << q, req[q].attempt >>
  BY DEF IInv, TypeOK, Request, Current, Leases
<1>3. /\ lease' \in [Leases -> Lease]
      /\ \A l \in Leases : l # Current(q) => lease'[l] = lease[l]
      /\ \A l \in Leases :
           lease'[l].status = "held" => lease'[l] = lease[l]
  <2>1. CASE UNCHANGED lease
    BY <2>1 DEF IInv, TypeOK
  <2>2. CASE SetLease(Current(q), status, req[q].worker)
    <3>1. [status |-> status, worker |-> req[q].worker] \in Lease
      BY <1>2 DEF Lease
    <3>2. QED
      BY <1>2, <2>2, <3>1 DEF IInv, TypeOK
  <2>3. QED
    BY <2>1, <2>2
<1>4. TypeOK'
  BY <1>1, <1>3 DEF IInv, TypeOK
<1>5. Housed'
  BY <1>3 DEF IInv, Housed
<1>6. OnlyOf(q)
  <2>1. ASSUME NEW p \in Requests \ {q}, NEW m \in Attempts
        PROVE  << p, m >> \in Leases /\ << p, m >> # Current(q)
    BY <1>2 DEF Leases
  <2>2. QED
    BY <1>3, <2>1 DEF OnlyOf, IInv, TypeOK
<1>7. ~Leased(q)' /\ Counted(q)' /\ Holding(q)'
  BY <1>1 DEF Fresh, Leased, Counted, Holding
<1>8. Unused(q)'
  <2>1. CASE step = "done"
    BY <1>1, <2>1 DEF Unused, Fresh
  <2>2. CASE step = "acquire" /\ n = 1 /\ req[q].attempt = 0
             /\ req[q].step # "done"
    <3>1. lease[<< q, 1 >>].status = "none"
      BY <2>2 DEF IInv, Unused
    <3>2. << q, 1 >> \in Leases /\ << q, 1 >> # Current(q)
      BY <1>2, <2>2 DEF Leases, Attempts
    <3>3. lease'[<< q, 1 >>].status = "none"
      BY <1>3, <3>1, <3>2
    <3>4. QED
      BY <1>1, <2>2, <3>3 DEF Unused, Fresh, Current
  <2>3. QED
    BY <2>1, <2>2
<1>9. InHand(q)'
  <2> SUFFICES ASSUME q \notin struck', NEW m \in Attempts,
                      lease'[<< q, m >>].status = "held"
               PROVE  FALSE
    BY DEF InHand
  <2>1. << q, m >> \in Leases /\ lease[<< q, m >>].status = "held"
    BY <1>3 DEF Leases
  <2>2. req[q].attempt = m /\ Leased(q)
    BY <2>1 DEF IInv, InHand
  <2>3. lease'[<< q, m >>].status = status
    BY <1>2, <2>1, <2>2 DEF IInv, TypeOK
  <2>4. QED
    BY <2>3
<1>10. QED
  BY <1>4, <1>5, <1>6, <1>7, <1>8, <1>9, StepOfOne

(* NextAttempt and End, as EndsAttempt wants them.                         *)
LEMMA NextAttemptEnds ==
  ASSUME IInv, NEW q \in Requests, req[q].step # "done", NextAttempt(q)
  PROVE  \E step, n :
           /\ \/ step = "done" /\ n = 0
              \/ step = "acquire" /\ n = 1 /\ req[q].attempt = 0
                 /\ req[q].step # "done"
           /\ req' = [req EXCEPT ![q] = Fresh(step, n)]
           /\ sent' = [sent EXCEPT ![q] = 0]
  BY DEF NextAttempt, End

(* A slot is taken: the lease of the current attempt, unused so far.       *)
LEMMA TakeSlotHolds ==
  ASSUME IInv, NEW q \in Requests, NEW w \in Workers, TakeSlot(q, w)
  PROVE  /\ lease' \in [Leases -> Lease]
         /\ Current(q) \in Leases
         /\ lease'[Current(q)] = [status |-> "held", worker |-> w]
         /\ \A l \in Leases : l # Current(q) => lease'[l] = lease[l]
         /\ door' \in [Workers -> {"unbuilt", "open", "closed"}]
         /\ Housed'
         /\ UNCHANGED sent /\ req[q].step = "acquire"
         /\ req[q].worker = NoWorker
         /\ q \notin struck =>
              \A n \in Attempts : lease[<< q, n >>].status # "held"
<1>1. req[q].step = "acquire" /\ UNCHANGED sent
  BY DEF TakeSlot
<1>2. Current(q) \in Leases /\ req[q].worker = NoWorker
  BY <1>1 DEF IInv, TypeOK, Request, Current, Leases, Unused
<1>3. /\ lease' = [lease EXCEPT ![Current(q)] = [status |-> "held", worker |-> w]]
      /\ door' = [door EXCEPT ![w] = "open"]
  BY DEF TakeSlot, SetLease
<1>4. /\ lease' \in [Leases -> Lease]
      /\ lease'[Current(q)] = [status |-> "held", worker |-> w]
      /\ \A l \in Leases : l # Current(q) => lease'[l] = lease[l]
  BY <1>2, <1>3 DEF IInv, TypeOK, Lease
<1>5. door' \in [Workers -> {"unbuilt", "open", "closed"}]
  BY <1>3 DEF IInv, TypeOK
<1>6. Housed'
  BY <1>3, <1>4, <1>2 DEF IInv, Housed, TypeOK
<1>7. ASSUME q \notin struck, NEW n \in Attempts
      PROVE  lease[<< q, n >>].status # "held"
  BY <1>1, <1>7 DEF IInv, InHand, Leased
<1>8. QED
  BY <1>1, <1>2, <1>4, <1>5, <1>6, <1>7

(* A slot is taken, and the handler knows of it or is struck.             *)
LEMMA AcquireStep ==
  ASSUME IInv, NEW q \in Requests, NEW w \in Workers,
         Acquire(q, w) \/ AcquireLost(q, w)
  PROVE  IInv'
<1>1. TakeSlot(q, w)
  BY DEF Acquire, AcquireLost
<1>2. /\ lease' \in [Leases -> Lease]
      /\ Current(q) \in Leases
      /\ lease'[Current(q)] = [status |-> "held", worker |-> w]
      /\ \A l \in Leases : l # Current(q) => lease'[l] = lease[l]
      /\ door' \in [Workers -> {"unbuilt", "open", "closed"}]
      /\ Housed'
      /\ UNCHANGED sent /\ req[q].step = "acquire"
      /\ req[q].worker = NoWorker
      /\ q \notin struck =>
           \A n \in Attempts : lease[<< q, n >>].status # "held"
  BY <1>1, TakeSlotHolds
<1>3. \/ /\ req' = [req EXCEPT ![q].step = "token", ![q].worker = w]
         /\ UNCHANGED struck
      \/ req' = [req EXCEPT ![q].step = "caught"] /\ struck' = struck \cup {q}
  BY DEF Acquire, AcquireLost, Goto, Strike
<1>4. req' \in [Requests -> Request]
  BY <1>3 DEF IInv, TypeOK, Request, Step
<1>5. TypeOK'
  BY <1>2, <1>3, <1>4 DEF IInv, TypeOK
<1>6. OnlyOf(q)
  <2>1. ASSUME NEW p \in Requests \ {q}, NEW m \in Attempts
        PROVE  << p, m >> \in Leases /\ << p, m >> # Current(q)
    BY DEF Leases, Current
  <2>2. ASSUME NEW p \in Requests \ {q}
        PROVE  /\ req'[p] = req[p] /\ sent'[p] = sent[p]
               /\ p \in struck' <=> p \in struck
    BY <1>2, <1>3 DEF IInv, TypeOK
  <2>3. QED
    BY <1>2, <2>1, <2>2 DEF OnlyOf
<1>7. /\ req'[q].attempt = req[q].attempt /\ req[q].attempt \in Attempts
      /\ Current(q)' = << q, req[q].attempt >> /\ Current(q)' = Current(q)
      /\ \/ req'[q].step = "token" /\ req'[q].worker = w
         \/ req'[q].step = "caught" /\ req'[q].worker = NoWorker /\ q \in struck'
  BY <1>2, <1>3 DEF IInv, TypeOK, Request, Current
<1>8. Counted(q)'
  <2>1. sent'[q] = 0
    BY <1>2 DEF IInv, Counted
  <2>2. Before(req'[q].asked) \in {0, 1, 2}
    BY DEF Before
  <2>3. QED
    BY <1>7, <2>1, <2>2 DEF Counted
<1>9. Holding(q)'
  BY <1>2, <1>7 DEF Holding, Leased
<1>10. Unused(q)'
  <2>1. ASSUME req[q].attempt = 0
        PROVE  lease'[<< q, 1 >>].status = "none"
    BY <1>2, <1>7, <2>1 DEF IInv, Unused, Leases, Attempts
  <2>2. QED
    BY <1>7, <2>1 DEF Unused
<1>11. InHand(q)'
  <2> SUFFICES ASSUME q \notin struck', NEW m \in Attempts,
                      lease'[<< q, m >>].status = "held"
               PROVE  req'[q].attempt = m /\ Leased(q)'
    BY DEF InHand
  <2>1. q \notin struck /\ req'[q].step = "token"
    BY <1>3, <1>7
  <2>2. << q, m >> = Current(q)
    BY <1>2, <2>1 DEF Leases
  <2>3. QED
    BY <1>7, <2>1, <2>2 DEF Leased
<1>12. QED
  BY <1>2, <1>5, <1>6, <1>8, <1>9, <1>10, <1>11, StepOfOne

(* Nothing is leased yet, or never will be: the request is accepted or     *)
(* refused, or the acquisition throws or finds no capacity.                *)
LEMMA UnleasedStep ==
  ASSUME IInv, NEW q \in Requests,
         Accept(q) \/ Reject(q) \/ AcquireThrows(q) \/ AcquireBusy(q)
  PROVE  IInv'
<1>1. ~Leased(q) /\ UNCHANGED << lease, door, struck >>
  BY DEF Accept, Reject, AcquireThrows, AcquireBusy, Leased
<1>2. CASE Reject(q) \/ AcquireBusy(q)
  <2>1. /\ req' = [req EXCEPT ![q] = Fresh("done", 0)]
        /\ sent' = [sent EXCEPT ![q] = 0]
    BY <1>2 DEF Reject, AcquireBusy, End
  <2>2. door' \in [Workers -> {"unbuilt", "open", "closed"}]
    BY <1>1 DEF IInv, TypeOK
  <2>3. QED
    BY <1>1, <2>1, <2>2, EndsAttempt
<1>3. CASE Accept(q) \/ AcquireThrows(q)
  <2>1. PICK step \in {"acquire", "caught"} :
          /\ req' = [req EXCEPT ![q].step = step]
          /\ step = "caught" => req[q].step = "acquire"
    BY <1>3 DEF Accept, AcquireThrows, Goto
  <2>2. UNCHANGED sent /\ req[q].step \in {"idle", "acquire"}
    BY <1>3 DEF Accept, AcquireThrows
  <2>3. TypeOK'
    BY <1>1, <2>1, <2>2 DEF IInv, TypeOK, Request, Step
  <2>4. Housed'
    BY <1>1 DEF IInv, Housed
  <2>5. OnlyOf(q)
    BY <1>1, <2>1, <2>2 DEF OnlyOf, IInv, TypeOK
  <2>6. /\ req'[q].step = step /\ req'[q].worker = NoWorker
        /\ req'[q].attempt = req[q].attempt
        /\ Current(q)' = Current(q)
    BY <2>1, <2>2 DEF IInv, TypeOK, Request, Unused, Current
  <2>7. ~Leased(q)' /\ Holding(q)' /\ Counted(q)'
    BY <2>2, <2>6 DEF Leased, Holding, IInv, Counted
  <2>8. Unused(q)'
    BY <1>1, <2>2, <2>6 DEF IInv, Unused
  <2>9. InHand(q)'
    BY <1>1 DEF IInv, InHand
  <2>10. QED
    BY <2>3, <2>4, <2>5, <2>7, <2>8, <2>9, StepOfOne
<1>4. QED
  BY <1>2, <1>3

(* Steps under the lease: the token, the calls, the answers, the body.     *)
LEMMA LeasedStep ==
  ASSUME IInv, NEW q \in Requests,
         \/ EnsureToken(q) \/ Invoke(q) \/ InvokeThrows(q) \/ Refresh(q)
         \/ AskAgain(q) \/ Settle(q) \/ BodyThrows(q) \/ CopyStream(q)
  PROVE  IInv'
<1>1. Leased(q) /\ UNCHANGED << lease, door, struck >>
  BY DEF EnsureToken, Invoke, InvokeThrows, Refresh, AskAgain, Settle, Final,
     BodyThrows, CopyStream, Leased, IInv, TypeOK, Request
<1>2. /\ req' \in [Requests -> Request]
      /\ \A p \in Requests \ {q} : req'[p] = req[p]
      /\ req'[q].worker = req[q].worker /\ req'[q].attempt = req[q].attempt
  BY DEF EnsureToken, Invoke, InvokeThrows, Refresh, AskAgain, Settle,
     BodyThrows, CopyStream, Goto, IInv, TypeOK, Request, Step, Status
<1>3. sent[q] \in 0 .. 3 /\ req[q] \in Request /\ Counted(q)
  BY DEF IInv, TypeOK
<1>4. \/ UNCHANGED sent
      \/ req[q].step = "invoke" /\ sent' = [sent EXCEPT ![q] = @ + 1]
  BY DEF EnsureToken, Invoke, InvokeThrows, Refresh, AskAgain, Settle,
     BodyThrows, CopyStream, Send
<1>5. /\ sent' \in [Requests -> 0 .. 3]
      /\ \A p \in Requests \ {q} : sent'[p] = sent[p]
  <2>1. req[q].step = "invoke" => sent[q] + 1 \in 0 .. 3
    BY <1>3 DEF Counted, Before
  <2>2. QED
    BY <1>4, <2>1 DEF IInv, TypeOK
<1>6. /\ req'[q].step \in {"token", "invoke", "judge", "fail", "body",
                           "stream", "cleanup", "caught"}
      /\ Counted(q)'
  <2>1. CASE EnsureToken(q)
    <3>1. req'[q].step = "invoke" /\ req'[q].asked = req[q].asked
      BY <2>1 DEF EnsureToken, Goto, IInv, TypeOK, Request
    <3>2. QED
      BY <1>3, <2>1, <3>1 DEF Counted, EnsureToken
  <2>2. CASE Invoke(q)
    <3>1. req'[q].step = "judge" /\ req'[q].asked = req[q].asked
      BY <2>2 DEF Invoke, IInv, TypeOK, Request
    <3>2. sent'[q] = sent[q] + 1 /\ req[q].step = "invoke"
      BY <2>2 DEF Invoke, Send, IInv, TypeOK
    <3>3. QED
      BY <1>3, <3>1, <3>2 DEF Counted, Before
  <2>3. CASE InvokeThrows(q) \/ BodyThrows(q) \/ CopyStream(q) \/ Settle(q)
    <3>1. req'[q].step \in {"caught", "cleanup", "fail", "stream", "body"}
      BY <2>3 DEF InvokeThrows, BodyThrows, CopyStream, Settle, Goto, IInv,
         TypeOK, Request
    <3>2. QED
      BY <3>1 DEF Counted
  <2>4. CASE Refresh(q)
    <3>1. req'[q].step = "token" /\ req'[q].asked = "refreshed"
      BY <2>4 DEF Refresh, IInv, TypeOK, Request
    <3>2. QED
      BY <1>3, <2>4, <3>1 DEF Counted, Refresh, Before
  <2>5. CASE AskAgain(q)
    <3>1. req'[q].step = "invoke" /\ req'[q].asked = "again"
      BY <2>5 DEF AskAgain, IInv, TypeOK, Request
    <3>2. QED
      BY <1>3, <2>5, <3>1 DEF Counted, AskAgain, Before, Request
  <2>6. QED
    BY <2>1, <2>2, <2>3, <2>4, <2>5
<1>7. QED
  BY <1>1, <1>2, <1>5, <1>6, GoesOn

(* The end of an attempt, by every path.                                   *)
LEMMA GivesBackStep ==
  ASSUME IInv, NEW q \in Requests,
         \/ Fail(q) \/ AnswerError(q) \/ Caught(q) \/ OpenStreamThrows(q)
         \/ Cleanup(q) \/ Kill(q)
  PROVE  IInv'
<1>1. req[q].step # "done"
  BY DEF Fail, AnswerError, Caught, OpenStreamThrows, Cleanup, Kill
<1>2. PICK step, n :
        /\ \/ step = "done" /\ n = 0
           \/ step = "acquire" /\ n = 1 /\ req[q].attempt = 0
              /\ req[q].step # "done"
        /\ req' = [req EXCEPT ![q] = Fresh(step, n)]
        /\ sent' = [sent EXCEPT ![q] = 0]
  <2>1. CASE NextAttempt(q)
    BY <1>1, <2>1, NextAttemptEnds
  <2>2. CASE End(q)
    BY <2>2 DEF End
  <2>3. QED
    BY <2>1, <2>2 DEF Fail, AnswerError, Caught, OpenStreamThrows, Cleanup, Kill
<1>3. /\ door' \in [Workers -> {"unbuilt", "open", "closed"}]
      /\ \A w \in Workers : door[w] # "unbuilt" => door'[w] # "unbuilt"
  BY DEF Fail, AnswerError, Caught, OpenStreamThrows, Cleanup, Kill, IInv, TypeOK
<1>4. PICK status \in {"released", "failed"} :
        /\ \/ UNCHANGED lease
           \/ SetLease(Current(q), status, req[q].worker)
        /\ UNCHANGED struck \/ Strike(q)
        /\ \/ SetLease(Current(q), status, req[q].worker)
           \/ Strike(q)
           \/ ~Leased(q)
  BY DEF Fail, AnswerError, Caught, OpenStreamThrows, Cleanup, Kill, Release, Leased
<1>5. q \notin struck' => \/ SetLease(Current(q), status, req[q].worker)
                         \/ ~Leased(q)
  BY <1>4 DEF Strike
<1>6. QED
  BY <1>2, <1>3, <1>4, <1>5, EndsAttempt

(* The registry recovers a lease of a request that is over.                *)
LEMMA LeaseExpiresStep ==
  ASSUME IInv, NEW l \in Leases, LeaseExpires(l)
  PROVE  IInv'
<1>1. /\ l[1] \in Requests /\ l[2] \in Attempts /\ l = << l[1], l[2] >>
      /\ req[l[1]].step = "done" /\ lease[l].status = "held"
      /\ UNCHANGED << req, door, sent, struck >>
  BY DEF LeaseExpires, Leases
<1>2. [status |-> "released", worker |-> lease[l].worker] \in Lease
  BY DEF IInv, TypeOK, Lease
<1>3. /\ lease' \in [Leases -> Lease]
      /\ \A k \in Leases : k # l => lease'[k] = lease[k]
      /\ lease'[l].status = "released"
  BY <1>2 DEF LeaseExpires, SetLease, IInv, TypeOK
<1>4. TypeOK' /\ Housed'
  BY <1>1, <1>3 DEF IInv, TypeOK, Housed
<1>5. OnlyOf(l[1])
  BY <1>1, <1>3 DEF OnlyOf, Leases
<1>6. /\ Counted(l[1])' /\ Holding(l[1])' /\ Unused(l[1])'
  BY <1>1 DEF IInv, Counted, Holding, Unused, Leased
<1>7. InHand(l[1])'
  <2>1. \A k \in Leases : lease'[k].status = "held" => lease[k].status = "held"
    BY <1>3
  <2>2. QED
    BY <1>1, <2>1 DEF IInv, InHand, Leases, Leased
<1>8. QED
  BY <1>1, <1>4, <1>5, <1>6, <1>7, StepOfOne

(* The registry closes a worker that nobody uses.                          *)
LEMMA WorkerExpiresStep ==
  ASSUME IInv, NEW w \in Workers, WorkerExpires(w)
  PROVE  IInv'
<1>1. UNCHANGED << req, lease, sent, struck >>
  BY DEF WorkerExpires
<1>2. TypeOK' /\ Housed'
  BY DEF WorkerExpires, IInv, TypeOK, Housed
<1>3. ASSUME NEW q \in Requests
      PROVE  (Counted(q) /\ Holding(q) /\ Unused(q) /\ InHand(q))'
  BY <1>1, <1>3 DEF IInv, Counted, Holding, Unused, InHand, Leased, Current
<1>4. QED
  BY <1>2, <1>3 DEF IInv

(* Every step preserves the invariant.                                     *)
LEMMA NextIInv == IInv /\ [Next]_vars => IInv'
<1> SUFFICES ASSUME IInv, [Next]_vars PROVE IInv'
  OBVIOUS
<1>1. CASE UNCHANGED vars
  <2>1. TypeOK' /\ Housed'
    BY <1>1 DEF vars, IInv, TypeOK, Housed
  <2>2. ASSUME NEW q \in Requests
        PROVE  (Counted(q) /\ Holding(q) /\ Unused(q) /\ InHand(q))'
    BY <1>1, <2>2 DEF vars, IInv, Counted, Holding, Unused, InHand, Leased, Current
  <2>3. QED
    BY <2>1, <2>2 DEF IInv
<1>2. ASSUME NEW q \in Requests, Accept(q) \/ Reject(q) \/ Handler(q)
      PROVE  IInv'
  BY <1>2, AcquireStep, UnleasedStep, LeasedStep, GivesBackStep DEF Handler
<1>3. ASSUME NEW l \in Leases, LeaseExpires(l)
      PROVE  IInv'
  BY <1>3, LeaseExpiresStep
<1>4. ASSUME NEW w \in Workers, WorkerExpires(w)
      PROVE  IInv'
  BY <1>4, WorkerExpiresStep
<1>5. QED
  BY <1>1, <1>2, <1>3, <1>4 DEF Next

(* The invariant holds in every reachable state.                           *)
LEMMA Invariance == Spec => []IInv
  BY InitIInv, NextIInv, PTL DEF Spec

(* Locals, leases and doors keep their ranges; in particular no attempt    *)
(* calls its worker more than three times.                                 *)
THEOREM TypeCorrect == Spec => []TypeOK
<1>1. IInv => TypeOK
  BY DEF IInv
<1>2. QED
  BY <1>1, Invariance, PTL

(* A worker is called only under a lease on it, for any number of requests *)
(* and whatever fails.                                                     *)
THEOREM CallsAreLeased == Spec => []InvokedUnderLease
<1>1. IInv => InvokedUnderLease
  BY DEF IInv, InvokedUnderLease, Holding, Leased
<1>2. QED
  BY <1>1, Invariance, PTL

(* A request that is over and was not struck has given back every lease.   *)
THEOREM NothingIsLeft == Spec => []NoLeaseLeft
<1>1. ASSUME IInv PROVE NoLeaseLeft
  <2> SUFFICES ASSUME NEW l \in Leases, lease[l].status = "held",
                      req[l[1]].step = "done"
               PROVE  l[1] \in struck
    BY DEF NoLeaseLeft
  <2>1. l[1] \in Requests /\ l[2] \in Attempts /\ l = << l[1], l[2] >>
    BY DEF Leases
  <2>2. QED
    BY <1>1, <2>1 DEF IInv, InHand, Leased
<1>2. QED
  BY <1>1, Invariance, PTL

(* A request that was not struck never holds two leases: the first is gone *)
(* before the second attempt takes one.                                    *)
THEOREM LeasesDoNotOverlap == Spec => []OneLeaseAtATime
<1>1. ASSUME IInv PROVE OneLeaseAtATime
  <2> SUFFICES ASSUME NEW q \in Requests \ struck,
                      lease[<< q, 0 >>].status = "held"
               PROVE  lease[<< q, 1 >>].status = "none"
    BY DEF OneLeaseAtATime
  <2>1. req[q].attempt = 0 /\ Leased(q)
    BY <1>1 DEF IInv, InHand, Attempts
  <2>2. req[q].step # "done"
    BY <2>1 DEF Leased
  <2>3. QED
    BY <1>1, <2>1, <2>2 DEF IInv, Unused
<1>2. QED
  BY <1>1, Invariance, PTL

-----------------------------------------------------------------------------
(* The handler's steps are steps of SlotPool.                              *)

(* A slot is given back, or was gone with its worker.                      *)
LEMMA LeavesSlot ==
  ASSUME IInv, NEW l \in Leases, lease[l].status = "held",
         NEW status \in {"released", "failed"}, NEW v \in Workers \cup {NoWorker},
         SetLease(l, status, v), UNCHANGED door
  PROVE  [Slots!SlotNext]_(Slots!slotVars)
<1>1. PICK w \in Workers : lease[l] = [status |-> "held", worker |-> w]
  BY DEF IInv, TypeOK, Lease, Housed
<1>2. /\ l \in Seated(w) /\ Seated(w)' = Seated(w) \ {l}
      /\ \A u \in Workers \ {w} : Seated(u)' = Seated(u)
  <2>1. /\ \A k \in Leases : k # l => lease'[k] = lease[k]
        /\ lease'[l].status = status
    BY DEF SetLease, IInv, TypeOK
  <2>2. /\ \A u \in Workers : lease'[l] # [status |-> "held", worker |-> u]
        /\ \A u \in Workers \ {w} : lease[l] # [status |-> "held", worker |-> u]
    BY <1>1, <2>1
  <2>3. Seated(w)' = Seated(w) \ {l}
    <3>1. ASSUME NEW k \in Leases
          PROVE  k \in Seated(w)' <=> k \in Seated(w) /\ k # l
      BY <2>1, <2>2 DEF Seated
    <3>2. QED
      BY <3>1 DEF Seated
  <2>4. ASSUME NEW u \in Workers \ {w} PROVE Seated(u)' = Seated(u)
    BY <2>1, <2>2 DEF Seated
  <2>5. l \in Seated(w)
    BY <1>1 DEF Seated
  <2>6. QED
    BY <2>3, <2>4, <2>5
<1>3. CASE door[w] = "open"
  <2>1. [u \in Workers |-> Inside(u)]' =
          [[u \in Workers |-> Inside(u)] EXCEPT ![w] = @ \ {l}]
    BY <1>1, <1>2, <1>3 DEF Inside
  <2>2. l \in Inside(w)
    BY <1>2, <1>3 DEF Inside
  <2>3. Slots!Leave(w, l)
    BY <2>1, <2>2 DEF Slots!Leave
  <2>4. QED
    BY <2>3 DEF Slots!SlotNext
<1>4. CASE door[w] # "open"
  BY <1>1, <1>2, <1>4 DEF Slots!slotVars, Inside
<1>5. QED
  BY <1>3, <1>4

(* A worker is closed, whatever becomes of the leases on it.               *)
LEMMA ClosesDoor ==
  ASSUME IInv, NEW w \in Workers, door[w] # "unbuilt",
         door' = [door EXCEPT ![w] = "closed"],
         \A u \in Workers \ {w} : Seated(u)' = Seated(u)
  PROVE  [Slots!SlotNext]_(Slots!slotVars)
<1>1. door[w] \in {"open", "closed"} /\ door'[w] = "closed"
      /\ \A u \in Workers \ {w} : door'[u] = door[u]
  BY DEF IInv, TypeOK
<1>2. CASE door[w] = "open"
  <2>1. Slots!Close(w)
    BY <1>1, <1>2 DEF Slots!Close, Inside
  <2>2. QED
    BY <2>1 DEF Slots!SlotNext
<1>3. CASE door[w] = "closed"
  <2>1. UNCHANGED door
    BY <1>1, <1>3 DEF IInv, TypeOK
  <2>2. QED
    BY <1>1, <1>3, <2>1 DEF Slots!slotVars, Inside
<1>4. QED
  BY <1>1, <1>2, <1>3

(* SlotPool counts as Gateway does: an instance has its own copy of the    *)
(* operators its module extends.                                           *)
LEMMA SameCardinality == ASSUME NEW S PROVE Slots!Cardinality(S) = Cardinality(S)
  BY DEF Cardinality, Slots!Cardinality

(* A slot is taken: a worker is opened, or entered below its capacity.     *)
LEMMA TakesSlot ==
  ASSUME IInv, NEW q \in Requests, NEW w \in Workers, TakeSlot(q, w)
  PROVE  Slots!SlotNext
<1>1. PICK l \in Leases :
        /\ lease[l].status = "none"
        /\ lease' = [lease EXCEPT ![l] = [status |-> "held", worker |-> w]]
        /\ door' = [door EXCEPT ![w] = "open"]
  BY DEF TakeSlot, SetLease, IInv, TypeOK, Request, Current, Leases, Unused
<1>2. /\ lease'[l] = [status |-> "held", worker |-> w]
      /\ \A k \in Leases : k # l => lease'[k] = lease[k]
  BY <1>1 DEF IInv, TypeOK
<1>3. /\ l \notin Seated(w) /\ Seated(w)' = Seated(w) \cup {l}
      /\ \A u \in Workers \ {w} : Seated(u)' = Seated(u)
  BY <1>1, <1>2 DEF Seated
<1>4. CASE door[w] = "unbuilt"
  <2>1. Seated(w) = {}
    BY <1>4 DEF Seated, IInv, Housed
  <2>2. Slots!Open(w, l)
    BY <1>1, <1>3, <1>4, <2>1 DEF Slots!Open, Inside, IInv, TypeOK
  <2>3. QED
    BY <2>2 DEF Slots!SlotNext
<1>5. CASE door[w] = "open" /\ Cardinality(Seated(w)) < Capacity
  <2>1. UNCHANGED door
    BY <1>1, <1>5 DEF IInv, TypeOK
  <2>2. [u \in Workers |-> Inside(u)]' =
          [[u \in Workers |-> Inside(u)] EXCEPT ![w] = @ \cup {l}]
    BY <1>3, <1>5, <2>1 DEF Inside
  <2>3. [u \in Workers |-> Inside(u)][w] = Seated(w)
    BY <1>5 DEF Inside
  <2>4. Slots!Enter(w, l)
    <3>1. Slots!Cardinality([u \in Workers |-> Inside(u)][w]) < Capacity
      BY <1>5, <2>3, SameCardinality
    <3>2. QED
      BY <1>3, <1>5, <2>1, <2>2, <2>3, <3>1 DEF Slots!Enter
  <2>5. QED
    BY <2>4 DEF Slots!SlotNext
<1>6. QED
  BY <1>4, <1>5 DEF TakeSlot

(* Every step of the handler and of the registry is one of SlotPool, or    *)
(* leaves its variables alone.                                             *)
LEMMA NextUsesSlots ==
  ASSUME IInv, [Next]_vars
  PROVE  [Slots!SlotNext]_(Slots!slotVars)
<1>1. CASE UNCHANGED << lease, door >>
  BY <1>1 DEF Slots!slotVars, Inside, Seated
<1>2. ASSUME NEW q \in Requests, NEW w \in Workers, TakeSlot(q, w)
      PROVE  Slots!SlotNext
  BY <1>2, TakesSlot
<1>3. ASSUME NEW q \in Requests, Leased(q), NEW status \in {"released", "failed"},
             SetLease(Current(q), status, req[q].worker), UNCHANGED door
      PROVE  [Slots!SlotNext]_(Slots!slotVars)
  <2>1. Current(q) \in Leases
    BY DEF IInv, TypeOK, Request, Current, Leases
  <2>2. /\ lease[Current(q)] = [status |-> "held", worker |-> req[q].worker]
        /\ req[q].worker \in Workers
    BY <1>3 DEF IInv, Holding
  <2>3. lease[Current(q)].status = "held"
    BY <2>2
  <2>4. QED
    BY <1>3, <2>1, <2>2, <2>3, LeavesSlot
<1>4. ASSUME NEW q \in Requests, Fail(q), ~UNCHANGED door
      PROVE  [Slots!SlotNext]_(Slots!slotVars)
  <2> DEFINE w == req[q].worker
  <2>1. /\ Current(q) \in Leases
        /\ lease[Current(q)] = [status |-> "held", worker |-> w]
        /\ w \in Workers /\ door[w] # "unbuilt"
    BY <1>4 DEF Fail, IInv, TypeOK, Request, Holding, Leased, Current, Leases,
       Housed
  <2>2. /\ door' = [door EXCEPT ![w] = "closed"]
        /\ UNCHANGED lease \/ SetLease(Current(q), "failed", w)
    BY <1>4 DEF Fail
  <2>3. ASSUME NEW u \in Workers \ {w} PROVE Seated(u)' = Seated(u)
    <3>1. CASE UNCHANGED lease
      BY <3>1 DEF Seated
    <3>2. CASE SetLease(Current(q), "failed", w)
      <4>1. /\ \A k \in Leases : k # Current(q) => lease'[k] = lease[k]
            /\ lease'[Current(q)] = [status |-> "failed", worker |-> w]
        BY <2>1, <3>2 DEF SetLease, IInv, TypeOK
      <4>2. /\ lease[Current(q)]  # [status |-> "held", worker |-> u]
            /\ lease'[Current(q)] # [status |-> "held", worker |-> u]
        BY <2>1, <4>1
      <4>3. QED
        BY <4>1, <4>2 DEF Seated
    <3>3. QED
      BY <2>2, <3>1, <3>2
  <2>4. QED
    BY <2>1, <2>2, <2>3, ClosesDoor
<1>5. ASSUME NEW q \in Requests, Accept(q) \/ Reject(q) \/ Handler(q)
      PROVE  [Slots!SlotNext]_(Slots!slotVars)
  <2>1. \/ UNCHANGED << lease, door >>
        \/ \E w \in Workers : TakeSlot(q, w)
        \/ Fail(q) /\ ~UNCHANGED door
        \/ /\ Leased(q) /\ UNCHANGED door
           /\ \E status \in {"released", "failed"} :
                SetLease(Current(q), status, req[q].worker)
    BY <1>5 DEF Handler, Accept, Reject, Acquire, AcquireLost, AcquireThrows,
       AcquireBusy, EnsureToken, Invoke, InvokeThrows, Refresh, AskAgain,
       Settle, Fail, AnswerError, BodyThrows, Caught, CopyStream,
       OpenStreamThrows, Cleanup, Kill, Release, Leased
  <2>2. QED
    BY <1>1, <1>2, <1>3, <1>4, <2>1
<1>6. ASSUME NEW l \in Leases, LeaseExpires(l)
      PROVE  [Slots!SlotNext]_(Slots!slotVars)
  <2>1. lease[l].worker \in Workers \cup {NoWorker}
    BY DEF IInv, TypeOK, Lease
  <2>2. QED
    BY <1>6, <2>1, LeavesSlot DEF LeaseExpires
<1>7. ASSUME NEW w \in Workers, WorkerExpires(w)
      PROVE  [Slots!SlotNext]_(Slots!slotVars)
  BY <1>7, ClosesDoor DEF WorkerExpires, Seated
<1>8. QED
  BY <1>1, <1>5, <1>6, <1>7 DEF Next, vars

(* What the gateway does to the registry is what SlotPool allows, for any  *)
(* number of requests and workers and any capacity.                        *)
THEOREM GatewayUsesSlots == Spec => UsesSlots
<1>1. Init => Slots!SlotInit
  BY DEF Init, Slots!SlotInit, Inside
<1>2. IInv /\ [Next]_vars => [Slots!SlotNext]_(Slots!slotVars)
  BY NextUsesSlots
<1>3. QED
  BY <1>1, <1>2, Invariance, PTL DEF Spec, UsesSlots, Slots!SlotSpec

=============================================================================
