----------------------- MODULE DeliveryRefinementProofs -----------------------
(***************************************************************************)
(* Seen through the tables, DeliveryWorker is the queue of EndpointQueue:  *)
(* every statement of a worker is a step of the queue or changes nothing a *)
(* reader of the tables can tell.                                          *)
(***************************************************************************)
EXTENDS DeliveryHistoryProofs

(* The fresh tables are an empty queue.                                     *)
LEMMA QueueInit == Init => Queue!Init
  BY DEF Init, Queue!Init

(* A row is the same function of its index as before: it is the same row.   *)
LEMMA SameRows ==
    ASSUME NEW S, NEW s \in Seq(S)
    PROVE  s = [i \in 1 .. Len(s) |-> s[i]]
  OBVIOUS

(* What other programs and the clock do is a step of the queue.             *)
LEMMA QueueEnvironment ==
    ASSUME Environment
    PROVE  Queue!Next \/ UNCHANGED Queue!queueVars
<1> USE DEF endpointVars, deliveryVars
<1>1. ASSUME NEW b \in Batches, Enqueue(b) PROVE Queue!Publish(b)
  BY <1>1 DEF Enqueue, Queue!Publish, SameStream, Queue!SameStream, Live, Queue!Live
<1>2. ASSUME NEW e \in Endpoints, Pause(e) PROVE Queue!Pause(e)
  BY <1>2 DEF Pause, Queue!Pause
<1>3. ASSUME NEW e \in Endpoints, Resume(e) PROVE Queue!Resume(e)
  BY <1>3 DEF Resume, Queue!Resume
<1>4. ASSUME NEW w \in Workers, Abort(w) PROVE UNCHANGED Queue!queueVars
  <2>1. \A e \in Endpoints : (lease'[e] # None) <=> (lease[e] # None)
    BY <1>4, WorkersAssumption DEF Abort, Die
  <2>2. UNCHANGED <<status, state, attemptCount, attempts>>
    BY <1>4 DEF Abort, Die
  <2> QED
    BY <2>1, <2>2 DEF Queue!queueVars
<1>5. ASSUME NEW e \in Endpoints, OrphanLapses(e) \/ HolderLapses(e)
      PROVE  UNCHANGED Queue!queueVars
  BY <1>5 DEF OrphanLapses, HolderLapses, Queue!queueVars
<1>6. ASSUME NEW d \in Deliveries, Cooled(d) PROVE UNCHANGED Queue!queueVars
  BY <1>6 DEF Cooled, Queue!queueVars
<1> QED
  BY <1>1, <1>2, <1>3, <1>4, <1>5, <1>6 DEF Environment, Queue!Next

(* A statement that only the worker itself can tell is no step of the queue. *)
LEMMA QueueLocal ==
    ASSUME NEW w \in Workers,
           \/ SelectCandidates(w) \/ LoseRace(w) \/ TouchTenant(w) \/ CloseOrphanedAttemptFails(w)
           \/ FetchHead(w) \/ HeadNotReady(w) \/ Send(w) \/ LeaseLost(w)
    PROVE  UNCHANGED Queue!queueVars
<1> USE DEF endpointVars, deliveryVars
<1>1. CASE CloseOrphanedAttemptFails(w)
  <2>1. \A e \in Endpoints : (lease'[e] # None) <=> (lease[e] # None)
    BY <1>1, WorkersAssumption DEF CloseOrphanedAttemptFails, Die
  <2>2. UNCHANGED <<status, state, attemptCount, attempts>>
    BY <1>1 DEF CloseOrphanedAttemptFails, Die
  <2> QED
    BY <2>1, <2>2 DEF Queue!queueVars
<1>2. CASE UNCHANGED <<status, lease, state, attemptCount, attempts>>
  BY <1>2 DEF Queue!queueVars
<1> QED
  BY <1>1, <1>2 DEF SelectCandidates, LoseRace, TouchTenant, FetchHead, HeadNotReady, Send, LeaseLost

(* Taking a free endpoint is the queue's claim; taking over a stale lease   *)
(* leaves the endpoint as busy as it was.                                   *)
LEMMA QueueClaim ==
    ASSUME TypeOK, NEW w \in Workers, ClaimEndpoint(w)
    PROVE  Queue!Next \/ UNCHANGED Queue!queueVars
<1>1. PICK c \in candidates[w] : Claimable(w, c.ep) /\ lease' = [lease EXCEPT ![c.ep] = w]
  BY DEF ClaimEndpoint, SetLease
<1>2. /\ c.ep \in Endpoints /\ status[c.ep] = "active"
      /\ UNCHANGED <<status, state, attemptCount, attempts>>
  BY <1>1 DEF ClaimEndpoint, Claimable, TypeOK, deliveryVars
<1>3. \A e \in Endpoints : (lease'[e] # None) <=> (lease[e] # None \/ e = c.ep)
  BY <1>1, <1>2, WorkersAssumption DEF TypeOK
<1>4. CASE lease[c.ep] = None
  <2>1. Queue!Claim(c.ep)
    BY <1>2, <1>3, <1>4 DEF Queue!Claim
  <2> QED
    BY <1>2, <2>1 DEF Queue!Next
<1>5. CASE lease[c.ep] # None
  BY <1>2, <1>3, <1>5 DEF Queue!queueVars
<1> QED
  BY <1>4, <1>5

(* A claim given up is the queue's release: nothing is in flight there.     *)
LEMMA QueueRelease ==
    ASSUME LeaseInvariant, NEW w \in Workers, ReleaseClaim(w)
    PROVE  \E e \in Endpoints : Queue!Release(e)
<1> USE DEF Claiming
<1>1. /\ pc[w] = "release" /\ current[w] \in Endpoints /\ lease[current[w]] = w
  BY DEF ReleaseClaim, LeaseInvariant, TypeOK, LeaseOwned, Fenced
<1>2. /\ lease' = [lease EXCEPT ![current[w]] = None]
      /\ UNCHANGED <<status, state, attemptCount, attempts>>
  BY <1>1 DEF ReleaseClaim, SetLease, deliveryVars
<1>3. \A d \in Deliveries : state[d] = "in_flight" => EndpointOf[d] # current[w]
  BY <1>1 DEF LeaseInvariant, InFlightOwned, Sending
<1>4. \A e \in Endpoints : (lease'[e] # None) <=> (lease[e] # None /\ e # current[w])
  BY <1>1, <1>2 DEF LeaseInvariant, TypeOK
<1>5. lease[current[w]] # None
  BY <1>1, WorkersAssumption
<1>6. PICK e \in Endpoints : e = current[w]
  BY <1>1
<1>7. Queue!Release(e)
  BY <1>1, <1>2, <1>3, <1>4, <1>5, <1>6 DEF Queue!Release, Queue!On
<1> QED
  BY <1>7

(* Closing the orphan's attempt is the queue's Expire of the one delivery   *)
(* in flight, if there is one.                                              *)
LEMMA QueueExpire ==
    ASSUME TypeOK, NEW w \in Workers, CloseOrphanedAttempt(w)
    PROVE  Queue!Next \/ UNCHANGED Queue!queueVars
<1> DEFINE Closed(s) == [i \in 1 .. Len(s) |->
                           IF s[i].outcome = "open"
                           THEN [s[i] EXCEPT !.outcome = "worker_lease_expired"]
                           ELSE s[i]]
<1>1. /\ UNCHANGED <<status, lease, state, attemptCount>>
      /\ \A d1, d2 \in InFlight(current[w]) : d1 = d2
  BY DEF CloseOrphanedAttempt, endpointVars, deliveryVars
<1>2. /\ attempts \in [Deliveries -> Seq(Attempt)]
      /\ attempts' = [d \in Deliveries |->
            [i \in 1 .. Len(attempts[d]) |->
               IF d \in InFlight(current[w]) /\ attempts[d][i].outcome = "open"
               THEN [attempts[d][i] EXCEPT !.outcome = "worker_lease_expired"]
               ELSE attempts[d][i]]]
  BY DEF CloseOrphanedAttempt, Unanswered, TypeOK
<1>3. ASSUME NEW d \in Deliveries, d \notin InFlight(current[w])
      PROVE  attempts'[d] = attempts[d]
  <2>1. attempts'[d] = [i \in 1 .. Len(attempts[d]) |-> attempts[d][i]]
    BY <1>2, <1>3
  <2>2. attempts[d] \in Seq(Attempt)
    BY <1>2
  <2> QED
    BY <2>1, <2>2, SameRows
<1>4. CASE InFlight(current[w]) = {}
  <2>1. attempts' = attempts
    <3>1. attempts' = [d \in Deliveries |-> attempts'[d]] /\ attempts = [d \in Deliveries |-> attempts[d]]
      BY <1>2
    <3> QED
      BY <1>3, <1>4, <3>1
  <2> QED
    BY <1>1, <2>1 DEF Queue!queueVars
<1>5. ASSUME NEW d \in InFlight(current[w]) PROVE Queue!Expire(d)
  <2>1. d \in Deliveries /\ state[d] = "in_flight" /\ InFlight(current[w]) = {d}
    BY <1>1, <1>5 DEF InFlight, On
  <2>2. attempts'[d] = Closed(attempts[d])
    BY <1>2, <2>1
  <2> HIDE DEF Closed
  <2>3. attempts' = [attempts EXCEPT ![d] = Closed(attempts[d])]
    <3>1. attempts' = [x \in Deliveries |-> attempts'[x]]
      BY <1>2
    <3>2. \A x \in Deliveries : attempts'[x] = IF x = d THEN Closed(attempts[d]) ELSE attempts[x]
      BY <1>3, <2>1, <2>2
    <3> QED
      BY <1>2, <3>1, <3>2
  <2> QED
    BY <1>1, <2>1, <2>3 DEF Queue!Expire, Queue!LastAttempt, Closed
<1>6. ASSUME NEW d \in InFlight(current[w]) PROVE Queue!Next
  BY <1>5, <1>6 DEF Queue!Next, Queue!Deliver, InFlight, On
<1> QED
  BY <1>4, <1>6

(* Putting the orphan back is the queue's Requeue, its attempts all closed. *)
LEMMA QueueRequeue ==
    ASSUME HistoryInvariant, NEW w \in Workers, RequeueOrphan(w)
    PROVE  Queue!Next \/ UNCHANGED Queue!queueVars
<1>0. TypeOK /\ OneInFlight /\ ClosedBeforeRequeue
  BY DEF HistoryInvariant, LeaseInvariant
<1>1. /\ pc[w] = "requeue" /\ UNCHANGED <<status, lease, attemptCount, attempts>>
      /\ state' = [d \in Deliveries |-> IF d \in InFlight(current[w]) THEN "pending" ELSE state[d]]
  BY DEF RequeueOrphan, endpointVars
<1>2. state \in [Deliveries -> {"absent", "pending", "in_flight", "succeeded", "failed"}]
  BY <1>0 DEF TypeOK
<1>3. CASE InFlight(current[w]) = {}
  <2>1. state' = state
    BY <1>1, <1>2, <1>3
  <2> QED
    BY <1>1, <2>1 DEF Queue!queueVars
<1>4. ASSUME NEW d \in InFlight(current[w]) PROVE Queue!Requeue(d)
  <2>1. d \in Deliveries /\ state[d] = "in_flight" /\ current[w] \in Endpoints
    BY <1>0, <1>1, <1>4 DEF InFlight, On, TypeOK, Claiming
  <2>2. \A x \in InFlight(current[w]) : x = d
    BY <1>0, <1>4, <2>1 DEF OneInFlight
  <2>3. state' = [state EXCEPT ![d] = "pending"]
    BY <1>1, <1>2, <1>4, <2>1, <2>2
  <2>4. ~Queue!Open(d)
    <3>1. attempts[d] \in Seq(Attempt)
      BY <1>0, <2>1 DEF TypeOK
    <3>2. attempts[d] # <<>> => Len(attempts[d]) \in DOMAIN attempts[d]
      BY <3>1
    <3> QED
      BY <1>0, <1>1, <1>4, <3>2 DEF Queue!Open, Queue!LastAttempt, ClosedBeforeRequeue
  <2> QED
    BY <1>1, <2>1, <2>3, <2>4 DEF Queue!Requeue
<1>5. ASSUME NEW d \in InFlight(current[w]) PROVE Queue!Next
  BY <1>4, <1>5 DEF Queue!Next, Queue!Deliver, InFlight, On
<1> QED
  BY <1>3, <1>5

(* From fetch to mark the head may be attempted: its endpoint is busy with  *)
(* nothing in flight, and what comes before it in its stream is resolved.   *)
LEMMA HeadIsNext ==
    ASSUME LeaseInvariant, NEW w \in Workers, pc[w] \in {"insert", "mark"}
    PROVE  head[w] \in Deliveries /\ Queue!IsNext(head[w])
<1>1. /\ head[w] \in Deliveries /\ EndpointOf[head[w]] = current[w]
      /\ current[w] \in Endpoints /\ lease[current[w]] = w
  BY DEF LeaseInvariant, TypeOK, LeaseOwned, Fenced, Claiming
<1>2. /\ state[head[w]] = "pending"
      /\ \A d0 \in Deliveries : SameStream(d0, head[w]) /\ d0 < head[w] => Terminal(d0)
  BY DEF LeaseInvariant, HeadIsOurs
<1>3. \A d0 \in Deliveries : EndpointOf[d0] = current[w] => state[d0] # "in_flight"
  BY <1>1 DEF LeaseInvariant, InFlightOwned, Sending
<1>4. lease[current[w]] # None
  BY <1>1, WorkersAssumption
<1> QED
  BY <1>1, <1>2, <1>3, <1>4
  DEF Queue!IsNext, Queue!On, Queue!Terminal, Queue!SameStream, Queue!Live, SameStream, Terminal, Live

(* The INSERT of an attempt is the queue's Record.                          *)
LEMMA QueueRecord ==
    ASSUME HistoryInvariant, NEW w \in Workers, InsertAttempt(w)
    PROVE  \E d \in Deliveries : Queue!Record(d)
<1>0. LeaseInvariant /\ AttemptIsLast
  BY DEF HistoryInvariant
<1>1. /\ pc[w] = "insert" /\ UNCHANGED <<status, lease, state, attemptCount>>
      /\ attempts' = [attempts EXCEPT ![head[w]] =
                         Append(@, [number |-> number[w], outcome |-> "open"])]
  BY DEF InsertAttempt, endpointVars, deliveryVars
<1>2. number[w] = attemptCount[head[w]] + 1
  BY <1>0, <1>1 DEF AttemptIsLast
<1>3. head[w] \in Deliveries /\ Queue!IsNext(head[w])
  BY <1>0, <1>1, HeadIsNext
<1>4. PICK d \in Deliveries : d = head[w]
  BY <1>3
<1>5. Queue!Record(d)
  BY <1>1, <1>2, <1>3, <1>4 DEF Queue!Record
<1> QED
  BY <1>5

(* The UPDATE to in_flight is the queue's Start of that attempt.            *)
LEMMA QueueStart ==
    ASSUME HistoryInvariant, NEW w \in Workers, MarkInFlight(w)
    PROVE  \E d \in Deliveries : Queue!Start(d)
<1>0. LeaseInvariant /\ AttemptIsLast /\ TypeOK
  BY DEF HistoryInvariant, LeaseInvariant
<1>1. /\ pc[w] = "mark" /\ UNCHANGED <<status, lease, attempts>>
      /\ state' = [state EXCEPT ![head[w]] = "in_flight"]
      /\ attemptCount' = [attemptCount EXCEPT ![head[w]] = number[w]]
  BY DEF MarkInFlight, endpointVars
<1>2. head[w] \in Deliveries /\ Queue!IsNext(head[w])
  BY <1>0, <1>1, HeadIsNext
<1>3. /\ number[w] = attemptCount[head[w]] + 1
      /\ attempt[w] = Len(attempts[head[w]])
      /\ attempts[head[w]][attempt[w]].number = number[w]
      /\ attempts[head[w]][attempt[w]].outcome = "open"
  BY <1>0, <1>1 DEF AttemptIsLast
<1>4. attempts[head[w]] # <<>>
  <2>1. attempts[head[w]] \in Seq(Attempt) /\ attempt[w] \in 1 .. Len(attempts[head[w]])
    BY <1>0, <1>1, <1>2 DEF TypeOK
  <2> QED
    BY <2>1
<1>5. attemptCount' = [attemptCount EXCEPT ![head[w]] = @ + 1]
  BY <1>1, <1>3
<1>6. PICK d \in Deliveries : d = head[w]
  BY <1>2
<1>7. Queue!Start(d)
  BY <1>1, <1>2, <1>3, <1>4, <1>5, <1>6 DEF Queue!Start, Queue!Open, Queue!LastAttempt
<1> QED
  BY <1>7

(* The fenced write-back is the queue's Answer of its last attempt.         *)
LEMMA QueueAnswer ==
    ASSUME HistoryInvariant, NEW w \in Workers, pc[w] = "complete", Fenced(w), WriteBack(w)
    PROVE  \E d \in Deliveries :
              /\ d = head[w] /\ EndpointOf[d] = current[w] /\ number[w] = attemptCount[d]
              /\ result[w] = "2xx" => Queue!Answer(d, "2xx")
              /\ result[w] = "failed" => Queue!Answer(d, "failed")
<1>0. LeaseInvariant /\ AttemptIsLast /\ TypeOK
  BY DEF HistoryInvariant, LeaseInvariant
<1> USE DEF Sending
<1>1. /\ head[w] \in Deliveries /\ EndpointOf[head[w]] = current[w] /\ current[w] \in Endpoints
      /\ state[head[w]] = "in_flight"
  BY <1>0 DEF LeaseInvariant, HeadIsOurs, TypeOK
<1>2. /\ number[w] = attemptCount[head[w]]
      /\ attempt[w] = Len(attempts[head[w]])
      /\ attempts[head[w]][attempt[w]].outcome = "open"
  BY <1>0 DEF AttemptIsLast
<1>3. attempts[head[w]] # <<>>
  <2>1. attempts[head[w]] \in Seq(Attempt) /\ attempt[w] \in 1 .. Len(attempts[head[w]])
    BY <1>0, <1>1 DEF TypeOK
  <2> QED
    BY <2>1
<1>4. attempts' = [attempts EXCEPT ![head[w]][Len(attempts[head[w]])].outcome = result[w]]
  BY <1>2 DEF WriteBack
<1>5. lease' = [lease EXCEPT ![current[w]] = None] /\ UNCHANGED attemptCount
  BY DEF WriteBack, SetLease
<1>6. \A e \in Endpoints : (lease'[e] # None) <=> (lease[e] # None /\ e # current[w])
  BY <1>0, <1>1, <1>5 DEF TypeOK
<1>7. PICK d \in Deliveries : d = head[w]
  BY <1>1
<1>8. ASSUME NEW r, result[w] = r
      PROVE  /\ state[d] = "in_flight" /\ Queue!Open(d)
             /\ attempts' = [attempts EXCEPT ![d][Queue!LastAttempt(d)].outcome = r]
             /\ {e \in Endpoints : lease'[e] # None}
                  = {e \in Endpoints : lease[e] # None} \ {EndpointOf[d]}
             /\ UNCHANGED attemptCount
  BY <1>1, <1>2, <1>3, <1>4, <1>5, <1>6, <1>7, <1>8 DEF Queue!Open, Queue!LastAttempt
<1>9. result[w] = "2xx" => Queue!Answer(d, "2xx")
  BY <1>8 DEF Queue!Answer
<1>10. result[w] = "failed" => Queue!Answer(d, "failed")
  BY <1>8 DEF Queue!Answer
<1> QED
  BY <1>1, <1>2, <1>7, <1>9, <1>10

(* The three outcomes of completeDelivery are the queue's.                  *)
LEMMA QueueComplete ==
    ASSUME HistoryInvariant, NEW w \in Workers,
           CompleteSucceeded(w) \/ CompleteHalted(w) \/ CompleteRetrying(w)
    PROVE  \E d \in Deliveries : Queue!Succeed(d) \/ Queue!Retry(d) \/ Queue!Fail(d)
<1>1. pc[w] = "complete" /\ Fenced(w) /\ WriteBack(w)
  BY DEF CompleteSucceeded, CompleteHalted, CompleteRetrying
<1>2. PICK d \in Deliveries :
        /\ d = head[w] /\ EndpointOf[d] = current[w] /\ number[w] = attemptCount[d]
        /\ result[w] = "2xx" => Queue!Answer(d, "2xx")
        /\ result[w] = "failed" => Queue!Answer(d, "failed")
  BY <1>1, QueueAnswer
<1>3. result[w] \in {"2xx", "failed"} /\ number[w] \in Nat
  BY <1>1 DEF HistoryInvariant, LeaseInvariant, TypeOK
<1>4. CASE CompleteSucceeded(w)
  <2>1. Queue!Succeed(d)
    BY <1>2, <1>4 DEF CompleteSucceeded, Queue!Succeed
  <2> QED
    BY <2>1
<1>5. CASE CompleteHalted(w)
  <2>1. Queue!Fail(d)
    BY <1>2, <1>3, <1>5 DEF CompleteHalted, AtCeiling, Queue!Fail
  <2> QED
    BY <2>1
<1>6. CASE CompleteRetrying(w)
  <2>1. Queue!Retry(d)
    BY <1>2, <1>3, <1>6, BoundsAssumption DEF CompleteRetrying, AtCeiling, Queue!Retry
  <2> QED
    BY <2>1
<1> QED
  BY <1>4, <1>5, <1>6

(* Every step of the workers and their surroundings is a step of the queue. *)
LEMMA QueueNext ==
    ASSUME HistoryInvariant, [Next]_vars
    PROVE  [Queue!Next]_(Queue!queueVars)
<1>0. LeaseInvariant /\ TypeOK
  BY DEF HistoryInvariant, LeaseInvariant
<1>1. CASE Environment
  BY <1>1, QueueEnvironment
<1>2. ASSUME NEW w \in Workers,
             \/ SelectCandidates(w) \/ LoseRace(w) \/ TouchTenant(w) \/ CloseOrphanedAttemptFails(w)
             \/ FetchHead(w) \/ HeadNotReady(w) \/ Send(w) \/ LeaseLost(w)
      PROVE  UNCHANGED Queue!queueVars
  BY <1>2, QueueLocal
<1>3. ASSUME NEW w \in Workers, ClaimEndpoint(w) \/ CloseOrphanedAttempt(w) \/ RequeueOrphan(w)
      PROVE  Queue!Next \/ UNCHANGED Queue!queueVars
  BY <1>0, <1>3, QueueClaim, QueueExpire, QueueRequeue
<1>4. ASSUME NEW w \in Workers, ReleaseClaim(w) PROVE Queue!Next
  BY <1>0, <1>4, QueueRelease DEF Queue!Next
<1>5. ASSUME NEW w \in Workers, InsertAttempt(w) \/ MarkInFlight(w) PROVE Queue!Next
  BY <1>5, QueueRecord, QueueStart DEF Queue!Next, Queue!Deliver
<1>6. ASSUME NEW w \in Workers, CompleteSucceeded(w) \/ CompleteHalted(w) \/ CompleteRetrying(w)
      PROVE  Queue!Next
  BY <1>6, QueueComplete DEF Queue!Next, Queue!Deliver
<1>7. CASE UNCHANGED vars
  BY <1>7 DEF vars, endpointVars, deliveryVars, Queue!queueVars
<1> QED
  BY <1>1, <1>2, <1>3, <1>4, <1>5, <1>6, <1>7 DEF Next, RunDeliveryCycle, TryClaim, Complete

(* The delivery worker implements the queue: with any number of workers,    *)
(* crashes, stalled HTTP calls, pauses and resumes, whoever reads the       *)
(* tables sees endpoints served one delivery at a time, in stream order,    *)
(* each attempt recorded before it is sent and answered at most once.       *)
THEOREM ImplementsQueueCorrect ==
    ASSUME ~ClaimStall PROVE Spec => ImplementsQueue
<1>1. HistoryInvariant /\ [Next]_vars => [Queue!Next]_(Queue!queueVars)
  BY QueueNext
<1> QED
  BY <1>1, QueueInit, HistoryCorrect, PTL DEF Spec, ImplementsQueue, Queue!Spec

=============================================================================
