------------------------- MODULE DeliveryWorkerProofs -------------------------
(***************************************************************************)
(* Proofs about DeliveryWorker, for any number of workers, endpoints,      *)
(* deliveries and failures.                                                *)
(***************************************************************************)
EXTENDS DeliveryWorker, FiniteSetTheorems, TLAPS

(* A position in the claim query's result is a number.                      *)
LEMMA PositionIsNat ==
    ASSUME NEW e
    PROVE  Position(e) \in Nat
<1>1. {f \in Eligible : ServedFirst(f, e)} \subseteq Endpoints
  BY DEF Eligible
<1>2. IsFiniteSet({f \in Eligible : ServedFirst(f, e)})
  BY <1>1, FS_Subset, EndpointsAssumption
<1> QED
  BY <1>2, FS_CardinalityType DEF Position

(* The empty tables and idle workers of a fresh start are well typed.       *)
LEMMA TypeInit == Init => TypeOK
  BY WorkersAssumption, DeliveriesAssumption, BoundsAssumption
  DEF Init, TypeOK, Claiming, Sending, Attempt

(* Every candidate of claimDelivery is an endpoint with a flag and a place. *)
LEMMA ClaimQueryRows == ClaimQuery \subseteq [ep : Endpoints, busy : BOOLEAN, pos : Nat]
<1> SUFFICES ASSUME NEW c \in ClaimQuery
             PROVE  c \in [ep : Endpoints, busy : BOOLEAN, pos : Nat]
  OBVIOUS
<1>1. PICK e \in Endpoints : c = [ep |-> e, busy |-> lease[e] # None, pos |-> Position(e)]
  BY DEF ClaimQuery, Eligible
<1>2. Position(e) \in Nat
  BY PositionIsNat
<1>3. (lease[e] # None) \in BOOLEAN
  OBVIOUS
<1> QED
  BY <1>1, <1>2, <1>3

(* Closing an orphaned attempt rewrites rows and adds none.                 *)
LEMMA CloseOrphanedAttemptRows ==
    ASSUME TypeOK, NEW w \in Workers, CloseOrphanedAttempt(w)
    PROVE  /\ attempts' \in [Deliveries -> Seq(Attempt)]
           /\ \A d \in Deliveries : Len(attempts'[d]) = Len(attempts[d])
<1> DEFINE Row(d, i) == IF d \in InFlight(current[w]) /\ Unanswered(attempts[d][i])
                        THEN [attempts[d][i] EXCEPT !.outcome = "worker_lease_expired"]
                        ELSE attempts[d][i]
           Rows(d)   == [i \in 1 .. Len(attempts[d]) |-> Row(d, i)]
<1>1. attempts' = [d \in Deliveries |-> Rows(d)]
  BY DEF CloseOrphanedAttempt
<1>2. ASSUME NEW d \in Deliveries
      PROVE  Rows(d) \in Seq(Attempt) /\ Len(Rows(d)) = Len(attempts[d])
  <2>1. attempts[d] \in Seq(Attempt)
    BY DEF TypeOK
  <2>2. ASSUME NEW i \in 1 .. Len(attempts[d]) PROVE Row(d, i) \in Attempt
    <3>1. attempts[d][i] \in Attempt
      BY <2>1
    <3>2. [attempts[d][i] EXCEPT !.outcome = "worker_lease_expired"] \in Attempt
      BY <3>1 DEF Attempt
    <3> QED
      BY <3>1, <3>2
  <2> HIDE DEF Row
  <2> QED
    BY <2>1, <2>2
<1> HIDE DEF Rows
<1> QED
  BY <1>1, <1>2

(* Adding an attempt adds one row at the end of its delivery's.             *)
LEMMA InsertAttemptRows ==
    ASSUME TypeOK, NEW w \in Workers, InsertAttempt(w)
    PROVE  /\ attempts' \in [Deliveries -> Seq(Attempt)]
           /\ \A d \in Deliveries : Len(attempts'[d]) >= Len(attempts[d])
           /\ attempt'[w] \in 1 .. Len(attempts'[head[w]])
<1> DEFINE row == [number |-> number[w], outcome |-> "open"]
           h   == head[w]
<1>1. h \in Deliveries /\ row \in Attempt
  BY DEF TypeOK, InsertAttempt, Attempt
<1>2. attempts \in [Deliveries -> Seq(Attempt)] /\ attempt \in [Workers -> Nat]
  BY DEF TypeOK
<1>3. /\ attempts' = [attempts EXCEPT ![h] = Append(@, row)]
      /\ attempt'[w] = Len(attempts[h]) + 1
  BY <1>2 DEF InsertAttempt
<1> HIDE DEF row, h
<1>4. /\ Append(attempts[h], row) \in Seq(Attempt)
      /\ Len(Append(attempts[h], row)) = Len(attempts[h]) + 1
      /\ Len(attempts[h]) \in Nat
  BY <1>1, <1>2
<1>5. \A d \in Deliveries : attempts'[d] = IF d = h THEN Append(attempts[h], row) ELSE attempts[d]
  BY <1>1, <1>2, <1>3
<1>6. attempts' \in [Deliveries -> Seq(Attempt)]
  BY <1>1, <1>2, <1>3, <1>4
<1>7. \A d \in Deliveries : Len(attempts[d]) \in Nat
  BY <1>2
<1>8. ASSUME NEW d \in Deliveries PROVE Len(attempts'[d]) >= Len(attempts[d])
  <2>1. CASE d = h
    <3>1. Len(attempts'[h]) = Len(attempts[h]) + 1
      BY <1>1, <1>4, <1>5
    <3> QED
      BY <2>1, <3>1, <1>4
  <2>2. CASE d # h
    <3>1. attempts'[d] = attempts[d]
      BY <2>2, <1>5
    <3> QED
      BY <3>1, <1>7
  <2> QED
    BY <2>1, <2>2
<1> QED
  BY <1>1, <1>3, <1>4, <1>5, <1>6, <1>8 DEF h

(* The write-back sets an outcome in a row that is there.                   *)
LEMMA WriteBackRows ==
    ASSUME TypeOK, NEW w \in Workers, pc[w] = "complete", WriteBack(w)
    PROVE  /\ attempts' \in [Deliveries -> Seq(Attempt)]
           /\ \A d \in Deliveries : Len(attempts'[d]) = Len(attempts[d])
<1> DEFINE h   == head[w]
           a   == attempt[w]
           row == [attempts[h][a] EXCEPT !.outcome = result[w]]
<1>1. h \in Deliveries /\ a \in 1 .. Len(attempts[h]) /\ result[w] \in {"2xx", "failed"}
  BY DEF TypeOK, Sending
<1>2. attempts \in [Deliveries -> Seq(Attempt)]
  BY DEF TypeOK
<1>3. attempts[h] \in Seq(Attempt) /\ attempts[h][a] \in Attempt
  BY <1>1, <1>2
<1>4. row \in Attempt
  BY <1>1, <1>3 DEF Attempt
<1>5. attempts' = [attempts EXCEPT ![h] = [attempts[h] EXCEPT ![a] = row]]
  BY <1>1, <1>2 DEF WriteBack
<1> HIDE DEF row, h, a
<1>6. /\ [attempts[h] EXCEPT ![a] = row] \in Seq(Attempt)
      /\ Len([attempts[h] EXCEPT ![a] = row]) = Len(attempts[h])
  BY <1>1, <1>3, <1>4
<1> QED
  BY <1>1, <1>2, <1>5, <1>6

(* The write-back keeps the types of all it writes, if the outcome does of  *)
(* what it adds.                                                            *)
LEMMA WriteBackTypes ==
    ASSUME TypeOK, NEW w \in Workers, pc[w] = "complete", WriteBack(w),
           status' \in [Endpoints -> {"active", "paused", "halted"}],
           state' \in [Deliveries -> {"absent", "pending", "in_flight", "succeeded", "failed"}],
           cooling' \subseteq Deliveries
    PROVE  TypeOK'
<1> USE DEF bounds, Claiming, Sending
<1>1. /\ attempts' \in [Deliveries -> Seq(Attempt)]
      /\ \A d \in Deliveries : Len(attempts'[d]) = Len(attempts[d])
  BY WriteBackRows
<1>2. /\ lease' = [lease EXCEPT ![current[w]] = None] /\ stale' = stale \ {current[w]}
      /\ UNCHANGED <<later, attemptCount, bounds>>
      /\ cutoff' = [v \in Workers |-> cutoff[v] \ {current[w]}]
  BY DEF WriteBack, SetLease
<1>3. /\ lease' \in [Endpoints -> Workers \cup {None, Orphan}]
      /\ stale' \subseteq {e \in Endpoints : lease'[e] # None}
      /\ cutoff' \in [Workers -> SUBSET Endpoints]
  BY <1>2 DEF TypeOK
<1>4. /\ pc' \in [Workers -> {"idle", "claim"} \cup Claiming \cup Sending]
      /\ candidates' \in [Workers -> SUBSET [ep : Endpoints, busy : BOOLEAN, pos : Nat]]
      /\ current' \in [Workers -> Endpoints \cup {None}]
      /\ reclaiming' \in [Workers -> BOOLEAN]
      /\ head' \in [Workers -> Deliveries \cup {0}]
      /\ number' \in [Workers -> Nat]
      /\ attempt' \in [Workers -> Nat]
      /\ result' \in [Workers -> {"none", "2xx", "failed"}]
  BY DEF WriteBack, EndCycle, TypeOK
<1>5. pc' = [pc EXCEPT ![w] = "idle"]
  BY DEF WriteBack, EndCycle
<1>6. ASSUME NEW v \in Workers, pc'[v] \in Claiming \cup Sending
      PROVE  /\ v # w /\ pc'[v] = pc[v] /\ current'[v] = current[v] /\ head'[v] = head[v]
             /\ attempt'[v] = attempt[v] /\ result'[v] = result[v]
  <2>1. v # w
    BY <1>5, <1>6 DEF TypeOK
  <2> QED
    BY <2>1 DEF WriteBack, EndCycle, TypeOK
<1>7. \A v \in Workers :
          /\ pc'[v] \in Claiming \cup Sending => current'[v] \in Endpoints
          /\ pc'[v] \in {"insert", "mark"} \cup Sending =>
                head'[v] \in Deliveries /\ EndpointOf[head'[v]] = current'[v]
          /\ pc'[v] \in {"mark"} \cup Sending => attempt'[v] \in 1 .. Len(attempts'[head'[v]])
          /\ pc'[v] = "complete" => result'[v] # "none"
  BY <1>1, <1>6 DEF TypeOK
<1> QED
  BY <1>1, <1>2, <1>3, <1>4, <1>7 DEF TypeOK

(* Every step keeps the types, whatever stalls.                             *)
LEMMA TypeNext == TypeOK /\ [Next]_vars => TypeOK'
<1> SUFFICES ASSUME TypeOK, [Next]_vars PROVE TypeOK'
  OBVIOUS
<1> USE WorkersAssumption, EndpointsAssumption, DeliveriesAssumption, BoundsAssumption
    DEF endpointVars, deliveryVars, loopVars, claimVars, sendVars, bounds, Claiming, Sending
<1>1. ASSUME NEW b \in Batches, Enqueue(b) PROVE TypeOK'
  BY <1>1 DEF TypeOK, Enqueue
<1>2. ASSUME NEW e \in Endpoints, Pause(e) PROVE TypeOK'
  BY <1>2 DEF TypeOK, Pause
<1>3. ASSUME NEW e \in Endpoints, Resume(e) PROVE TypeOK'
  BY <1>3 DEF TypeOK, Resume
<1>4. ASSUME NEW e \in Endpoints, OrphanLapses(e) PROVE TypeOK'
  BY <1>4 DEF TypeOK, OrphanLapses
<1>5. ASSUME NEW e \in Endpoints, HolderLapses(e) PROVE TypeOK'
  BY <1>5 DEF TypeOK, HolderLapses
<1>6. ASSUME NEW d \in Deliveries, Cooled(d) PROVE TypeOK'
  BY <1>6 DEF TypeOK, Cooled
<1>7. ASSUME NEW w \in Workers, SelectCandidates(w) PROVE TypeOK'
  BY <1>7, ClaimQueryRows DEF TypeOK, SelectCandidates
<1>8. ASSUME NEW w \in Workers, ClaimEndpoint(w) PROVE TypeOK'
  BY <1>8 DEF TypeOK, Attempt, ClaimEndpoint, First, Claimable, SetLease
<1>9. ASSUME NEW w \in Workers, LoseRace(w) PROVE TypeOK'
  BY <1>9 DEF TypeOK, Attempt, LoseRace, First, Claimable
<1>10. ASSUME NEW w \in Workers, TouchTenant(w) PROVE TypeOK'
  BY <1>10 DEF TypeOK, Attempt, TouchTenant
<1>11. ASSUME NEW w \in Workers, CloseOrphanedAttempt(w) PROVE TypeOK'
  <2>1. /\ attempts' \in [Deliveries -> Seq(Attempt)]
        /\ \A d \in Deliveries : Len(attempts'[d]) = Len(attempts[d])
    BY <1>11, CloseOrphanedAttemptRows
  <2>2. /\ pc[w] = "close" /\ pc' = [pc EXCEPT ![w] = "requeue"]
        /\ UNCHANGED <<endpointVars, later, deliveryVars, loopVars, claimVars, sendVars, bounds>>
    BY <1>11 DEF CloseOrphanedAttempt
  <2> QED
    BY <2>1, <2>2 DEF TypeOK
<1>12. ASSUME NEW w \in Workers, CloseOrphanedAttemptFails(w) PROVE TypeOK'
  BY <1>12 DEF TypeOK, Attempt, CloseOrphanedAttemptFails, Die, EndCycle
<1>13. ASSUME NEW w \in Workers, RequeueOrphan(w) PROVE TypeOK'
  BY <1>13 DEF TypeOK, Attempt, RequeueOrphan
<1>14. ASSUME NEW w \in Workers, FetchHead(w) PROVE TypeOK'
  BY <1>14 DEF TypeOK, Attempt, FetchHead, IsHead, On
<1>15. ASSUME NEW w \in Workers, HeadNotReady(w) PROVE TypeOK'
  BY <1>15 DEF TypeOK, Attempt, HeadNotReady
<1>16. ASSUME NEW w \in Workers, ReleaseClaim(w) PROVE TypeOK'
  <2>1. /\ lease' \in [Endpoints -> Workers \cup {None, Orphan}]
        /\ stale' \subseteq {e \in Endpoints : lease'[e] # None}
    <3>1. CASE lease[current[w]] = w
      <4>1. /\ lease' = [lease EXCEPT ![current[w]] = None]
            /\ stale' = stale \ {current[w]}
        BY <3>1, <1>16 DEF ReleaseClaim, SetLease
      <4> QED
        BY <4>1 DEF TypeOK
    <3>2. CASE lease[current[w]] # w
      BY <3>2, <1>16 DEF TypeOK, ReleaseClaim
    <3> QED
      BY <3>1, <3>2
  <2>2. cutoff' \in [Workers -> SUBSET Endpoints]
    BY <1>16 DEF TypeOK, ReleaseClaim
  <2> QED
    BY <1>16, <2>1, <2>2 DEF TypeOK, ReleaseClaim
<1>17. ASSUME NEW w \in Workers, InsertAttempt(w) PROVE TypeOK'
  <2>1. /\ attempts' \in [Deliveries -> Seq(Attempt)]
        /\ \A d \in Deliveries : Len(attempts'[d]) >= Len(attempts[d])
        /\ attempt'[w] \in 1 .. Len(attempts'[head[w]])
    BY <1>17, InsertAttemptRows
  <2>2. /\ pc[w] = "insert" /\ pc' = [pc EXCEPT ![w] = "mark"]
        /\ attempt' = [attempt EXCEPT ![w] = attempt'[w]]
        /\ UNCHANGED <<endpointVars, later, deliveryVars, loopVars, claimVars, head,
                        number, result, bounds>>
    BY <1>17 DEF InsertAttempt, TypeOK
  <2>3. \A d \in Deliveries : Len(attempts[d]) \in Nat /\ Len(attempts'[d]) \in Nat
    BY <2>1 DEF TypeOK
  <2>4. ASSUME NEW v \in Workers, pc'[v] \in {"mark"} \cup Sending
        PROVE  attempt'[v] \in 1 .. Len(attempts'[head'[v]])
    <3>1. CASE v = w
      BY <3>1, <2>1, <2>2
    <3>2. CASE v # w
      <4>1. /\ attempt'[v] = attempt[v] /\ head' = head
            /\ head[v] \in Deliveries
            /\ attempt[v] \in 1 .. Len(attempts[head[v]])
        BY <3>2, <2>2, <2>4 DEF TypeOK
      <4>2. /\ Len(attempts[head[v]]) \in Nat /\ Len(attempts'[head[v]]) \in Nat
            /\ Len(attempts[head[v]]) <= Len(attempts'[head[v]])
        BY <4>1, <2>1, <2>3
      <4>3. attempt[v] \in 1 .. Len(attempts'[head[v]])
        BY <4>1, <4>2
      <4> QED
        BY <4>1, <4>3
    <3> QED
      BY <3>1, <3>2
  <2>5. attempt' \in [Workers -> Nat]
    BY <1>17 DEF TypeOK, InsertAttempt
  <2> QED
    BY <2>1, <2>2, <2>4, <2>5 DEF TypeOK
<1>18. ASSUME NEW w \in Workers, MarkInFlight(w) PROVE TypeOK'
  BY <1>18 DEF TypeOK, Attempt, MarkInFlight
<1>19. ASSUME NEW w \in Workers, Send(w) PROVE TypeOK'
  BY <1>19 DEF TypeOK, Attempt, Send
<1>20. ASSUME NEW w \in Workers, CompleteSucceeded(w) PROVE TypeOK'
  <2>1. pc[w] = "complete" /\ WriteBack(w)
    BY <1>20 DEF CompleteSucceeded
  <2>2. /\ status' \in [Endpoints -> {"active", "paused", "halted"}]
        /\ state' \in [Deliveries -> {"absent", "pending", "in_flight", "succeeded", "failed"}]
        /\ cooling' \subseteq Deliveries
    BY <1>20 DEF TypeOK, CompleteSucceeded
  <2> QED
    BY <2>1, <2>2, WriteBackTypes
<1>21. ASSUME NEW w \in Workers, CompleteHalted(w) PROVE TypeOK'
  <2>1. pc[w] = "complete" /\ WriteBack(w)
    BY <1>21 DEF CompleteHalted
  <2>2. /\ status' \in [Endpoints -> {"active", "paused", "halted"}]
        /\ state' \in [Deliveries -> {"absent", "pending", "in_flight", "succeeded", "failed"}]
        /\ cooling' \subseteq Deliveries
    BY <1>21 DEF TypeOK, CompleteHalted
  <2> QED
    BY <2>1, <2>2, WriteBackTypes
<1>22. ASSUME NEW w \in Workers, CompleteRetrying(w) PROVE TypeOK'
  <2>1. pc[w] = "complete" /\ WriteBack(w)
    BY <1>22 DEF CompleteRetrying
  <2>2. /\ status' \in [Endpoints -> {"active", "paused", "halted"}]
        /\ state' \in [Deliveries -> {"absent", "pending", "in_flight", "succeeded", "failed"}]
        /\ cooling' \subseteq Deliveries
    BY <1>22 DEF TypeOK, CompleteRetrying
  <2> QED
    BY <2>1, <2>2, WriteBackTypes
<1>23. ASSUME NEW w \in Workers, LeaseLost(w) PROVE TypeOK'
  BY <1>23 DEF TypeOK, Attempt, LeaseLost, EndCycle
<1>24. ASSUME NEW w \in Workers, Abort(w) PROVE TypeOK'
  BY <1>24 DEF TypeOK, Attempt, Abort, Die, EndCycle
<1>25. CASE UNCHANGED vars
  BY <1>25 DEF TypeOK, vars
<1> QED
  BY <1>1, <1>2, <1>3, <1>4, <1>5, <1>6, <1>7, <1>8, <1>9, <1>10, <1>11, <1>12, <1>13, <1>14, <1>15, <1>16, <1>17, <1>18, <1>19, <1>20, <1>21, <1>22, <1>23, <1>24, <1>25
  DEF Next, RunDeliveryCycle, TryClaim, Complete, Environment

(* A step that puts nothing in flight and leaves alone the owners of what   *)
(* is in flight keeps it owned.                                             *)
LEMMA InFlightKept ==
    ASSUME InFlightOwned,
           \A d \in Deliveries : state'[d] = "in_flight" =>
             /\ state[d] = "in_flight" /\ lease'[EndpointOf[d]] # None
             /\ \A v \in Workers : lease'[EndpointOf[d]] = v =>
                   /\ lease[EndpointOf[d]] = v
                   /\ pc'[v] = pc[v] /\ head'[v] = head[v] /\ reclaiming'[v] = reclaiming[v]
    PROVE  InFlightOwned'
  BY DEF InFlightOwned

(* A cycle that dies leaves what it had in flight to its orphaned lease.    *)
LEMMA DieKeepsOwned ==
    ASSUME LeaseInvariant, NEW w \in Workers, Die(w)
    PROVE  InFlightOwned'
<1>1. lease' = [e \in Endpoints |-> IF lease[e] = w THEN Orphan ELSE lease[e]] /\ state' = state
  BY DEF Die, deliveryVars
<1>2. \A v \in Workers : v # w => pc'[v] = pc[v] /\ head'[v] = head[v] /\ reclaiming'[v] = reclaiming[v]
  BY DEF Die, EndCycle, LeaseInvariant, TypeOK
<1>3. ASSUME NEW e \in Endpoints
      PROVE  /\ lease[e] # None => lease'[e] # None
             /\ \A v \in Workers : lease'[e] = v => lease[e] = v /\ v # w
  BY <1>1, WorkersAssumption
<1>4. \A d \in Deliveries : EndpointOf[d] \in Endpoints
  BY DeliveriesAssumption
<1>5. \A d \in Deliveries : state[d] = "in_flight" => lease[EndpointOf[d]] # None
  BY DEF LeaseInvariant, InFlightOwned
<1> QED
  BY <1>1, <1>2, <1>3, <1>4, <1>5, InFlightKept DEF LeaseInvariant

(* The write-back of the lease's holder leaves nothing in flight on the     *)
(* endpoint it frees.                                                       *)
LEMMA WriteBackFrees ==
    ASSUME LeaseInvariant, NEW w \in Workers, pc[w] = "complete", Fenced(w), WriteBack(w),
           NEW s, s # "in_flight", state' = [state EXCEPT ![head[w]] = s]
    PROVE  /\ \A d \in Deliveries : state'[d] = "in_flight" =>
                  state[d] = "in_flight" /\ EndpointOf[d] # current[w]
           /\ InFlightOwned'
<1> USE DEF Claiming, Sending
<1>1. head[w] \in Deliveries /\ current[w] \in Endpoints /\ lease[current[w]] = w
  BY DEF LeaseInvariant, TypeOK, Fenced
<1>2. ASSUME NEW d \in Deliveries, state'[d] = "in_flight"
      PROVE  state[d] = "in_flight" /\ EndpointOf[d] # current[w]
  <2>1. d # head[w] /\ state[d] = "in_flight"
    BY <1>1, <1>2 DEF LeaseInvariant, TypeOK
  <2> QED
    BY <1>1, <2>1 DEF LeaseInvariant, InFlightOwned
<1>3. /\ lease' = [lease EXCEPT ![current[w]] = None]
      /\ \A v \in Workers : v # w => pc'[v] = pc[v] /\ head'[v] = head[v] /\ reclaiming'[v] = reclaiming[v]
  BY DEF WriteBack, EndCycle, SetLease, LeaseInvariant, TypeOK
<1>4. \A e \in Endpoints : e # current[w] => lease[e] # w
  BY DEF LeaseInvariant, LeaseOwned
<1>5. ASSUME NEW d \in Deliveries, state'[d] = "in_flight"
      PROVE  /\ state[d] = "in_flight" /\ lease'[EndpointOf[d]] # None
             /\ \A v \in Workers : lease'[EndpointOf[d]] = v =>
                   /\ lease[EndpointOf[d]] = v
                   /\ pc'[v] = pc[v] /\ head'[v] = head[v] /\ reclaiming'[v] = reclaiming[v]
  <2>1. /\ state[d] = "in_flight"
        /\ EndpointOf[d] \in Endpoints /\ EndpointOf[d] # current[w]
    BY <1>2, <1>5, DeliveriesAssumption
  <2>2. lease'[EndpointOf[d]] = lease[EndpointOf[d]]
    BY <2>1, <1>3 DEF LeaseInvariant, TypeOK
  <2> QED
    BY <2>1, <2>2, <1>3, <1>4 DEF LeaseInvariant, InFlightOwned
<1>6. InFlightOwned'
  BY <1>5, InFlightKept DEF LeaseInvariant
<1> QED
  BY <1>2, <1>6

(* A step that leaves alone the deliveries, the leases and the status of    *)
(* the endpoints keeps what the invariant says of these alone.              *)
LEMMA TablesKept ==
    ASSUME LeaseInvariant, UNCHANGED <<state, attemptCount, status, lease>>
    PROVE  VisibleInOrder' /\ OneInFlight' /\ StrictOrder' /\ HaltedIsQuiescent'
<1>1. VisibleInOrder'
  BY DEF LeaseInvariant, VisibleInOrder
<1>2. OneInFlight'
  BY DEF LeaseInvariant, OneInFlight, InFlight
<1>3. StrictOrder'
  BY DEF LeaseInvariant, StrictOrder, Terminal
<1>4. HaltedIsQuiescent'
  BY DEF LeaseInvariant, HaltedIsQuiescent, InFlight
<1> QED
  BY <1>1, <1>2, <1>3, <1>4

(* Every step keeps the invariant when claims finish within their lease.    *)
LEMMA LeaseNext ==
    ASSUME LeaseInvariant, [Next]_vars, ~ClaimStall PROVE LeaseInvariant'
<1>0. TypeOK'
  BY TypeNext DEF LeaseInvariant
<1> USE WorkersAssumption, EndpointsAssumption, DeliveriesAssumption
    DEF endpointVars, deliveryVars, loopVars, claimVars, sendVars, bounds, Claiming, Sending
<1>1. ASSUME NEW b \in Batches, Enqueue(b) PROVE LeaseInvariant'
  <2>1. LeaseOwned'
    BY <1>0, <1>1 DEF Enqueue, LeaseInvariant, TypeOK, LeaseOwned, Fenced
  <2>2. StaleIsReclaimable'
    BY <1>0, <1>1 DEF Enqueue, LeaseInvariant, TypeOK, StaleIsReclaimable, LeaseOwned, Fenced
  <2>3. InFlightOwned'
    BY <1>0, <1>1 DEF Enqueue, LeaseInvariant, TypeOK, InFlightOwned, LeaseOwned, StaleIsReclaimable, Fenced, On, InFlight
  <2>4. HeadIsOurs'
    BY <1>0, <1>1 DEF Enqueue, LeaseInvariant, TypeOK, HeadIsOurs, LeaseOwned, InFlightOwned, Fenced, Terminal, On, InFlight
  <2>5. VisibleInOrder'
    BY <1>0, <1>1 DEF Enqueue, LeaseInvariant, TypeOK, VisibleInOrder
  <2>6. OneInFlight'
    BY <1>0, <1>1 DEF Enqueue, LeaseInvariant, TypeOK, OneInFlight, InFlight, On, InFlightOwned, LeaseOwned, Fenced
  <2>7. StrictOrder'
    BY <1>0, <1>1 DEF Enqueue, LeaseInvariant, TypeOK, StrictOrder, HeadIsOurs, Terminal, LeaseOwned, Fenced
  <2>8. HaltedIsQuiescent'
    BY <1>0, <1>1 DEF Enqueue, LeaseInvariant, TypeOK, HaltedIsQuiescent, InFlight, On, InFlightOwned, LeaseOwned, Fenced
  <2> QED
    BY <1>0, <2>1, <2>2, <2>3, <2>4, <2>5, <2>6, <2>7, <2>8 DEF LeaseInvariant
<1>2. ASSUME NEW e \in Endpoints, Pause(e) PROVE LeaseInvariant'
  <2>1. LeaseOwned'
    BY <1>2 DEF Pause, LeaseInvariant, TypeOK, LeaseOwned, Fenced
  <2>2. StaleIsReclaimable'
    BY <1>2 DEF Pause, LeaseInvariant, TypeOK, StaleIsReclaimable, LeaseOwned, Fenced
  <2>3. InFlightOwned'
    BY <1>2 DEF Pause, LeaseInvariant, TypeOK, InFlightOwned, LeaseOwned, Fenced, InFlight, On
  <2>4. HeadIsOurs'
    BY <1>2 DEF Pause, LeaseInvariant, TypeOK, HeadIsOurs, LeaseOwned, Fenced, Terminal, InFlight, On
  <2>5. VisibleInOrder'
    BY <1>2 DEF Pause, LeaseInvariant, TypeOK, VisibleInOrder, InFlight, On
  <2>6. OneInFlight'
    BY <1>2 DEF Pause, LeaseInvariant, TypeOK, OneInFlight, InFlight, On
  <2>7. StrictOrder'
    BY <1>2 DEF Pause, LeaseInvariant, TypeOK, StrictOrder, Terminal, InFlight, On
  <2>8. HaltedIsQuiescent'
    BY <1>2 DEF Pause, LeaseInvariant, TypeOK, HaltedIsQuiescent, InFlight, On
  <2> QED
    BY <1>0, <2>1, <2>2, <2>3, <2>4, <2>5, <2>6, <2>7, <2>8 DEF LeaseInvariant
<1>3. ASSUME NEW e \in Endpoints, Resume(e) PROVE LeaseInvariant'
  <2>1. LeaseOwned'
    BY <1>3 DEF Resume, LeaseInvariant, TypeOK, LeaseOwned, Fenced
  <2>2. StaleIsReclaimable'
    BY <1>3 DEF Resume, LeaseInvariant, TypeOK, StaleIsReclaimable, LeaseOwned, Fenced
  <2>3. InFlightOwned'
    BY <1>3 DEF Resume, LeaseInvariant, TypeOK, InFlightOwned, LeaseOwned, Fenced, InFlight, On
  <2>4. HeadIsOurs'
    BY <1>3 DEF Resume, LeaseInvariant, TypeOK, HeadIsOurs, LeaseOwned, Fenced, Terminal, InFlight, On
  <2>5. VisibleInOrder'
    BY <1>3 DEF Resume, LeaseInvariant, TypeOK, VisibleInOrder, InFlight, On
  <2>6. OneInFlight'
    BY <1>3 DEF Resume, LeaseInvariant, TypeOK, OneInFlight, InFlight, On
  <2>7. StrictOrder'
    BY <1>3 DEF Resume, LeaseInvariant, TypeOK, StrictOrder, Terminal, InFlight, On
  <2>8. HaltedIsQuiescent'
    BY <1>3 DEF Resume, LeaseInvariant, TypeOK, HaltedIsQuiescent, InFlight, On
  <2> QED
    BY <1>0, <2>1, <2>2, <2>3, <2>4, <2>5, <2>6, <2>7, <2>8 DEF LeaseInvariant
<1>4. ASSUME NEW e \in Endpoints, OrphanLapses(e) PROVE LeaseInvariant'
  <2>1. LeaseOwned'
    BY <1>4 DEF OrphanLapses, LeaseInvariant, TypeOK, LeaseOwned, Fenced
  <2>2. StaleIsReclaimable'
    BY <1>4 DEF OrphanLapses, LeaseInvariant, TypeOK, StaleIsReclaimable, LeaseOwned, Fenced
  <2>3. InFlightOwned'
    BY <1>4 DEF OrphanLapses, LeaseInvariant, TypeOK, InFlightOwned
  <2>4. HeadIsOurs'
    BY <1>4 DEF OrphanLapses, LeaseInvariant, TypeOK, HeadIsOurs, Fenced, Terminal
  <2>5. VisibleInOrder' /\ OneInFlight' /\ StrictOrder' /\ HaltedIsQuiescent'
    BY <1>4, TablesKept DEF OrphanLapses
  <2> QED
    BY <1>0, <2>1, <2>2, <2>3, <2>4, <2>5 DEF LeaseInvariant
<1>5. ASSUME NEW e \in Endpoints, HolderLapses(e) PROVE LeaseInvariant'
  <2>1. LeaseOwned'
    BY <1>5 DEF HolderLapses, LeaseInvariant, TypeOK, LeaseOwned, Fenced
  <2>2. StaleIsReclaimable'
    BY <1>5 DEF HolderLapses, LeaseInvariant, TypeOK, StaleIsReclaimable, LeaseOwned, Fenced
  <2>3. InFlightOwned'
    BY <1>5 DEF HolderLapses, LeaseInvariant, TypeOK, InFlightOwned
  <2>4. HeadIsOurs'
    BY <1>5 DEF HolderLapses, LeaseInvariant, TypeOK, HeadIsOurs, Fenced, Terminal
  <2>5. VisibleInOrder' /\ OneInFlight' /\ StrictOrder' /\ HaltedIsQuiescent'
    BY <1>5, TablesKept DEF HolderLapses
  <2> QED
    BY <1>0, <2>1, <2>2, <2>3, <2>4, <2>5 DEF LeaseInvariant
<1>6. ASSUME NEW d \in Deliveries, Cooled(d) PROVE LeaseInvariant'
  <2>1. LeaseOwned'
    BY <1>6 DEF Cooled, LeaseInvariant, TypeOK, LeaseOwned, Fenced
  <2>2. StaleIsReclaimable'
    BY <1>6 DEF Cooled, LeaseInvariant, TypeOK, StaleIsReclaimable, LeaseOwned, Fenced
  <2>3. InFlightOwned'
    BY <1>6 DEF Cooled, LeaseInvariant, TypeOK, InFlightOwned
  <2>4. HeadIsOurs'
    BY <1>6 DEF Cooled, LeaseInvariant, TypeOK, HeadIsOurs, Fenced, Terminal
  <2>5. VisibleInOrder' /\ OneInFlight' /\ StrictOrder' /\ HaltedIsQuiescent'
    BY <1>6, TablesKept DEF Cooled
  <2> QED
    BY <1>0, <2>1, <2>2, <2>3, <2>4, <2>5 DEF LeaseInvariant
<1>7. ASSUME NEW w \in Workers, SelectCandidates(w) PROVE LeaseInvariant'
  <2>1. LeaseOwned'
    BY <1>7 DEF SelectCandidates, ClaimQuery, Eligible, LeaseInvariant, TypeOK, LeaseOwned, Fenced
  <2>2. StaleIsReclaimable'
    <3>1. /\ pc[w] = "idle" /\ UNCHANGED <<lease, stale>>
          /\ candidates' = [candidates EXCEPT ![w] = ClaimQuery]
          /\ cutoff' = [cutoff EXCEPT ![w] = IF ClaimQuery = {} THEN {} ELSE stale]
          /\ \A v \in Workers : v # w => pc'[v] = pc[v]
      BY <1>7 DEF SelectCandidates, LeaseInvariant, TypeOK
    <3>2. /\ candidates'[w] = ClaimQuery /\ cutoff'[w] \subseteq stale
          /\ \A v \in Workers : v # w => candidates'[v] = candidates[v] /\ cutoff'[v] = cutoff[v]
      BY <3>1 DEF LeaseInvariant, TypeOK
    <3>3. \A c \in ClaimQuery : c.ep \in stale => c.busy
      <4> SUFFICES ASSUME NEW c \in ClaimQuery, c.ep \in stale PROVE c.busy
        OBVIOUS
      <4>1. PICK e \in Endpoints : c = [ep |-> e, busy |-> lease[e] # None, pos |-> Position(e)]
        BY DEF ClaimQuery, Eligible
      <4>2. lease[e] # None
        BY <4>1 DEF LeaseInvariant, TypeOK
      <4> QED
        BY <4>1, <4>2
    <3>4. \A v \in Workers : cutoff'[v] \subseteq stale'
      BY <3>1, <3>2 DEF LeaseInvariant, StaleIsReclaimable
    <3>5. \A e \in stale' : \A v \in Workers : lease'[e] = v => pc'[v] \in Sending
      BY <3>1 DEF LeaseInvariant, StaleIsReclaimable
    <3>6. \A v \in Workers : \A c \in candidates'[v] : c.ep \in cutoff'[v] => c.busy
      BY <3>2, <3>3 DEF LeaseInvariant, StaleIsReclaimable
    <3> QED
      BY <3>4, <3>5, <3>6 DEF StaleIsReclaimable
  <2>3. InFlightOwned'
    BY <1>7 DEF SelectCandidates, ClaimQuery, Eligible, LeaseInvariant, TypeOK, InFlightOwned
  <2>4. HeadIsOurs'
    BY <1>7 DEF SelectCandidates, ClaimQuery, Eligible, LeaseInvariant, TypeOK, HeadIsOurs, Fenced, Terminal
  <2>5. VisibleInOrder' /\ OneInFlight' /\ StrictOrder' /\ HaltedIsQuiescent'
    BY <1>7, TablesKept DEF SelectCandidates
  <2> QED
    BY <1>0, <2>1, <2>2, <2>3, <2>4, <2>5 DEF LeaseInvariant
<1>8. ASSUME NEW w \in Workers, ClaimEndpoint(w) PROVE LeaseInvariant'
  <2>1. LeaseOwned'
    BY <1>0, <1>8 DEF ClaimEndpoint, Claimable, SetLease, LeaseInvariant, TypeOK,
                      LeaseOwned, StaleIsReclaimable, Fenced
  <2>2. StaleIsReclaimable'
    BY <1>0, <1>8 DEF ClaimEndpoint, First, Claimable, SetLease, LeaseInvariant, TypeOK, StaleIsReclaimable, LeaseOwned, Fenced
  <2>3. InFlightOwned'
    <3>1. PICK c \in candidates[w] :
            /\ Claimable(w, c.ep)
            /\ lease' = [lease EXCEPT ![c.ep] = w]
            /\ reclaiming' = [reclaiming EXCEPT ![w] = c.busy]
      BY <1>8 DEF ClaimEndpoint, SetLease
    <3>2. pc[w] = "claim" /\ pc' = [pc EXCEPT ![w] = "touch"] /\ UNCHANGED <<state, head>>
      BY <1>8 DEF ClaimEndpoint
    <3>3. ASSUME NEW d \in Deliveries, state[d] = "in_flight", EndpointOf[d] = c.ep
          PROVE  c.busy
      BY <3>1, <3>3 DEF Claimable, LeaseInvariant, InFlightOwned, StaleIsReclaimable
    <3>4. c.ep \in Endpoints
      BY <3>1 DEF LeaseInvariant, TypeOK
    <3>5. \A e \in Endpoints : lease[e] # w
      BY <3>2 DEF LeaseInvariant, LeaseOwned
    <3>6. ASSUME NEW d \in Deliveries, state'[d] = "in_flight"
          PROVE  /\ lease'[EndpointOf[d]] # None
                 /\ \A v \in Workers : lease'[EndpointOf[d]] = v =>
                       \/ pc'[v] \in Sending /\ head'[v] = d
                       \/ pc'[v] \in {"touch", "close", "requeue"} /\ reclaiming'[v]
      <4>1. state[d] = "in_flight" /\ EndpointOf[d] \in Endpoints
        BY <3>2, <3>6
      <4>2. CASE EndpointOf[d] = c.ep
        <5>1. c.busy /\ lease'[EndpointOf[d]] = w
          BY <3>1, <3>3, <4>1, <4>2 DEF LeaseInvariant, TypeOK
        <5>2. pc'[w] = "touch" /\ reclaiming'[w]
          BY <3>1, <3>2, <5>1 DEF LeaseInvariant, TypeOK
        <5> QED
          BY <5>1, <5>2
      <4>3. CASE EndpointOf[d] # c.ep
        <5>1. lease'[EndpointOf[d]] = lease[EndpointOf[d]]
          BY <3>1, <4>1, <4>3 DEF LeaseInvariant, TypeOK
        <5>2. \A v \in Workers : v # w => pc'[v] = pc[v] /\ reclaiming'[v] = reclaiming[v]
          BY <3>1, <3>2 DEF LeaseInvariant, TypeOK
        <5> QED
          BY <3>2, <3>5, <4>1, <5>1, <5>2 DEF LeaseInvariant, InFlightOwned
      <4> QED
        BY <4>2, <4>3
    <3> QED
      BY <3>6 DEF InFlightOwned
  <2>4. HeadIsOurs'
    BY <1>0, <1>8 DEF ClaimEndpoint, First, Claimable, SetLease, LeaseInvariant, TypeOK, HeadIsOurs, LeaseOwned, InFlightOwned, Fenced, Terminal, On, InFlight
  <2>5. VisibleInOrder'
    BY <1>0, <1>8 DEF ClaimEndpoint, First, Claimable, SetLease, LeaseInvariant, TypeOK, VisibleInOrder
  <2>6. OneInFlight'
    BY <1>0, <1>8 DEF ClaimEndpoint, First, Claimable, SetLease, LeaseInvariant, TypeOK, OneInFlight, InFlight, On, InFlightOwned, LeaseOwned, Fenced
  <2>7. StrictOrder'
    BY <1>0, <1>8 DEF ClaimEndpoint, First, Claimable, SetLease, LeaseInvariant, TypeOK, StrictOrder, HeadIsOurs, Terminal, LeaseOwned, Fenced
  <2>8. HaltedIsQuiescent'
    BY <1>0, <1>8 DEF ClaimEndpoint, First, Claimable, SetLease, LeaseInvariant, TypeOK, HaltedIsQuiescent, InFlight, On, InFlightOwned, LeaseOwned, Fenced
  <2> QED
    BY <1>0, <2>1, <2>2, <2>3, <2>4, <2>5, <2>6, <2>7, <2>8 DEF LeaseInvariant
<1>9. ASSUME NEW w \in Workers, LoseRace(w) PROVE LeaseInvariant'
  <2>1. LeaseOwned'
    BY <1>9 DEF LoseRace, LeaseInvariant, TypeOK, LeaseOwned, Fenced
  <2>2. StaleIsReclaimable'
    BY <1>9 DEF LoseRace, LeaseInvariant, TypeOK, StaleIsReclaimable, LeaseOwned, Fenced
  <2>3. InFlightOwned'
    BY <1>9 DEF LoseRace, LeaseInvariant, TypeOK, InFlightOwned
  <2>4. HeadIsOurs'
    BY <1>9 DEF LoseRace, LeaseInvariant, TypeOK, HeadIsOurs, Fenced, Terminal
  <2>5. VisibleInOrder' /\ OneInFlight' /\ StrictOrder' /\ HaltedIsQuiescent'
    BY <1>9, TablesKept DEF LoseRace
  <2> QED
    BY <1>0, <2>1, <2>2, <2>3, <2>4, <2>5 DEF LeaseInvariant
<1>10. ASSUME NEW w \in Workers, TouchTenant(w) PROVE LeaseInvariant'
  <2>1. LeaseOwned'
    BY <1>10 DEF TouchTenant, LeaseInvariant, TypeOK, LeaseOwned, Fenced
  <2>2. StaleIsReclaimable'
    BY <1>10 DEF TouchTenant, LeaseInvariant, TypeOK, StaleIsReclaimable, LeaseOwned, Fenced
  <2>3. InFlightOwned'
    BY <1>10 DEF TouchTenant, LeaseInvariant, TypeOK, InFlightOwned
  <2>4. HeadIsOurs'
    BY <1>10 DEF TouchTenant, LeaseInvariant, TypeOK, HeadIsOurs, Fenced, Terminal
  <2>5. VisibleInOrder' /\ OneInFlight' /\ StrictOrder' /\ HaltedIsQuiescent'
    BY <1>10, TablesKept DEF TouchTenant
  <2> QED
    BY <1>0, <2>1, <2>2, <2>3, <2>4, <2>5 DEF LeaseInvariant
<1>11. ASSUME NEW w \in Workers, CloseOrphanedAttempt(w) PROVE LeaseInvariant'
  <2>1. LeaseOwned'
    BY <1>11 DEF CloseOrphanedAttempt, LeaseInvariant, TypeOK, LeaseOwned, Fenced
  <2>2. StaleIsReclaimable'
    BY <1>11 DEF CloseOrphanedAttempt, LeaseInvariant, TypeOK, StaleIsReclaimable, LeaseOwned, Fenced
  <2>3. InFlightOwned'
    BY <1>11 DEF CloseOrphanedAttempt, LeaseInvariant, TypeOK, InFlightOwned
  <2>4. HeadIsOurs'
    BY <1>11 DEF CloseOrphanedAttempt, LeaseInvariant, TypeOK, HeadIsOurs, Fenced, Terminal
  <2>5. VisibleInOrder' /\ OneInFlight' /\ StrictOrder' /\ HaltedIsQuiescent'
    BY <1>11, TablesKept DEF CloseOrphanedAttempt
  <2> QED
    BY <1>0, <2>1, <2>2, <2>3, <2>4, <2>5 DEF LeaseInvariant
<1>12. ASSUME NEW w \in Workers, CloseOrphanedAttemptFails(w) PROVE LeaseInvariant'
  <2>1. LeaseOwned'
    BY <1>12 DEF CloseOrphanedAttemptFails, Die, EndCycle, LeaseInvariant, TypeOK, LeaseOwned, Fenced
  <2>2. StaleIsReclaimable'
    BY <1>12 DEF CloseOrphanedAttemptFails, Die, EndCycle, LeaseInvariant, TypeOK, StaleIsReclaimable, LeaseOwned, Fenced
  <2>3. InFlightOwned'
    BY <1>12, DieKeepsOwned DEF CloseOrphanedAttemptFails
  <2>4. HeadIsOurs'
    BY <1>12 DEF CloseOrphanedAttemptFails, Die, EndCycle, LeaseInvariant, TypeOK, HeadIsOurs, LeaseOwned, Fenced, Terminal, InFlight, On
  <2>5. VisibleInOrder'
    BY <1>12 DEF CloseOrphanedAttemptFails, Die, EndCycle, LeaseInvariant, TypeOK, VisibleInOrder, InFlight, On
  <2>6. OneInFlight'
    BY <1>12 DEF CloseOrphanedAttemptFails, Die, EndCycle, LeaseInvariant, TypeOK, OneInFlight, InFlight, On
  <2>7. StrictOrder'
    BY <1>12 DEF CloseOrphanedAttemptFails, Die, EndCycle, LeaseInvariant, TypeOK, StrictOrder, Terminal, InFlight, On
  <2>8. HaltedIsQuiescent'
    BY <1>12 DEF CloseOrphanedAttemptFails, Die, EndCycle, LeaseInvariant, TypeOK, HaltedIsQuiescent, InFlight, On
  <2> QED
    BY <1>0, <2>1, <2>2, <2>3, <2>4, <2>5, <2>6, <2>7, <2>8 DEF LeaseInvariant
<1>13. ASSUME NEW w \in Workers, RequeueOrphan(w) PROVE LeaseInvariant'
  <2>1. LeaseOwned'
    BY <1>13 DEF RequeueOrphan, LeaseInvariant, TypeOK, LeaseOwned, Fenced
  <2>2. StaleIsReclaimable'
    BY <1>13 DEF RequeueOrphan, LeaseInvariant, TypeOK, StaleIsReclaimable, LeaseOwned, Fenced
  <2>3. InFlightOwned'
    BY <1>13 DEF RequeueOrphan, LeaseInvariant, TypeOK, InFlightOwned, LeaseOwned, Fenced, InFlight, On
  <2>4. HeadIsOurs'
    BY <1>13 DEF RequeueOrphan, LeaseInvariant, TypeOK, HeadIsOurs, LeaseOwned, Fenced, Terminal, InFlight, On
  <2>5. VisibleInOrder'
    BY <1>13 DEF RequeueOrphan, LeaseInvariant, TypeOK, VisibleInOrder, InFlight, On
  <2>6. OneInFlight'
    BY <1>13 DEF RequeueOrphan, LeaseInvariant, TypeOK, OneInFlight, InFlight, On
  <2>7. StrictOrder'
    BY <1>13 DEF RequeueOrphan, LeaseInvariant, TypeOK, StrictOrder, Terminal, InFlight, On
  <2>8. HaltedIsQuiescent'
    BY <1>13 DEF RequeueOrphan, LeaseInvariant, TypeOK, HaltedIsQuiescent, InFlight, On
  <2> QED
    BY <1>0, <2>1, <2>2, <2>3, <2>4, <2>5, <2>6, <2>7, <2>8 DEF LeaseInvariant
<1>14. ASSUME NEW w \in Workers, FetchHead(w) PROVE LeaseInvariant'
  <2>1. LeaseOwned'
    BY <1>0, <1>14 DEF FetchHead, IsHead, LeaseInvariant, TypeOK, LeaseOwned, Fenced
  <2>2. StaleIsReclaimable'
    BY <1>0, <1>14 DEF FetchHead, IsHead, LeaseInvariant, TypeOK, StaleIsReclaimable, LeaseOwned, Fenced
  <2>3. InFlightOwned'
    <3>1. \A d \in Deliveries : state[d] = "in_flight" => lease[EndpointOf[d]] # w
      BY <1>14 DEF FetchHead, LeaseInvariant, InFlightOwned
    <3>2. \A v \in Workers : v # w => pc'[v] = pc[v] /\ head'[v] = head[v] /\ reclaiming'[v] = reclaiming[v]
      BY <1>14 DEF FetchHead, LeaseInvariant, TypeOK
    <3>3. UNCHANGED <<state, lease>>
      BY <1>14 DEF FetchHead
    <3>4. \A d \in Deliveries : state[d] = "in_flight" => lease[EndpointOf[d]] # None
      BY DEF LeaseInvariant, InFlightOwned
    <3> QED
      BY <3>1, <3>2, <3>3, <3>4, InFlightKept DEF LeaseInvariant
  <2>4. HeadIsOurs'
    <3>1. PICK d \in Deliveries : IsHead(current[w], d) /\ head' = [head EXCEPT ![w] = d]
      BY <1>14 DEF FetchHead
    <3>2. pc[w] = "fetch" /\ Fenced(w) /\ current[w] \in Endpoints
      BY <1>14 DEF FetchHead, LeaseInvariant, TypeOK, LeaseOwned
    <3>3. ASSUME NEW d0 \in Deliveries, SameStream(d0, d), d0 < d
          PROVE  Terminal(d0)
      <4>1. EndpointOf[d0] = current[w] /\ state[d0] # "absent"
        BY <3>1, <3>3 DEF IsHead, On, SameStream, LeaseInvariant, VisibleInOrder
      <4>2. state[d0] # "in_flight"
        BY <3>2, <4>1 DEF Fenced, LeaseInvariant, InFlightOwned
      <4>3. state[d0] # "pending"
        <5>1. d0 \in On(current[w])
          BY <4>1 DEF On
        <5>2. state[d0] = "pending" => d <= d0
          BY <3>1, <5>1 DEF IsHead
        <5>3. d \in Nat /\ d0 \in Nat
          OBVIOUS
        <5> QED
          BY <3>3, <5>2, <5>3
      <4> QED
        BY <4>1, <4>2, <4>3 DEF Terminal, LeaseInvariant, TypeOK
    <3>4. /\ \A v \in Workers : v # w => pc'[v] = pc[v] /\ head'[v] = head[v]
          /\ head'[w] = d /\ pc'[w] = "insert"
          /\ UNCHANGED <<state, lease, current>>
      BY <1>14, <3>1 DEF FetchHead, LeaseInvariant, TypeOK
    <3>5. ASSUME NEW v \in Workers, v # w
          PROVE  /\ pc'[v] \in {"insert", "mark"} =>
                       /\ state'[head'[v]] = "pending"
                       /\ \A d0 \in Deliveries :
                             SameStream(d0, head'[v]) /\ d0 < head'[v] => Terminal(d0)'
                 /\ pc'[v] \in Sending /\ Fenced(v)' => state'[head'[v]] = "in_flight"
      BY <3>4, <3>5 DEF LeaseInvariant, HeadIsOurs, Fenced, Terminal
    <3>6. /\ state'[head'[w]] = "pending"
          /\ \A d0 \in Deliveries : SameStream(d0, head'[w]) /\ d0 < head'[w] => Terminal(d0)'
      BY <3>1, <3>3, <3>4 DEF Terminal, IsHead
    <3> QED
      BY <3>4, <3>5, <3>6 DEF HeadIsOurs
  <2>5. VisibleInOrder'
    BY <1>0, <1>14 DEF FetchHead, IsHead, LeaseInvariant, TypeOK, VisibleInOrder
  <2>6. OneInFlight'
    BY <1>0, <1>14 DEF FetchHead, IsHead, LeaseInvariant, TypeOK, OneInFlight, InFlight, On, InFlightOwned, LeaseOwned, Fenced
  <2>7. StrictOrder'
    BY <1>0, <1>14 DEF FetchHead, IsHead, LeaseInvariant, TypeOK, StrictOrder, HeadIsOurs, Terminal, LeaseOwned, Fenced
  <2>8. HaltedIsQuiescent'
    BY <1>0, <1>14 DEF FetchHead, IsHead, LeaseInvariant, TypeOK, HaltedIsQuiescent, InFlight, On, InFlightOwned, LeaseOwned, Fenced
  <2> QED
    BY <1>0, <2>1, <2>2, <2>3, <2>4, <2>5, <2>6, <2>7, <2>8 DEF LeaseInvariant
<1>15. ASSUME NEW w \in Workers, HeadNotReady(w) PROVE LeaseInvariant'
  <2>1. LeaseOwned'
    BY <1>15 DEF HeadNotReady, LeaseInvariant, TypeOK, LeaseOwned, Fenced
  <2>2. StaleIsReclaimable'
    BY <1>15 DEF HeadNotReady, LeaseInvariant, TypeOK, StaleIsReclaimable, LeaseOwned, Fenced
  <2>3. InFlightOwned'
    BY <1>15 DEF HeadNotReady, LeaseInvariant, TypeOK, InFlightOwned
  <2>4. HeadIsOurs'
    BY <1>15 DEF HeadNotReady, LeaseInvariant, TypeOK, HeadIsOurs, Fenced, Terminal
  <2>5. VisibleInOrder' /\ OneInFlight' /\ StrictOrder' /\ HaltedIsQuiescent'
    BY <1>15, TablesKept DEF HeadNotReady
  <2> QED
    BY <1>0, <2>1, <2>2, <2>3, <2>4, <2>5 DEF LeaseInvariant
<1>16. ASSUME NEW w \in Workers, ReleaseClaim(w) PROVE LeaseInvariant'
  <2>1. LeaseOwned'
    BY <1>0, <1>16 DEF ReleaseClaim, SetLease, LeaseInvariant, TypeOK, LeaseOwned, Fenced
  <2>2. StaleIsReclaimable'
    BY <1>0, <1>16 DEF ReleaseClaim, SetLease, LeaseInvariant, TypeOK, StaleIsReclaimable, LeaseOwned, Fenced
  <2>3. InFlightOwned'
    <3>1. pc[w] = "release" /\ lease[current[w]] = w
      BY <1>16 DEF ReleaseClaim, LeaseInvariant, LeaseOwned, Fenced
    <3>2. \A d \in Deliveries : state[d] = "in_flight" => EndpointOf[d] # current[w]
      BY <3>1 DEF LeaseInvariant, InFlightOwned
    <3>3. /\ lease' = [lease EXCEPT ![current[w]] = None]
          /\ \A v \in Workers : v # w => pc'[v] = pc[v] /\ reclaiming'[v] = reclaiming[v]
          /\ UNCHANGED <<state, head>>
      BY <1>16, <3>1 DEF ReleaseClaim, SetLease, LeaseInvariant, TypeOK
    <3>4. \A e \in Endpoints : e # current[w] => lease[e] # w
      BY DEF LeaseInvariant, LeaseOwned
    <3>5. ASSUME NEW d \in Deliveries, state'[d] = "in_flight"
          PROVE  lease'[EndpointOf[d]] = lease[EndpointOf[d]] /\ lease[EndpointOf[d]] \notin {w, None}
      BY <3>2, <3>3, <3>4, <3>5 DEF LeaseInvariant, TypeOK, InFlightOwned
    <3> QED
      BY <3>3, <3>5, InFlightKept DEF LeaseInvariant
  <2>4. HeadIsOurs'
    BY <1>0, <1>16 DEF ReleaseClaim, SetLease, LeaseInvariant, TypeOK, HeadIsOurs, LeaseOwned, InFlightOwned, Fenced, Terminal, On, InFlight
  <2>5. VisibleInOrder'
    BY <1>0, <1>16 DEF ReleaseClaim, SetLease, LeaseInvariant, TypeOK, VisibleInOrder
  <2>6. OneInFlight'
    BY <1>0, <1>16 DEF ReleaseClaim, SetLease, LeaseInvariant, TypeOK, OneInFlight, InFlight, On, InFlightOwned, LeaseOwned, Fenced
  <2>7. StrictOrder'
    BY <1>0, <1>16 DEF ReleaseClaim, SetLease, LeaseInvariant, TypeOK, StrictOrder, HeadIsOurs, Terminal, LeaseOwned, Fenced
  <2>8. HaltedIsQuiescent'
    BY <1>0, <1>16 DEF ReleaseClaim, SetLease, LeaseInvariant, TypeOK, HaltedIsQuiescent, InFlight, On, InFlightOwned, LeaseOwned, Fenced
  <2> QED
    BY <1>0, <2>1, <2>2, <2>3, <2>4, <2>5, <2>6, <2>7, <2>8 DEF LeaseInvariant
<1>17. ASSUME NEW w \in Workers, InsertAttempt(w) PROVE LeaseInvariant'
  <2>1. LeaseOwned'
    BY <1>17 DEF InsertAttempt, LeaseInvariant, TypeOK, LeaseOwned, Fenced
  <2>2. StaleIsReclaimable'
    BY <1>17 DEF InsertAttempt, LeaseInvariant, TypeOK, StaleIsReclaimable, LeaseOwned, Fenced
  <2>3. InFlightOwned'
    BY <1>17 DEF InsertAttempt, LeaseInvariant, TypeOK, InFlightOwned
  <2>4. HeadIsOurs'
    BY <1>17 DEF InsertAttempt, LeaseInvariant, TypeOK, HeadIsOurs, Fenced, Terminal
  <2>5. VisibleInOrder' /\ OneInFlight' /\ StrictOrder' /\ HaltedIsQuiescent'
    BY <1>17, TablesKept DEF InsertAttempt
  <2> QED
    BY <1>0, <2>1, <2>2, <2>3, <2>4, <2>5 DEF LeaseInvariant
<1>18. ASSUME NEW w \in Workers, MarkInFlight(w) PROVE LeaseInvariant'
  <2>1. LeaseOwned'
    BY <1>0, <1>18 DEF MarkInFlight, LeaseInvariant, TypeOK, LeaseOwned, Fenced
  <2>2. StaleIsReclaimable'
    BY <1>0, <1>18 DEF MarkInFlight, LeaseInvariant, TypeOK, StaleIsReclaimable, LeaseOwned, Fenced
  <2>3. InFlightOwned'
    BY <1>0, <1>18 DEF MarkInFlight, LeaseInvariant, TypeOK, InFlightOwned, LeaseOwned, StaleIsReclaimable, Fenced, On, InFlight
  <2>4. HeadIsOurs'
    BY <1>0, <1>18 DEF MarkInFlight, LeaseInvariant, TypeOK, HeadIsOurs, LeaseOwned, InFlightOwned, Fenced, Terminal, On, InFlight
  <2>5. VisibleInOrder'
    BY <1>0, <1>18 DEF MarkInFlight, LeaseInvariant, TypeOK, VisibleInOrder, HeadIsOurs
  <2>6. OneInFlight'
    <3>1. /\ head[w] \in Deliveries /\ EndpointOf[head[w]] = current[w]
          /\ lease[current[w]] = w /\ pc[w] = "mark"
      BY <1>18 DEF MarkInFlight, LeaseInvariant, TypeOK, LeaseOwned, Fenced
    <3>2. \A d \in Deliveries : state[d] = "in_flight" => EndpointOf[d] # current[w]
      BY <3>1 DEF LeaseInvariant, InFlightOwned
    <3>3. \A d \in Deliveries : state'[d] = "in_flight" => d = head[w] \/ state[d] = "in_flight"
      BY <1>18 DEF MarkInFlight, LeaseInvariant, TypeOK
    <3>4. ASSUME NEW e \in Endpoints, NEW d1 \in Deliveries, NEW d2 \in Deliveries,
                 EndpointOf[d1] = e, EndpointOf[d2] = e,
                 state'[d1] = "in_flight", state'[d2] = "in_flight"
          PROVE  d1 = d2
      <4>1. CASE e = current[w]
        BY <3>2, <3>3, <3>4, <4>1
      <4>2. CASE e # current[w]
        <5>1. state[d1] = "in_flight" /\ state[d2] = "in_flight"
          BY <3>1, <3>3, <3>4, <4>2
        <5> QED
          BY <3>4, <5>1 DEF LeaseInvariant, OneInFlight, InFlight, On
      <4> QED
        BY <4>1, <4>2
    <3> QED
      BY <3>4 DEF OneInFlight, InFlight, On
  <2>7. StrictOrder'
    BY <1>0, <1>18 DEF MarkInFlight, LeaseInvariant, TypeOK, StrictOrder, HeadIsOurs, Terminal, LeaseOwned, Fenced
  <2>8. HaltedIsQuiescent'
    BY <1>0, <1>18 DEF MarkInFlight, LeaseInvariant, TypeOK, HaltedIsQuiescent, InFlight, On, InFlightOwned, LeaseOwned, Fenced
  <2> QED
    BY <1>0, <2>1, <2>2, <2>3, <2>4, <2>5, <2>6, <2>7, <2>8 DEF LeaseInvariant
<1>19. ASSUME NEW w \in Workers, Send(w) PROVE LeaseInvariant'
  <2>1. LeaseOwned'
    BY <1>19 DEF Send, LeaseInvariant, TypeOK, LeaseOwned, Fenced
  <2>2. StaleIsReclaimable'
    BY <1>19 DEF Send, LeaseInvariant, TypeOK, StaleIsReclaimable, LeaseOwned, Fenced
  <2>3. InFlightOwned'
    BY <1>19 DEF Send, LeaseInvariant, TypeOK, InFlightOwned
  <2>4. HeadIsOurs'
    BY <1>19 DEF Send, LeaseInvariant, TypeOK, HeadIsOurs, Fenced, Terminal
  <2>5. VisibleInOrder' /\ OneInFlight' /\ StrictOrder' /\ HaltedIsQuiescent'
    BY <1>19, TablesKept DEF Send
  <2> QED
    BY <1>0, <2>1, <2>2, <2>3, <2>4, <2>5 DEF LeaseInvariant
<1>20. ASSUME NEW w \in Workers, CompleteSucceeded(w) PROVE LeaseInvariant'
  <2>1. LeaseOwned'
    BY <1>0, <1>20 DEF CompleteSucceeded, WriteBack, EndCycle, SetLease, LeaseInvariant, TypeOK, LeaseOwned, Fenced
  <2>2. StaleIsReclaimable'
    BY <1>0, <1>20 DEF CompleteSucceeded, WriteBack, EndCycle, SetLease, LeaseInvariant, TypeOK, StaleIsReclaimable, LeaseOwned, Fenced
  <2>3. InFlightOwned'
    BY <1>20, WriteBackFrees DEF CompleteSucceeded
  <2>4. HeadIsOurs'
    BY <1>0, <1>20 DEF CompleteSucceeded, WriteBack, EndCycle, SetLease, LeaseInvariant, TypeOK, HeadIsOurs, LeaseOwned, InFlightOwned, Fenced, Terminal, On, InFlight
  <2>5. VisibleInOrder'
    BY <1>0, <1>20 DEF CompleteSucceeded, LeaseInvariant, TypeOK, VisibleInOrder, HeadIsOurs
  <2>6. OneInFlight'
    BY <1>0, <1>20 DEF CompleteSucceeded, WriteBack, EndCycle, SetLease, LeaseInvariant, TypeOK, OneInFlight, InFlight, On, InFlightOwned, LeaseOwned, Fenced
  <2>7. StrictOrder'
    BY <1>0, <1>20 DEF CompleteSucceeded, WriteBack, EndCycle, SetLease, LeaseInvariant, TypeOK, StrictOrder, HeadIsOurs, Terminal, LeaseOwned, Fenced
  <2>8. HaltedIsQuiescent'
    BY <1>0, <1>20 DEF CompleteSucceeded, WriteBack, EndCycle, SetLease, LeaseInvariant, TypeOK, HaltedIsQuiescent, InFlight, On, InFlightOwned, LeaseOwned, Fenced
  <2> QED
    BY <1>0, <2>1, <2>2, <2>3, <2>4, <2>5, <2>6, <2>7, <2>8 DEF LeaseInvariant
<1>21. ASSUME NEW w \in Workers, CompleteHalted(w) PROVE LeaseInvariant'
  <2>1. LeaseOwned'
    BY <1>0, <1>21 DEF CompleteHalted, WriteBack, EndCycle, SetLease, LeaseInvariant, TypeOK, LeaseOwned, Fenced
  <2>2. StaleIsReclaimable'
    BY <1>0, <1>21 DEF CompleteHalted, WriteBack, EndCycle, SetLease, LeaseInvariant, TypeOK, StaleIsReclaimable, LeaseOwned, Fenced
  <2>3. InFlightOwned'
    BY <1>21, WriteBackFrees DEF CompleteHalted
  <2>4. HeadIsOurs'
    BY <1>0, <1>21 DEF CompleteHalted, WriteBack, EndCycle, SetLease, LeaseInvariant, TypeOK, HeadIsOurs, LeaseOwned, InFlightOwned, Fenced, Terminal, On, InFlight
  <2>5. VisibleInOrder'
    BY <1>0, <1>21 DEF CompleteHalted, LeaseInvariant, TypeOK, VisibleInOrder, HeadIsOurs
  <2>6. OneInFlight'
    BY <1>0, <1>21 DEF CompleteHalted, WriteBack, EndCycle, SetLease, LeaseInvariant, TypeOK, OneInFlight, InFlight, On, InFlightOwned, LeaseOwned, Fenced
  <2>7. StrictOrder'
    BY <1>0, <1>21 DEF CompleteHalted, WriteBack, EndCycle, SetLease, LeaseInvariant, TypeOK, StrictOrder, HeadIsOurs, Terminal, LeaseOwned, Fenced
  <2>8. HaltedIsQuiescent'
    <3>1. /\ \A d \in Deliveries : state'[d] = "in_flight" =>
               state[d] = "in_flight" /\ EndpointOf[d] # current[w]
      BY <1>21, WriteBackFrees DEF CompleteHalted
    <3>2. lease' = [lease EXCEPT ![current[w]] = None] /\ status' = [status EXCEPT ![current[w]] = "halted"]
      BY <1>21 DEF CompleteHalted, WriteBack, SetLease
    <3>3. ASSUME NEW e \in Endpoints, status'[e] = "halted"
          PROVE  lease'[e] = None /\ InFlight(e)' = {}
      <4>1. CASE e = current[w]
        BY <3>1, <3>2, <4>1 DEF LeaseInvariant, TypeOK, InFlight, On
      <4>2. CASE e # current[w]
        <5>1. status[e] = "halted" /\ lease'[e] = lease[e]
          BY <3>2, <3>3, <4>2 DEF LeaseInvariant, TypeOK
        <5> QED
          BY <3>1, <5>1 DEF LeaseInvariant, HaltedIsQuiescent, InFlight, On
      <4> QED
        BY <4>1, <4>2
    <3> QED
      BY <3>3 DEF HaltedIsQuiescent
  <2> QED
    BY <1>0, <2>1, <2>2, <2>3, <2>4, <2>5, <2>6, <2>7, <2>8 DEF LeaseInvariant
<1>22. ASSUME NEW w \in Workers, CompleteRetrying(w) PROVE LeaseInvariant'
  <2>1. LeaseOwned'
    BY <1>0, <1>22 DEF CompleteRetrying, WriteBack, EndCycle, SetLease, LeaseInvariant, TypeOK, LeaseOwned, Fenced
  <2>2. StaleIsReclaimable'
    BY <1>0, <1>22 DEF CompleteRetrying, WriteBack, EndCycle, SetLease, LeaseInvariant, TypeOK, StaleIsReclaimable, LeaseOwned, Fenced
  <2>3. InFlightOwned'
    BY <1>22, WriteBackFrees DEF CompleteRetrying
  <2>4. HeadIsOurs'
    BY <1>0, <1>22 DEF CompleteRetrying, WriteBack, EndCycle, SetLease, LeaseInvariant, TypeOK, HeadIsOurs, LeaseOwned, InFlightOwned, Fenced, Terminal, On, InFlight
  <2>5. VisibleInOrder'
    BY <1>0, <1>22 DEF CompleteRetrying, LeaseInvariant, TypeOK, VisibleInOrder, HeadIsOurs
  <2>6. OneInFlight'
    BY <1>0, <1>22 DEF CompleteRetrying, WriteBack, EndCycle, SetLease, LeaseInvariant, TypeOK, OneInFlight, InFlight, On, InFlightOwned, LeaseOwned, Fenced
  <2>7. StrictOrder'
    BY <1>0, <1>22 DEF CompleteRetrying, WriteBack, EndCycle, SetLease, LeaseInvariant, TypeOK, StrictOrder, HeadIsOurs, Terminal, LeaseOwned, Fenced
  <2>8. HaltedIsQuiescent'
    BY <1>0, <1>22 DEF CompleteRetrying, WriteBack, EndCycle, SetLease, LeaseInvariant, TypeOK, HaltedIsQuiescent, InFlight, On, InFlightOwned, LeaseOwned, Fenced
  <2> QED
    BY <1>0, <2>1, <2>2, <2>3, <2>4, <2>5, <2>6, <2>7, <2>8 DEF LeaseInvariant
<1>23. ASSUME NEW w \in Workers, LeaseLost(w) PROVE LeaseInvariant'
  <2>1. LeaseOwned'
    BY <1>23 DEF LeaseLost, EndCycle, LeaseInvariant, TypeOK, LeaseOwned, Fenced
  <2>2. StaleIsReclaimable'
    BY <1>23 DEF LeaseLost, EndCycle, LeaseInvariant, TypeOK, StaleIsReclaimable, LeaseOwned, Fenced
  <2>3. InFlightOwned'
    <3>1. \A e \in Endpoints : lease[e] # w
      BY <1>23 DEF LeaseLost, Fenced, LeaseInvariant, LeaseOwned
    <3>2. \A v \in Workers : v # w => pc'[v] = pc[v] /\ head'[v] = head[v] /\ reclaiming'[v] = reclaiming[v]
      BY <1>23 DEF LeaseLost, EndCycle, LeaseInvariant, TypeOK
    <3>3. UNCHANGED <<state, lease>>
      BY <1>23 DEF LeaseLost
    <3>4. \A d \in Deliveries : EndpointOf[d] \in Endpoints
      OBVIOUS
    <3>5. \A d \in Deliveries : state[d] = "in_flight" => lease[EndpointOf[d]] # None
      BY DEF LeaseInvariant, InFlightOwned
    <3> QED
      BY <3>1, <3>2, <3>3, <3>4, <3>5, InFlightKept DEF LeaseInvariant
  <2>4. HeadIsOurs'
    BY <1>23 DEF LeaseLost, EndCycle, LeaseInvariant, TypeOK, HeadIsOurs, Fenced, Terminal
  <2>5. VisibleInOrder' /\ OneInFlight' /\ StrictOrder' /\ HaltedIsQuiescent'
    BY <1>23, TablesKept DEF LeaseLost
  <2> QED
    BY <1>0, <2>1, <2>2, <2>3, <2>4, <2>5 DEF LeaseInvariant
<1>24. ASSUME NEW w \in Workers, Abort(w) PROVE LeaseInvariant'
  <2>1. LeaseOwned'
    BY <1>0, <1>24 DEF Abort, Die, EndCycle, LeaseInvariant, TypeOK, LeaseOwned, Fenced
  <2>2. StaleIsReclaimable'
    BY <1>0, <1>24 DEF Abort, Die, EndCycle, LeaseInvariant, TypeOK, StaleIsReclaimable, LeaseOwned, Fenced
  <2>3. InFlightOwned'
    BY <1>24, DieKeepsOwned DEF Abort
  <2>4. HeadIsOurs'
    BY <1>0, <1>24 DEF Abort, Die, EndCycle, LeaseInvariant, TypeOK, HeadIsOurs, LeaseOwned, InFlightOwned, Fenced, Terminal, On, InFlight
  <2>5. VisibleInOrder'
    BY <1>0, <1>24 DEF Abort, Die, EndCycle, LeaseInvariant, TypeOK, VisibleInOrder
  <2>6. OneInFlight'
    BY <1>0, <1>24 DEF Abort, Die, EndCycle, LeaseInvariant, TypeOK, OneInFlight, InFlight, On, InFlightOwned, LeaseOwned, Fenced
  <2>7. StrictOrder'
    BY <1>0, <1>24 DEF Abort, Die, EndCycle, LeaseInvariant, TypeOK, StrictOrder, HeadIsOurs, Terminal, LeaseOwned, Fenced
  <2>8. HaltedIsQuiescent'
    BY <1>0, <1>24 DEF Abort, Die, EndCycle, LeaseInvariant, TypeOK, HaltedIsQuiescent, InFlight, On, InFlightOwned, LeaseOwned, Fenced
  <2> QED
    BY <1>0, <2>1, <2>2, <2>3, <2>4, <2>5, <2>6, <2>7, <2>8 DEF LeaseInvariant
<1>25. CASE UNCHANGED vars
  <2>1. LeaseOwned'
    BY <1>25 DEF vars, LeaseInvariant, TypeOK, LeaseOwned, Fenced
  <2>2. StaleIsReclaimable'
    BY <1>25 DEF vars, LeaseInvariant, TypeOK, StaleIsReclaimable, LeaseOwned, Fenced
  <2>3. InFlightOwned'
    BY <1>25 DEF vars, LeaseInvariant, TypeOK, InFlightOwned
  <2>4. HeadIsOurs'
    BY <1>25 DEF vars, LeaseInvariant, TypeOK, HeadIsOurs, Fenced, Terminal
  <2>5. VisibleInOrder' /\ OneInFlight' /\ StrictOrder' /\ HaltedIsQuiescent'
    BY <1>25, TablesKept DEF vars
  <2> QED
    BY <1>0, <2>1, <2>2, <2>3, <2>4, <2>5 DEF LeaseInvariant
<1> QED
  BY <1>1, <1>2, <1>3, <1>4, <1>5, <1>6, <1>7, <1>8, <1>9, <1>10, <1>11, <1>12, <1>13, <1>14, <1>15, <1>16, <1>17, <1>18, <1>19, <1>20, <1>21, <1>22, <1>23, <1>24, <1>25
  DEF Next, RunDeliveryCycle, TryClaim, Complete, Environment

(* The fresh start satisfies the invariant: nothing is leased or in flight. *)
LEMMA LeaseInit == Init => LeaseInvariant
<1> SUFFICES ASSUME Init PROVE LeaseInvariant
  OBVIOUS
<1>1. TypeOK
  BY TypeInit
<1> QED
  BY <1>1, WorkersAssumption, DeliveriesAssumption
  DEF Init, LeaseInvariant, LeaseOwned, StaleIsReclaimable, InFlightOwned, HeadIsOurs,
      VisibleInOrder, OneInFlight, StrictOrder, HaltedIsQuiescent, InFlight, On,
      Claiming, Sending

-----------------------------------------------------------------------------

(* The tables and the workers' locals keep their types and every statement  *)
(* finds what it uses, stalls included.                                     *)
THEOREM TypeCorrect == Spec => []TypeOK
  BY TypeInit, TypeNext, PTL DEF Spec

(* The lease discipline of tryClaimEndpoint and completeDelivery is an      *)
(* invariant as long as no lease lapses under a worker still claiming.      *)
THEOREM LeaseCorrect ==
    ASSUME ~ClaimStall PROVE Spec => []LeaseInvariant
<1>1. LeaseInvariant /\ [Next]_vars => LeaseInvariant'
  BY LeaseNext
<1> QED
  BY <1>1, LeaseInit, PTL DEF Spec

(* No endpoint ever has two deliveries in flight, with any number of        *)
(* workers, crashes, stalled HTTP calls, pauses and resumes.                *)
THEOREM OneInFlightCorrect ==
    ASSUME ~ClaimStall PROVE Spec => []OneInFlight
<1>1. LeaseInvariant => OneInFlight
  BY DEF LeaseInvariant
<1> QED
  BY <1>1, LeaseCorrect, PTL

(* A delivery is attempted only after all earlier ones of its stream ended. *)
THEOREM StrictOrderCorrect ==
    ASSUME ~ClaimStall PROVE Spec => []StrictOrder
<1>1. LeaseInvariant => StrictOrder
  BY DEF LeaseInvariant
<1> QED
  BY <1>1, LeaseCorrect, PTL

(* A halted endpoint is owned by nobody and has nothing in flight.          *)
THEOREM HaltedIsQuiescentCorrect ==
    ASSUME ~ClaimStall PROVE Spec => []HaltedIsQuiescent
<1>1. LeaseInvariant => HaltedIsQuiescent
  BY DEF LeaseInvariant
<1> QED
  BY <1>1, LeaseCorrect, PTL

(* A step changes the state of a delivery only if it is not terminal.       *)
LEMMA TerminalStep ==
    ASSUME LeaseInvariant, [Next]_vars, NEW d \in Deliveries, Terminal(d)
    PROVE  state'[d] = state[d]
<1> USE DEF endpointVars, deliveryVars, Claiming, Sending, Terminal
<1>1. ASSUME NEW b \in Batches, Enqueue(b) PROVE state'[d] = state[d]
  BY <1>1 DEF Enqueue, LeaseInvariant, TypeOK
<1>2. ASSUME NEW w \in Workers, RequeueOrphan(w) PROVE state'[d] = state[d]
  BY <1>2 DEF RequeueOrphan, InFlight, On, LeaseInvariant, TypeOK
<1>3. ASSUME NEW w \in Workers, MarkInFlight(w) PROVE state'[d] = state[d]
  BY <1>3 DEF MarkInFlight, LeaseInvariant, TypeOK, HeadIsOurs
<1>4. ASSUME NEW w \in Workers, CompleteSucceeded(w) PROVE state'[d] = state[d]
  BY <1>4 DEF CompleteSucceeded, LeaseInvariant, TypeOK, HeadIsOurs
<1>5. ASSUME NEW w \in Workers, CompleteHalted(w) PROVE state'[d] = state[d]
  BY <1>5 DEF CompleteHalted, LeaseInvariant, TypeOK, HeadIsOurs
<1>6. ASSUME NEW w \in Workers, CompleteRetrying(w) PROVE state'[d] = state[d]
  BY <1>6 DEF CompleteRetrying, LeaseInvariant, TypeOK, HeadIsOurs
<1>7. CASE UNCHANGED state
  BY <1>7
<1>8. ASSUME NEW w \in Workers, RunDeliveryCycle(w) PROVE state'[d] = state[d]
  <2>1. ASSUME \/ SelectCandidates(w) \/ ClaimEndpoint(w) \/ LoseRace(w) \/ TouchTenant(w)
               \/ CloseOrphanedAttempt(w) \/ CloseOrphanedAttemptFails(w) \/ FetchHead(w)
               \/ HeadNotReady(w) \/ ReleaseClaim(w) \/ InsertAttempt(w) \/ Send(w)
               \/ LeaseLost(w)
        PROVE  UNCHANGED state
    BY <2>1 DEF SelectCandidates, ClaimEndpoint, LoseRace, TouchTenant, CloseOrphanedAttempt,
                CloseOrphanedAttemptFails, Die, FetchHead, HeadNotReady, ReleaseClaim,
                InsertAttempt, Send, LeaseLost
  <2> QED
    BY <1>2, <1>3, <1>4, <1>5, <1>6, <1>7, <1>8, <2>1 DEF RunDeliveryCycle, TryClaim, Complete
<1>9. CASE Environment
  BY <1>1, <1>9 DEF Environment, Pause, Resume, OrphanLapses, HolderLapses, Cooled, Abort, Die
<1>10. CASE UNCHANGED vars
  BY <1>10 DEF vars
<1> QED
  BY <1>8, <1>9, <1>10 DEF Next

(* Succeeded and failed have no exit.                                       *)
THEOREM TerminalIsFinalCorrect ==
    ASSUME ~ClaimStall PROVE Spec => TerminalIsFinal
<1>1. LeaseInvariant /\ [Next]_vars
        => [\A d \in Deliveries : Terminal(d) => state'[d] = state[d]]_vars
  BY TerminalStep
<1> QED
  BY <1>1, LeaseCorrect, PTL DEF Spec, TerminalIsFinal

=============================================================================
