------------------------- MODULE DeliveryHistoryProofs -------------------------
(***************************************************************************)
(* Proofs about the attempts DeliveryWorker records: what stalls cannot    *)
(* undo (AnswerInvariant, for any schedule) and how the rows agree with    *)
(* the deliveries' states (HistoryInvariant, for claims within the lease). *)
(***************************************************************************)
EXTENDS DeliveryWorkerProofs

(* The inductive invariants, AnswerInvariant and HistoryInvariant.          *)

(* The attempts row a worker has inserted is its own until it writes the    *)
(* outcome: no other worker writes there, and nobody has answered in it.    *)
RowIsOurs ==
    \A w \in Workers : pc[w] \in {"mark"} \cup Sending =>
        /\ attempts[head[w]][attempt[w]].outcome \in {"open", "worker_lease_expired"}
        /\ \A v \in Workers :
              v # w /\ pc[v] \in {"mark"} \cup Sending /\ head[v] = head[w]
                  => attempt[v] # attempt[w]

(* What holds of the attempts whatever stalls.                              *)
AnswerInvariant ==
    /\ TypeOK
    /\ RowIsOurs
    /\ SucceededIsWitnessed

(* Nothing was attempted between the fetch and the mark, and the attempt    *)
(* the lease's holder sends is the delivery's last, still open, and counted.*)
AttemptIsLast ==
    \A w \in Workers :
        /\ pc[w] \in {"insert", "mark"} => number[w] = attemptCount[head[w]] + 1
        /\ pc[w] = "mark" \/ (pc[w] \in Sending /\ Fenced(w)) =>
              /\ attempt[w] = Len(attempts[head[w]])
              /\ attempts[head[w]][attempt[w]].number = number[w]
              /\ attempts[head[w]][attempt[w]].outcome = "open"
        /\ pc[w] \in Sending /\ Fenced(w) => number[w] = attemptCount[head[w]]

(* An orphan is put back only after its attempt is closed.                  *)
ClosedBeforeRequeue ==
    \A w \in Workers : pc[w] = "requeue" =>
        \A d \in InFlight(current[w]) : \A i \in DOMAIN attempts[d] :
            attempts[d][i].outcome # "open"

(* Leases and attempts together, again for claims within their lease.       *)
HistoryInvariant ==
    /\ LeaseInvariant
    /\ RowIsOurs
    /\ AttemptIsLast
    /\ ClosedBeforeRequeue
    /\ HistoryAgrees
    /\ FailedAtCeiling

-----------------------------------------------------------------------------

(* The rows after an orphaned attempt is closed, one by one.                *)
LEMMA ClosedRows ==
    ASSUME TypeOK, NEW w \in Workers, CloseOrphanedAttempt(w), NEW d \in Deliveries
    PROVE  /\ DOMAIN attempts'[d] = DOMAIN attempts[d]
           /\ \A i \in DOMAIN attempts[d] :
                 IF d \in InFlight(current[w]) /\ Unanswered(attempts[d][i])
                 THEN attempts'[d][i].outcome = "worker_lease_expired"
                 ELSE attempts'[d][i] = attempts[d][i]
<1>1. attempts[d] \in Seq(Attempt)
  BY DEF TypeOK
<1>2. DOMAIN attempts[d] = 1 .. Len(attempts[d])
  BY <1>1
<1>3. attempts'[d] =
        [i \in 1 .. Len(attempts[d]) |->
           IF d \in InFlight(current[w]) /\ Unanswered(attempts[d][i])
           THEN [attempts[d][i] EXCEPT !.outcome = "worker_lease_expired"]
           ELSE attempts[d][i]]
  BY DEF CloseOrphanedAttempt
<1>4. ASSUME NEW i \in DOMAIN attempts[d]
      PROVE  [attempts[d][i] EXCEPT !.outcome = "worker_lease_expired"].outcome = "worker_lease_expired"
  <2>1. attempts[d][i] \in Attempt
    BY <1>1
  <2> QED
    BY <2>1 DEF Attempt
<1> QED
  BY <1>2, <1>3, <1>4

(* The rows after an attempt is inserted: those before it and the new one.  *)
LEMMA InsertedRows ==
    ASSUME TypeOK, NEW w \in Workers, InsertAttempt(w)
    PROVE  /\ head[w] \in Deliveries
           /\ \A d \in Deliveries : d # head[w] => attempts'[d] = attempts[d]
           /\ \A d \in Deliveries : \A i \in DOMAIN attempts[d] :
                 i \in DOMAIN attempts'[d] /\ attempts'[d][i] = attempts[d][i]
           /\ attempt'[w] = Len(attempts[head[w]]) + 1
           /\ attempt'[w] = Len(attempts'[head[w]])
           /\ DOMAIN attempts'[head[w]] = DOMAIN attempts[head[w]] \cup {attempt'[w]}
           /\ attempts'[head[w]][attempt'[w]].number = number[w]
           /\ attempts'[head[w]][attempt'[w]].outcome = "open"
<1> DEFINE row == [number |-> number[w], outcome |-> "open"]
           h   == head[w]
           n   == Len(attempts[h])
<1>1. h \in Deliveries
  BY DEF TypeOK, InsertAttempt
<1>2. attempts \in [Deliveries -> Seq(Attempt)] /\ attempts[h] \in Seq(Attempt)
  BY <1>1 DEF TypeOK
<1>3. /\ attempts' = [attempts EXCEPT ![h] = Append(attempts[h], row)]
      /\ attempt'[w] = n + 1
  BY DEF InsertAttempt, TypeOK
<1>4. row \in Attempt /\ row.number = number[w] /\ row.outcome = "open"
  BY DEF TypeOK, Attempt
<1> HIDE DEF row, h
<1>5. \A d \in Deliveries : attempts'[d] = IF d = h THEN Append(attempts[h], row) ELSE attempts[d]
  BY <1>1, <1>2, <1>3
<1>6. /\ Len(Append(attempts[h], row)) = n + 1
      /\ Append(attempts[h], row)[n + 1] = row
      /\ DOMAIN Append(attempts[h], row) = 1 .. n + 1
      /\ DOMAIN attempts[h] = 1 .. n /\ n \in Nat
      /\ \A i \in 1 .. n : Append(attempts[h], row)[i] = attempts[h][i]
  BY <1>2, <1>4
<1>7. attempts'[h] = Append(attempts[h], row)
  BY <1>1, <1>5
<1>8. DOMAIN attempts'[h] = DOMAIN attempts[h] \cup {attempt'[w]}
  BY <1>3, <1>6, <1>7
<1>9. ASSUME NEW d \in Deliveries, NEW i \in DOMAIN attempts[d]
      PROVE  i \in DOMAIN attempts'[d] /\ attempts'[d][i] = attempts[d][i]
  <2>1. CASE d = h
    BY <1>6, <1>7, <1>8, <2>1
  <2>2. CASE d # h
    BY <1>5, <2>2
  <2> QED
    BY <2>1, <2>2
<1>10. /\ attempt'[w] = Len(attempts'[h])
       /\ attempts'[h][attempt'[w]] = row
  BY <1>3, <1>6, <1>7
<1> QED
  BY <1>1, <1>3, <1>4, <1>5, <1>8, <1>9, <1>10 DEF h

(* The rows after a write-back: one outcome has changed.                    *)
LEMMA WrittenRows ==
    ASSUME TypeOK, NEW w \in Workers, pc[w] = "complete", WriteBack(w)
    PROVE  /\ head[w] \in Deliveries /\ attempt[w] \in DOMAIN attempts[head[w]]
           /\ \A d \in Deliveries :
                 /\ DOMAIN attempts'[d] = DOMAIN attempts[d]
                 /\ d # head[w] => attempts'[d] = attempts[d]
                 /\ \A i \in DOMAIN attempts[d] :
                       d # head[w] \/ i # attempt[w] => attempts'[d][i] = attempts[d][i]
           /\ attempts'[head[w]][attempt[w]].outcome = result[w]
           /\ attempts'[head[w]][attempt[w]].number = attempts[head[w]][attempt[w]].number
<1> DEFINE h   == head[w]
           a   == attempt[w]
           row == [attempts[h][a] EXCEPT !.outcome = result[w]]
<1>1. h \in Deliveries /\ a \in 1 .. Len(attempts[h])
  BY DEF TypeOK, Sending
<1>2. attempts \in [Deliveries -> Seq(Attempt)] /\ attempts[h] \in Seq(Attempt)
  BY <1>1 DEF TypeOK
<1>3. attempts' = [attempts EXCEPT ![h] = [attempts[h] EXCEPT ![a] = row]]
  BY <1>1, <1>2 DEF WriteBack
<1>4. DOMAIN attempts[h] = 1 .. Len(attempts[h])
  BY <1>2
<1>7. row.outcome = result[w] /\ row.number = attempts[h][a].number
  <2>1. attempts[h][a] \in Attempt
    BY <1>1, <1>2
  <2> QED
    BY <2>1 DEF Attempt
<1> HIDE DEF row, h, a
<1>5. \A d \in Deliveries : attempts'[d] = IF d = h THEN [attempts[h] EXCEPT ![a] = row] ELSE attempts[d]
  BY <1>1, <1>2, <1>3
<1>6. ASSUME NEW d \in Deliveries
      PROVE  /\ DOMAIN attempts'[d] = DOMAIN attempts[d]
             /\ \A i \in DOMAIN attempts[d] :
                   attempts'[d][i] = IF d = h /\ i = a THEN row ELSE attempts[d][i]
  <2>1. CASE d = h
    <3>1. attempts'[h] = [attempts[h] EXCEPT ![a] = row]
      BY <1>1, <1>5
    <3>2. DOMAIN [attempts[h] EXCEPT ![a] = row] = DOMAIN attempts[h]
      OBVIOUS
    <3>3. \A i \in DOMAIN attempts[h] :
             [attempts[h] EXCEPT ![a] = row][i] = IF i = a THEN row ELSE attempts[h][i]
      OBVIOUS
    <3> QED
      BY <2>1, <3>1, <3>2, <3>3
  <2>2. CASE d # h
    BY <1>5, <2>2
  <2> QED
    BY <2>1, <2>2
<1> QED
  BY <1>1, <1>4, <1>5, <1>6, <1>7 DEF h, a

(* Which statements write the attempts table.                               *)
LEMMA WritesAttempts ==
    ASSUME [Next]_vars
    PROVE  \/ UNCHANGED attempts
           \/ \E w \in Workers :
                 \/ CloseOrphanedAttempt(w)
                 \/ InsertAttempt(w)
                 \/ CompleteSucceeded(w) \/ CompleteHalted(w) \/ CompleteRetrying(w)
<1>1. ASSUME Environment PROVE UNCHANGED attempts
  BY <1>1 DEF Environment, Enqueue, Pause, Resume, OrphanLapses, HolderLapses, Cooled, Abort, Die
<1>2. ASSUME NEW w \in Workers,
             \/ SelectCandidates(w) \/ ClaimEndpoint(w) \/ LoseRace(w) \/ TouchTenant(w)
             \/ CloseOrphanedAttemptFails(w) \/ RequeueOrphan(w) \/ FetchHead(w)
             \/ HeadNotReady(w) \/ ReleaseClaim(w) \/ MarkInFlight(w) \/ Send(w) \/ LeaseLost(w)
      PROVE  UNCHANGED attempts
  BY <1>2 DEF SelectCandidates, ClaimEndpoint, LoseRace, TouchTenant, CloseOrphanedAttemptFails,
              Die, RequeueOrphan, FetchHead, HeadNotReady, ReleaseClaim, MarkInFlight, Send, LeaseLost
<1>3. CASE UNCHANGED vars
  BY <1>3 DEF vars
<1> QED
  BY <1>1, <1>2, <1>3 DEF Next, RunDeliveryCycle, TryClaim, Complete

(* Rows are never removed, and one that holds an answer is never rewritten. *)
LEMMA AnsweredRowStays ==
    ASSUME AnswerInvariant, [Next]_vars, NEW d \in Deliveries, NEW i \in DOMAIN attempts[d]
    PROVE  /\ i \in DOMAIN attempts'[d]
           /\ attempts[d][i].outcome \in {"2xx", "failed"} => attempts'[d][i] = attempts[d][i]
<1>0. TypeOK
  BY DEF AnswerInvariant
<1>1. CASE UNCHANGED attempts
  BY <1>1
<1>2. ASSUME NEW w \in Workers, CloseOrphanedAttempt(w)
      PROVE  /\ i \in DOMAIN attempts'[d]
             /\ attempts[d][i].outcome \in {"2xx", "failed"} => attempts'[d][i] = attempts[d][i]
  BY <1>0, <1>2, ClosedRows DEF Unanswered
<1>3. ASSUME NEW w \in Workers, InsertAttempt(w)
      PROVE  i \in DOMAIN attempts'[d] /\ attempts'[d][i] = attempts[d][i]
  BY <1>0, <1>3, InsertedRows
<1>4. ASSUME NEW w \in Workers, pc[w] = "complete", WriteBack(w)
      PROVE  /\ i \in DOMAIN attempts'[d]
             /\ attempts[d][i].outcome \in {"2xx", "failed"} => attempts'[d][i] = attempts[d][i]
  <2>1. attempts[head[w]][attempt[w]].outcome \in {"open", "worker_lease_expired"}
    BY <1>4 DEF AnswerInvariant, RowIsOurs, Sending
  <2> QED
    BY <1>0, <1>4, <2>1, WrittenRows
<1> QED
  BY <1>1, <1>2, <1>3, <1>4, WritesAttempts DEF CompleteSucceeded, CompleteHalted, CompleteRetrying

(* A step that leaves a worker's head and row alone, or ends its cycle, and *)
(* does not answer in it, keeps the row the worker's own.                   *)
LEMMA RowKept ==
    ASSUME RowIsOurs,
           \A v \in Workers : pc'[v] \in {"mark"} \cup Sending =>
              /\ pc[v] \in {"mark"} \cup Sending /\ head'[v] = head[v] /\ attempt'[v] = attempt[v]
              /\ attempts'[head[v]][attempt[v]].outcome \in {"open", "worker_lease_expired"}
    PROVE  RowIsOurs'
  BY DEF RowIsOurs

(* Every step keeps each worker's row its own, whatever stalls.             *)
LEMMA RowNext ==
    ASSUME AnswerInvariant, [Next]_vars PROVE RowIsOurs'
<1>0. TypeOK /\ RowIsOurs /\ TypeOK'
  BY TypeNext DEF AnswerInvariant
<1> USE DEF Sending, sendVars
<1>1. CASE UNCHANGED <<attempts, pc, head, attempt>>
  BY <1>0, <1>1 DEF RowIsOurs
<1>2. ASSUME UNCHANGED <<attempts, head, attempt>>,
             \A v \in Workers : pc'[v] \in {"mark"} \cup Sending => pc[v] \in {"mark"} \cup Sending
      PROVE  RowIsOurs'
  BY <1>0, <1>2, RowKept DEF RowIsOurs
<1>3. ASSUME NEW w \in Workers,
             \/ SelectCandidates(w) \/ ClaimEndpoint(w) \/ LoseRace(w) \/ TouchTenant(w)
             \/ RequeueOrphan(w) \/ HeadNotReady(w) \/ ReleaseClaim(w)
             \/ MarkInFlight(w) \/ Send(w)
      PROVE  RowIsOurs'
  <2>1. UNCHANGED <<attempts, head, attempt>>
    BY <1>3 DEF SelectCandidates, ClaimEndpoint, LoseRace, TouchTenant, RequeueOrphan,
                HeadNotReady, ReleaseClaim, MarkInFlight, Send
  <2>2. ASSUME NEW v \in Workers, pc'[v] \in {"mark"} \cup Sending
        PROVE  pc[v] \in {"mark"} \cup Sending
    <3>1. CASE v # w
      <4>1. pc'[v] = pc[v]
        BY <1>0, <1>3, <3>1 DEF TypeOK, SelectCandidates, ClaimEndpoint, LoseRace, TouchTenant,
                RequeueOrphan, HeadNotReady, ReleaseClaim, MarkInFlight, Send
      <4> QED
        BY <2>2, <4>1
    <3>2. CASE v = w
      BY <1>0, <1>3, <2>2, <3>2 DEF TypeOK, SelectCandidates, ClaimEndpoint, LoseRace, TouchTenant,
                RequeueOrphan, HeadNotReady, ReleaseClaim, MarkInFlight, Send
    <3> QED
      BY <3>1, <3>2
  <2> QED
    BY <1>2, <2>1, <2>2
<1>4. ASSUME NEW w \in Workers, EndCycle(w),
             \A v \in Workers : v # w /\ pc[v] \in {"mark"} \cup Sending =>
                attempts'[head[v]][attempt[v]] = attempts[head[v]][attempt[v]]
      PROVE  RowIsOurs'
  <2>1. ASSUME NEW v \in Workers, pc'[v] \in {"mark"} \cup Sending
        PROVE  /\ v # w /\ pc[v] \in {"mark"} \cup Sending
               /\ head'[v] = head[v] /\ attempt'[v] = attempt[v]
    <3>1. v # w
      BY <1>0, <1>4, <2>1 DEF EndCycle, TypeOK
    <3> QED
      BY <1>0, <1>4, <2>1, <3>1 DEF EndCycle, TypeOK
  <2> QED
    BY <1>0, <1>4, <2>1, RowKept DEF RowIsOurs
<1>5. ASSUME NEW w \in Workers, LeaseLost(w) \/ CloseOrphanedAttemptFails(w) \/ Abort(w)
      PROVE  RowIsOurs'
  BY <1>4, <1>5 DEF LeaseLost, CloseOrphanedAttemptFails, Abort, Die
<1>6. ASSUME NEW w \in Workers, FetchHead(w) PROVE RowIsOurs'
  <2>1. ASSUME NEW v \in Workers, pc'[v] \in {"mark"} \cup Sending
        PROVE  /\ v # w /\ pc[v] \in {"mark"} \cup Sending
               /\ head'[v] = head[v] /\ attempt'[v] = attempt[v]
    <3>1. v # w
      BY <1>0, <1>6, <2>1 DEF FetchHead, TypeOK
    <3> QED
      BY <1>0, <1>6, <2>1, <3>1 DEF FetchHead, TypeOK
  <2>2. UNCHANGED attempts
    BY <1>6 DEF FetchHead
  <2> QED
    BY <1>0, <2>1, <2>2, RowKept DEF RowIsOurs
<1>7. ASSUME NEW w \in Workers, CloseOrphanedAttempt(w) PROVE RowIsOurs'
  <2>1. UNCHANGED <<head, attempt>>
    BY <1>7 DEF CloseOrphanedAttempt
  <2>2. ASSUME NEW v \in Workers, pc'[v] \in {"mark"} \cup Sending
        PROVE  /\ pc[v] \in {"mark"} \cup Sending
               /\ attempts'[head[v]][attempt[v]].outcome \in {"open", "worker_lease_expired"}
    <3>1. pc[v] \in {"mark"} \cup Sending
      BY <1>0, <1>7, <2>2 DEF CloseOrphanedAttempt, TypeOK
    <3>2. head[v] \in Deliveries /\ attempts[head[v]] \in Seq(Attempt)
          /\ attempt[v] \in 1 .. Len(attempts[head[v]])
      BY <1>0, <3>1 DEF TypeOK
    <3>3. attempt[v] \in DOMAIN attempts[head[v]] /\ attempts[head[v]][attempt[v]] \in Attempt
      BY <3>2
    <3>4. attempts[head[v]][attempt[v]].outcome \in {"open", "worker_lease_expired"}
      BY <1>0, <3>1 DEF RowIsOurs
    <3>5. attempts'[head[v]][attempt[v]].outcome \in {"open", "worker_lease_expired"}
      BY <1>0, <1>7, <3>2, <3>3, <3>4, ClosedRows DEF Attempt
    <3> QED
      BY <3>1, <3>5
  <2> QED
    BY <1>0, <2>1, <2>2, RowKept
<1>8. ASSUME NEW w \in Workers, InsertAttempt(w) PROVE RowIsOurs'
  <2>1. /\ pc[w] = "insert" /\ pc' = [pc EXCEPT ![w] = "mark"]
        /\ attempt' = [attempt EXCEPT ![w] = Len(attempts[head[w]]) + 1] /\ head' = head
    BY <1>8 DEF InsertAttempt
  <2>2. \A v \in Workers : pc'[v] \in {"mark"} \cup Sending /\ v # w =>
           pc[v] \in {"mark"} \cup Sending /\ attempt'[v] = attempt[v]
    BY <1>0, <2>1 DEF TypeOK
  <2>3. \A v \in Workers : pc[v] \in {"mark"} \cup Sending =>
           /\ head[v] \in Deliveries /\ attempt[v] \in 1 .. Len(attempts[head[v]])
           /\ Len(attempts[head[v]]) \in Nat
           /\ attempt[v] \in DOMAIN attempts[head[v]]
    <3> SUFFICES ASSUME NEW v \in Workers, pc[v] \in {"mark"} \cup Sending
                 PROVE  /\ head[v] \in Deliveries /\ attempt[v] \in 1 .. Len(attempts[head[v]])
                        /\ Len(attempts[head[v]]) \in Nat
                        /\ attempt[v] \in DOMAIN attempts[head[v]]
      OBVIOUS
    <3>1. head[v] \in Deliveries /\ attempt[v] \in 1 .. Len(attempts[head[v]])
          /\ attempts[head[v]] \in Seq(Attempt)
      BY <1>0 DEF TypeOK
    <3> QED
      BY <3>1
  <2>4. ASSUME NEW v \in Workers, v # w, pc'[v] \in {"mark"} \cup Sending
        PROVE  /\ attempts'[head[v]][attempt[v]].outcome \in {"open", "worker_lease_expired"}
               /\ head[v] = head[w] => attempt[v] # attempt'[w]
    <3>1. attempts'[head[v]][attempt[v]] = attempts[head[v]][attempt[v]]
      BY <1>0, <1>8, <2>2, <2>3, <2>4, InsertedRows
    <3>2. attempt'[w] = Len(attempts[head[w]]) + 1
      BY <1>0, <1>8, InsertedRows
    <3> QED
      BY <1>0, <2>2, <2>3, <2>4, <3>1, <3>2 DEF RowIsOurs
  <2>5. attempts'[head[w]][attempt'[w]].outcome = "open"
    BY <1>0, <1>8, InsertedRows
  <2> QED
    BY <1>0, <2>1, <2>2, <2>4, <2>5 DEF RowIsOurs
<1>9. ASSUME NEW w \in Workers, pc[w] = "complete", WriteBack(w) PROVE RowIsOurs'
  <2>1. EndCycle(w)
    BY <1>9 DEF WriteBack
  <2>2. ASSUME NEW v \in Workers, v # w, pc[v] \in {"mark"} \cup Sending
        PROVE  attempts'[head[v]][attempt[v]] = attempts[head[v]][attempt[v]]
    <3>1. head[v] \in Deliveries /\ attempt[v] \in 1 .. Len(attempts[head[v]])
          /\ attempts[head[v]] \in Seq(Attempt)
      BY <1>0, <2>2 DEF TypeOK
    <3>2. attempt[v] \in DOMAIN attempts[head[v]]
      BY <3>1
    <3>3. head[v] = head[w] => attempt[v] # attempt[w]
      BY <1>0, <1>9, <2>2 DEF RowIsOurs
    <3> QED
      BY <1>0, <1>9, <3>1, <3>2, <3>3, WrittenRows
  <2> QED
    BY <1>4, <2>1, <2>2
<1>10. CASE Environment
  BY <1>1, <1>5, <1>10 DEF Environment, Enqueue, Pause, Resume, OrphanLapses, HolderLapses, Cooled
<1>11. CASE UNCHANGED vars
  BY <1>1, <1>11 DEF vars
<1> QED
  BY <1>3, <1>5, <1>6, <1>7, <1>8, <1>9, <1>10, <1>11
  DEF Next, RunDeliveryCycle, TryClaim, Complete, CompleteSucceeded, CompleteHalted, CompleteRetrying

(* Only a write-back makes a delivery terminal: succeeded that of a 2xx,    *)
(* failed that of the last attempt allowed.                                 *)
LEMMA ResolvedByAnswer ==
    ASSUME TypeOK, [Next]_vars, NEW d \in Deliveries,
           state'[d] # state[d], state'[d] \in {"succeeded", "failed"}
    PROVE  \E w \in Workers :
              /\ head[w] = d
              /\ \/ CompleteSucceeded(w) /\ state'[d] = "succeeded"
                 \/ CompleteHalted(w) /\ state'[d] = "failed"
<1> USE DEF deliveryVars
<1>1. ASSUME NEW b \in Batches PROVE ~Enqueue(b)
  BY DEF Enqueue, TypeOK
<1>2. ASSUME Environment PROVE FALSE
  BY <1>1, <1>2 DEF Environment, Pause, Resume, OrphanLapses, HolderLapses, Cooled, Abort, Die
<1>3. ASSUME NEW w \in Workers,
             \/ SelectCandidates(w) \/ ClaimEndpoint(w) \/ LoseRace(w) \/ TouchTenant(w)
             \/ CloseOrphanedAttempt(w) \/ CloseOrphanedAttemptFails(w) \/ FetchHead(w)
             \/ HeadNotReady(w) \/ ReleaseClaim(w) \/ InsertAttempt(w) \/ Send(w) \/ LeaseLost(w)
      PROVE  FALSE
  BY <1>3 DEF SelectCandidates, ClaimEndpoint, LoseRace, TouchTenant, CloseOrphanedAttempt,
              CloseOrphanedAttemptFails, Die, FetchHead, HeadNotReady, ReleaseClaim,
              InsertAttempt, Send, LeaseLost
<1>4. ASSUME NEW w \in Workers,
             RequeueOrphan(w) \/ MarkInFlight(w) \/ CompleteRetrying(w)
      PROVE  FALSE
  BY <1>4 DEF RequeueOrphan, MarkInFlight, CompleteRetrying, TypeOK
<1>5. ASSUME NEW w \in Workers, CompleteSucceeded(w) PROVE head[w] = d /\ state'[d] = "succeeded"
  BY <1>5 DEF CompleteSucceeded, TypeOK
<1>6. ASSUME NEW w \in Workers, CompleteHalted(w) PROVE head[w] = d /\ state'[d] = "failed"
  BY <1>6 DEF CompleteHalted, TypeOK
<1>7. CASE UNCHANGED vars
  BY <1>7 DEF vars
<1> QED
  BY <1>2, <1>3, <1>4, <1>5, <1>6, <1>7 DEF Next, RunDeliveryCycle, TryClaim, Complete

(* Every step keeps the invariant of the attempts, whatever stalls.         *)
LEMMA AnswerNext ==
    ASSUME AnswerInvariant, [Next]_vars PROVE AnswerInvariant'
<1>1. TypeOK /\ TypeOK' /\ RowIsOurs'
  BY TypeNext, RowNext DEF AnswerInvariant
<1>2. ASSUME NEW d \in Deliveries, state'[d] = "succeeded"
      PROVE  \E i \in DOMAIN attempts'[d] : attempts'[d][i].outcome = "2xx"
  <2>1. CASE state[d] = "succeeded"
    <3>1. PICK i \in DOMAIN attempts[d] : attempts[d][i].outcome = "2xx"
      BY <2>1 DEF AnswerInvariant, SucceededIsWitnessed
    <3> QED
      BY <3>1, AnsweredRowStays
  <2>2. CASE state[d] # "succeeded"
    <3>1. PICK w \in Workers : CompleteSucceeded(w) /\ head[w] = d
      BY <1>1, <1>2, <2>2, ResolvedByAnswer
    <3>2. pc[w] = "complete" /\ result[w] = "2xx" /\ WriteBack(w)
      BY <3>1 DEF CompleteSucceeded
    <3>3. /\ attempt[w] \in DOMAIN attempts'[d]
          /\ attempts'[d][attempt[w]].outcome = "2xx"
      BY <1>1, <3>1, <3>2, WrittenRows
    <3> QED
      BY <3>3
  <2> QED
    BY <2>1, <2>2
<1> QED
  BY <1>1, <1>2 DEF AnswerInvariant, SucceededIsWitnessed

(* No row is anybody's before the first attempt.                            *)
LEMMA AnswerInit == Init => AnswerInvariant
<1> SUFFICES ASSUME Init PROVE AnswerInvariant
  OBVIOUS
<1>1. TypeOK
  BY TypeInit
<1> QED
  BY <1>1 DEF Init, AnswerInvariant, RowIsOurs, SucceededIsWitnessed, Sending

(* Between its INSERT and its write-back a worker's attempts row is its     *)
(* own, even when its lease has lapsed and the endpoint is another's.       *)
THEOREM AnswerCorrect == Spec => []AnswerInvariant
<1>1. AnswerInvariant /\ [Next]_vars => AnswerInvariant'
  BY AnswerNext
<1> QED
  BY <1>1, AnswerInit, PTL DEF Spec

(* completeDelivery records "succeeded" only along with a 2xx, and nothing  *)
(* removes that row afterwards: with any number of workers, crashes and     *)
(* leases lapsing at any statement.                                         *)
THEOREM SucceededIsWitnessedCorrect == Spec => []SucceededIsWitnessed
<1>1. AnswerInvariant => SucceededIsWitnessed
  BY DEF AnswerInvariant
<1> QED
  BY <1>1, AnswerCorrect, PTL

(* An answer once in the attempts table is never rewritten, by a late       *)
(* write-back or by a reclaim, whatever stalls.                             *)
THEOREM AnswersAreKeptCorrect == Spec => AnswersAreKept
<1>1. AnswerInvariant /\ [Next]_vars
        => [\A d \in Deliveries : \A i \in DOMAIN attempts[d] :
              attempts[d][i].outcome \in {"2xx", "failed"}
                  => attempts'[d][i] = attempts[d][i]]_vars
  BY AnsweredRowStays
<1> QED
  BY <1>1, AnswerCorrect, PTL DEF Spec, AnswersAreKept

-----------------------------------------------------------------------------

(* An answer in the table after a step was there before it, or is that of   *)
(* the write-back the step is.                                              *)
LEMMA NewAnswer ==
    ASSUME TypeOK, [Next]_vars, NEW d \in Deliveries, NEW i \in DOMAIN attempts'[d],
           attempts'[d][i].outcome \in {"2xx", "failed"}
    PROVE  \/ i \in DOMAIN attempts[d] /\ attempts'[d][i] = attempts[d][i]
           \/ \E w \in Workers :
                 /\ head[w] = d /\ attempt[w] = i
                 /\ CompleteSucceeded(w) \/ CompleteHalted(w) \/ CompleteRetrying(w)
<1>1. CASE UNCHANGED attempts
  BY <1>1
<1>2. ASSUME NEW w \in Workers, CloseOrphanedAttempt(w)
      PROVE  i \in DOMAIN attempts[d] /\ attempts'[d][i] = attempts[d][i]
  BY <1>2, ClosedRows
<1>3. ASSUME NEW w \in Workers, InsertAttempt(w)
      PROVE  i \in DOMAIN attempts[d] /\ attempts'[d][i] = attempts[d][i]
  <2>1. CASE d = head[w] /\ i = attempt'[w]
    BY <1>3, <2>1, InsertedRows
  <2>2. CASE d # head[w] \/ i # attempt'[w]
    BY <1>3, <2>2, InsertedRows
  <2> QED
    BY <2>1, <2>2
<1>4. ASSUME NEW w \in Workers, CompleteSucceeded(w) \/ CompleteHalted(w) \/ CompleteRetrying(w),
             head[w] # d \/ attempt[w] # i
      PROVE  i \in DOMAIN attempts[d] /\ attempts'[d][i] = attempts[d][i]
  <2>1. pc[w] = "complete" /\ WriteBack(w)
    BY <1>4 DEF CompleteSucceeded, CompleteHalted, CompleteRetrying
  <2> QED
    BY <1>4, <2>1, WrittenRows
<1> QED
  BY <1>1, <1>2, <1>3, <1>4, WritesAttempts

(* Every step keeps the states in agreement with the answers recorded.      *)
LEMMA AgreementNext ==
    ASSUME HistoryInvariant, [Next]_vars PROVE HistoryAgrees' /\ FailedAtCeiling'
<1>0. /\ TypeOK /\ LeaseInvariant /\ AttemptIsLast /\ HistoryAgrees /\ FailedAtCeiling
      /\ AnswerInvariant
  BY DEF HistoryInvariant, LeaseInvariant, AnswerInvariant, SucceededIsWitnessed, HistoryAgrees
<1>1. AnswerInvariant'
  BY <1>0, AnswerNext
<1>2. ASSUME NEW w \in Workers, CompleteSucceeded(w) \/ CompleteHalted(w) \/ CompleteRetrying(w)
      PROVE  /\ attempt[w] \in DOMAIN attempts'[head[w]] /\ head[w] \in Deliveries
             /\ attempts'[head[w]][attempt[w]].outcome = result[w]
             /\ attempts'[head[w]][attempt[w]].number = number[w]
             /\ result[w] \in {"2xx", "failed"} /\ number[w] \in Nat
  <2>1. pc[w] = "complete" /\ Fenced(w) /\ WriteBack(w)
    BY <1>2 DEF CompleteSucceeded, CompleteHalted, CompleteRetrying
  <2>2. attempts[head[w]][attempt[w]].number = number[w]
    BY <1>0, <2>1 DEF AttemptIsLast, Sending
  <2>3. result[w] \in {"2xx", "failed"} /\ number[w] \in Nat
    BY <1>0, <2>1 DEF TypeOK
  <2> QED
    BY <1>0, <2>1, <2>2, <2>3, WrittenRows
<1>3. ASSUME NEW d \in Deliveries, NEW i \in DOMAIN attempts'[d], attempts'[d][i].outcome = "2xx"
      PROVE  state'[d] = "succeeded"
  <2>1. CASE i \in DOMAIN attempts[d] /\ attempts'[d][i] = attempts[d][i]
    BY <1>0, <1>3, <2>1, TerminalStep DEF HistoryAgrees, Terminal
  <2>2. ASSUME NEW w \in Workers, head[w] = d, attempt[w] = i,
               CompleteSucceeded(w) \/ CompleteHalted(w) \/ CompleteRetrying(w)
        PROVE  state'[d] = "succeeded"
    <3>1. result[w] = "2xx"
      BY <1>2, <1>3, <2>2
    <3> QED
      BY <1>0, <2>2, <3>1 DEF CompleteSucceeded, CompleteHalted, CompleteRetrying, TypeOK
  <2> QED
    BY <1>0, <1>3, <2>1, <2>2, NewAnswer
<1>4. ASSUME NEW d \in Deliveries, NEW i \in DOMAIN attempts'[d],
             attempts'[d][i].outcome = "failed", attempts'[d][i].number >= MaxAttempts
      PROVE  state'[d] = "failed"
  <2>1. CASE i \in DOMAIN attempts[d] /\ attempts'[d][i] = attempts[d][i]
    BY <1>0, <1>4, <2>1, TerminalStep DEF FailedAtCeiling, Terminal
  <2>2. ASSUME NEW w \in Workers, head[w] = d, attempt[w] = i,
               CompleteSucceeded(w) \/ CompleteHalted(w) \/ CompleteRetrying(w)
        PROVE  state'[d] = "failed"
    <3>1. result[w] = "failed" /\ number[w] >= MaxAttempts
      BY <1>2, <1>4, <2>2
    <3>2. CompleteHalted(w)
      BY <2>2, <3>1 DEF CompleteSucceeded, CompleteRetrying, AtCeiling
    <3> QED
      BY <1>0, <2>2, <3>2 DEF CompleteHalted, TypeOK
  <2> QED
    BY <1>0, <1>4, <2>1, <2>2, NewAnswer
<1>5. ASSUME NEW d \in Deliveries, state'[d] = "failed"
      PROVE  \E i \in DOMAIN attempts'[d] :
                attempts'[d][i].outcome = "failed" /\ attempts'[d][i].number >= MaxAttempts
  <2>1. CASE state[d] = "failed"
    <3>1. PICK i \in DOMAIN attempts[d] :
             attempts[d][i].outcome = "failed" /\ attempts[d][i].number >= MaxAttempts
      BY <1>0, <2>1 DEF FailedAtCeiling
    <3>2. i \in DOMAIN attempts'[d] /\ attempts'[d][i] = attempts[d][i]
      BY <1>0, <3>1, AnsweredRowStays
    <3> QED
      BY <3>1, <3>2
  <2>2. CASE state[d] # "failed"
    <3>1. PICK w \in Workers : CompleteHalted(w) /\ head[w] = d
      BY <1>0, <1>5, <2>2, ResolvedByAnswer
    <3>2. result[w] = "failed" /\ number[w] >= MaxAttempts
      BY <1>2, <3>1 DEF CompleteHalted, AtCeiling
    <3> QED
      BY <1>2, <3>1, <3>2
  <2> QED
    BY <2>1, <2>2
<1>6. HistoryAgrees'
  BY <1>1, <1>3 DEF HistoryAgrees, AnswerInvariant, SucceededIsWitnessed
<1>7. FailedAtCeiling'
  BY <1>4, <1>5 DEF FailedAtCeiling
<1> QED
  BY <1>6, <1>7

(* Two holders of leases are at different endpoints, and so are what they   *)
(* deliver.                                                                 *)
LEMMA HoldersApart ==
    ASSUME TypeOK, NEW v \in Workers, NEW w \in Workers, v # w, Fenced(v), Fenced(w),
           pc[v] \in {"insert", "mark"} \cup Sending, pc[w] \in Claiming \cup Sending
    PROVE  /\ head[v] \in Deliveries /\ EndpointOf[head[v]] # current[w]
           /\ pc[w] \in {"insert", "mark"} \cup Sending => head[v] # head[w]
  BY DEF TypeOK, Fenced

(* A step that leaves alone what a worker has fetched and recorded keeps    *)
(* its attempt the last one.                                                *)
LEMMA AttemptKept ==
    ASSUME AttemptIsLast,
           \A v \in Workers :
              pc'[v] \in {"insert", "mark"} \/ (pc'[v] \in Sending /\ Fenced(v)') =>
                 /\ pc'[v] = pc[v] \/ {pc[v], pc'[v]} \subseteq Sending
                 /\ pc'[v] \in Sending => Fenced(v)
                 /\ head'[v] = head[v] /\ number'[v] = number[v] /\ attempt'[v] = attempt[v]
                 /\ attemptCount'[head[v]] = attemptCount[head[v]]
                 /\ attempts'[head[v]] = attempts[head[v]]
    PROVE  AttemptIsLast'
<1> USE DEF Sending
<1>1. ASSUME NEW v \in Workers, pc'[v] \in {"insert", "mark"}
      PROVE  number'[v] = attemptCount'[head'[v]] + 1
  BY <1>1 DEF AttemptIsLast
<1>2. ASSUME NEW v \in Workers, pc'[v] = "mark" \/ (pc'[v] \in Sending /\ Fenced(v)')
      PROVE  /\ attempt'[v] = Len(attempts'[head'[v]])
             /\ attempts'[head'[v]][attempt'[v]].number = number'[v]
             /\ attempts'[head'[v]][attempt'[v]].outcome = "open"
  BY <1>2 DEF AttemptIsLast
<1>3. ASSUME NEW v \in Workers, pc'[v] \in Sending /\ Fenced(v)'
      PROVE  number'[v] = attemptCount'[head'[v]]
  BY <1>3 DEF AttemptIsLast
<1> QED
  BY <1>1, <1>2, <1>3 DEF AttemptIsLast

(* The steps that touch neither attempts nor what any worker has fetched    *)
(* keep every attempt the last one.                                         *)
LEMMA AttemptLocal ==
    ASSUME LeaseInvariant, AttemptIsLast, UNCHANGED <<attempts, attemptCount>>,
           \/ UNCHANGED <<pc, head, number, attempt, lease, current>>
           \/ \E w \in Workers :
                \/ SelectCandidates(w) \/ ClaimEndpoint(w) \/ LoseRace(w) \/ TouchTenant(w)
                \/ RequeueOrphan(w) \/ HeadNotReady(w) \/ ReleaseClaim(w) \/ Send(w)
                \/ LeaseLost(w) \/ CloseOrphanedAttemptFails(w) \/ Abort(w)
    PROVE  AttemptIsLast'
<1>0. TypeOK
  BY DEF LeaseInvariant
<1> USE WorkersAssumption DEF Claiming, Sending, sendVars, claimVars, endpointVars
<1>1. CASE UNCHANGED <<pc, head, number, attempt, lease, current>>
  BY <1>1, AttemptKept DEF Fenced
<1>2. ASSUME NEW w \in Workers, UNCHANGED <<head, number, attempt>>,
             pc' = [pc EXCEPT ![w] = pc'[w]],
             pc'[w] \in {"insert", "mark"} \cup Sending => pc[w] \in Sending /\ pc'[w] \in Sending,
             \A v \in Workers : pc'[v] \in Sending /\ Fenced(v)' => Fenced(v)
      PROVE  AttemptIsLast'
  <2>1. ASSUME NEW v \in Workers,
               pc'[v] \in {"insert", "mark"} \/ (pc'[v] \in Sending /\ Fenced(v)')
        PROVE  /\ pc'[v] = pc[v] \/ {pc[v], pc'[v]} \subseteq Sending
               /\ pc'[v] \in Sending => Fenced(v)
    BY <1>0, <1>2, <2>1 DEF TypeOK
  <2> QED
    BY <1>2, <2>1, AttemptKept
<1>3. ASSUME NEW w \in Workers,
             SelectCandidates(w) \/ LoseRace(w) \/ TouchTenant(w) \/ RequeueOrphan(w)
             \/ HeadNotReady(w) \/ Send(w)
      PROVE  AttemptIsLast'
  <2>1. UNCHANGED <<head, number, attempt, lease, current>>
    BY <1>3 DEF SelectCandidates, LoseRace, TouchTenant, RequeueOrphan, HeadNotReady, Send
  <2>2. pc' = [pc EXCEPT ![w] = pc'[w]]
    BY <1>0, <1>3 DEF TypeOK, SelectCandidates, LoseRace, TouchTenant, RequeueOrphan, HeadNotReady, Send
  <2>3. pc'[w] \in {"insert", "mark"} \cup Sending => pc[w] \in Sending /\ pc'[w] \in Sending
    BY <1>0, <1>3 DEF TypeOK, SelectCandidates, LoseRace, TouchTenant, RequeueOrphan, HeadNotReady, Send
  <2> QED
    BY <1>2, <2>1, <2>2, <2>3 DEF Fenced
<1>4. ASSUME NEW w \in Workers, ClaimEndpoint(w) PROVE AttemptIsLast'
  <2>1. PICK c \in candidates[w] :
          lease' = [lease EXCEPT ![c.ep] = w] /\ current' = [current EXCEPT ![w] = c.ep]
    BY <1>4 DEF ClaimEndpoint, SetLease
  <2>2. /\ pc[w] = "claim" /\ pc' = [pc EXCEPT ![w] = "touch"] /\ UNCHANGED <<head, number, attempt>>
    BY <1>4 DEF ClaimEndpoint
  <2>3. ASSUME NEW v \in Workers, pc'[v] \in Sending, Fenced(v)' PROVE Fenced(v)
    <3>1. v # w /\ current'[v] = current[v] /\ current[v] \in Endpoints
      BY <1>0, <2>1, <2>2, <2>3 DEF TypeOK
    <3> QED
      BY <1>0, <2>1, <2>3, <3>1 DEF Fenced, TypeOK
  <2> QED
    BY <1>0, <1>2, <2>2, <2>3 DEF TypeOK
<1>5. ASSUME NEW w \in Workers, ReleaseClaim(w) PROVE AttemptIsLast'
  <2>1. UNCHANGED lease \/ lease' = [lease EXCEPT ![current[w]] = None]
    BY <1>5 DEF ReleaseClaim, SetLease
  <2>2. /\ pc[w] = "release" /\ pc' = [pc EXCEPT ![w] = IF candidates[w] = {} THEN "idle" ELSE "claim"]
        /\ current' = [current EXCEPT ![w] = None] /\ UNCHANGED <<head, number, attempt>>
    BY <1>5 DEF ReleaseClaim
  <2>3. pc' = [pc EXCEPT ![w] = pc'[w]] /\ pc'[w] \notin {"insert", "mark"} \cup Sending
    BY <1>0, <2>2 DEF TypeOK
  <2>4. ASSUME NEW v \in Workers, pc'[v] \in Sending, Fenced(v)' PROVE Fenced(v)
    <3>1. v # w /\ current'[v] = current[v] /\ current[v] \in Endpoints
      BY <1>0, <2>2, <2>3, <2>4 DEF TypeOK
    <3> QED
      BY <1>0, <2>1, <2>4, <3>1 DEF Fenced, TypeOK
  <2> QED
    BY <1>2, <2>2, <2>3, <2>4
<1>6. ASSUME NEW w \in Workers, EndCycle(w), 
             \A e \in Endpoints, v \in Workers : lease'[e] = v => lease[e] = v
      PROVE  AttemptIsLast'
  <2>1. ASSUME NEW v \in Workers, pc'[v] \in {"insert", "mark"} \cup Sending
        PROVE  /\ pc'[v] = pc[v] /\ head'[v] = head[v] /\ number'[v] = number[v]
               /\ attempt'[v] = attempt[v] /\ current'[v] = current[v] /\ current[v] \in Endpoints
    <3>1. v # w
      BY <1>0, <1>6, <2>1 DEF EndCycle, TypeOK
    <3> QED
      BY <1>0, <1>6, <2>1, <3>1 DEF EndCycle, TypeOK
  <2> QED
    BY <1>6, <2>1, AttemptKept DEF Fenced
<1>7. ASSUME NEW w \in Workers, LeaseLost(w) PROVE AttemptIsLast'
  BY <1>6, <1>7 DEF LeaseLost
<1>8. ASSUME NEW w \in Workers, CloseOrphanedAttemptFails(w) \/ Abort(w) PROVE AttemptIsLast'
  <2>1. Die(w)
    BY <1>8 DEF CloseOrphanedAttemptFails, Abort
  <2>2. \A e \in Endpoints, v \in Workers : lease'[e] = v => lease[e] = v
    BY <2>1 DEF Die
  <2> QED
    BY <1>6, <2>1, <2>2 DEF Die
<1> QED
  BY <1>1, <1>3, <1>4, <1>5, <1>7, <1>8

(* The statements that write an attempt, or what one is made of, keep it    *)
(* the last one of its delivery.                                            *)
LEMMA AttemptNext ==
    ASSUME HistoryInvariant, [Next]_vars PROVE AttemptIsLast'
<1>0. TypeOK /\ TypeOK' /\ LeaseInvariant /\ AttemptIsLast
  BY TypeNext DEF HistoryInvariant, LeaseInvariant
<1> USE DEF Claiming, Sending, sendVars, claimVars, endpointVars, deliveryVars
<1>1. ASSUME NEW w \in Workers, pc[w] \in Claiming PROVE Fenced(w)
  BY <1>0, <1>1 DEF LeaseInvariant, LeaseOwned
<1>2. ASSUME NEW w \in Workers, FetchHead(w) PROVE AttemptIsLast'
  <2>1. PICK d \in Deliveries :
          /\ head' = [head EXCEPT ![w] = d]
          /\ number' = [number EXCEPT ![w] = attemptCount[d] + 1]
    BY <1>2 DEF FetchHead
  <2>2. /\ pc[w] = "fetch" /\ pc' = [pc EXCEPT ![w] = "insert"]
        /\ UNCHANGED <<lease, current, attempt, attempts, attemptCount>>
    BY <1>2 DEF FetchHead
  <2>3. pc'[w] = "insert" /\ number'[w] = attemptCount'[head'[w]] + 1
    BY <1>0, <2>1, <2>2 DEF TypeOK
  <2>4. \A v \in Workers : v # w =>
          pc'[v] = pc[v] /\ head'[v] = head[v] /\ number'[v] = number[v]
    BY <1>0, <2>1, <2>2 DEF TypeOK
  <2> QED
    BY <1>0, <2>2, <2>3, <2>4 DEF AttemptIsLast, Fenced
<1>3. ASSUME NEW w \in Workers, CloseOrphanedAttempt(w) PROVE AttemptIsLast'
  <2>1. /\ pc[w] = "close" /\ pc' = [pc EXCEPT ![w] = "requeue"]
        /\ UNCHANGED <<lease, current, head, number, attempt, attemptCount>>
    BY <1>3 DEF CloseOrphanedAttempt
  <2>2. ASSUME NEW d \in Deliveries, EndpointOf[d] # current[w]
        PROVE  attempts'[d] = attempts[d]
    <3>1. attempts[d] \in Seq(Attempt) /\ attempts'[d] \in Seq(Attempt)
      BY <1>0 DEF TypeOK
    <3>2. /\ DOMAIN attempts'[d] = DOMAIN attempts[d]
          /\ \A i \in DOMAIN attempts[d] : attempts'[d][i] = attempts[d][i]
      BY <1>0, <1>3, <2>2, ClosedRows DEF InFlight, On
    <3> QED
      BY <3>1, <3>2
  <2>3. ASSUME NEW v \in Workers,
               pc'[v] \in {"insert", "mark"} \/ (pc'[v] \in Sending /\ Fenced(v)')
        PROVE  pc'[v] = pc[v] /\ Fenced(v) /\ attempts'[head[v]] = attempts[head[v]]
    <3>1. v # w /\ pc'[v] = pc[v] /\ Fenced(v) /\ Fenced(w)
      BY <1>0, <1>1, <2>1, <2>3 DEF TypeOK, Fenced
    <3>2. head[v] \in Deliveries /\ EndpointOf[head[v]] # current[w]
      BY <1>0, <2>1, <2>3, <3>1, HoldersApart
    <3> QED
      BY <2>2, <3>1, <3>2
  <2> QED
    BY <1>0, <2>1, <2>3, AttemptKept
<1>4. ASSUME NEW w \in Workers, InsertAttempt(w) PROVE AttemptIsLast'
  <2>1. /\ pc[w] = "insert" /\ pc' = [pc EXCEPT ![w] = "mark"]
        /\ attempt' = [attempt EXCEPT ![w] = attempt'[w]]
        /\ UNCHANGED <<lease, current, head, number, attemptCount>>
    BY <1>0, <1>4 DEF InsertAttempt, TypeOK
  <2>2. /\ pc'[w] = "mark" /\ number'[w] = attemptCount'[head'[w]] + 1
        /\ attempt'[w] = Len(attempts'[head'[w]])
        /\ attempts'[head'[w]][attempt'[w]].number = number'[w]
        /\ attempts'[head'[w]][attempt'[w]].outcome = "open"
    BY <1>0, <1>4, <2>1, InsertedRows DEF AttemptIsLast, TypeOK
  <2>3. ASSUME NEW v \in Workers, v # w,
               pc'[v] \in {"insert", "mark"} \/ (pc'[v] \in Sending /\ Fenced(v)')
        PROVE  /\ pc'[v] = pc[v] /\ Fenced(v) /\ attempt'[v] = attempt[v]
               /\ attempts'[head[v]] = attempts[head[v]]
    <3>1. pc'[v] = pc[v] /\ attempt'[v] = attempt[v] /\ Fenced(v) /\ Fenced(w)
      BY <1>0, <1>1, <2>1, <2>3 DEF TypeOK, Fenced
    <3>2. head[v] \in Deliveries /\ head[v] # head[w]
      BY <1>0, <2>1, <2>3, <3>1, HoldersApart
    <3> QED
      BY <1>0, <1>4, <3>1, <3>2, InsertedRows
  <2>4. ASSUME NEW v \in Workers
        PROVE  /\ pc'[v] \in {"insert", "mark"} => number'[v] = attemptCount'[head'[v]] + 1
               /\ pc'[v] = "mark" \/ (pc'[v] \in Sending /\ Fenced(v)') =>
                     /\ attempt'[v] = Len(attempts'[head'[v]])
                     /\ attempts'[head'[v]][attempt'[v]].number = number'[v]
                     /\ attempts'[head'[v]][attempt'[v]].outcome = "open"
               /\ pc'[v] \in Sending /\ Fenced(v)' => number'[v] = attemptCount'[head'[v]]
    <3>1. CASE v = w
      BY <2>2, <3>1
    <3>2. CASE v # w
      BY <1>0, <2>1, <2>3, <3>2 DEF AttemptIsLast
    <3> QED
      BY <3>1, <3>2
  <2> QED
    BY <2>4 DEF AttemptIsLast
<1>5. ASSUME NEW w \in Workers, MarkInFlight(w) PROVE AttemptIsLast'
  <2>1. /\ pc[w] = "mark" /\ pc' = [pc EXCEPT ![w] = "send"]
        /\ attemptCount' = [attemptCount EXCEPT ![head[w]] = number[w]]
        /\ UNCHANGED <<lease, current, head, number, attempt, attempts>>
    BY <1>5 DEF MarkInFlight
  <2>2. /\ head[w] \in Deliveries /\ pc'[w] = "send"
        /\ attemptCount'[head[w]] = number[w]
        /\ \A d \in Deliveries : d # head[w] => attemptCount'[d] = attemptCount[d]
    BY <1>0, <2>1 DEF TypeOK
  <2>3. ASSUME NEW v \in Workers, v # w,
               pc'[v] \in {"insert", "mark"} \/ (pc'[v] \in Sending /\ Fenced(v)')
        PROVE  pc'[v] = pc[v] /\ Fenced(v) /\ attemptCount'[head[v]] = attemptCount[head[v]]
    <3>1. pc'[v] = pc[v] /\ Fenced(v) /\ Fenced(w)
      BY <1>0, <1>1, <2>1, <2>3 DEF TypeOK, Fenced
    <3>2. head[v] \in Deliveries /\ head[v] # head[w]
      BY <1>0, <2>1, <2>3, <3>1, HoldersApart
    <3> QED
      BY <2>2, <3>1, <3>2
  <2>4. ASSUME NEW v \in Workers
        PROVE  /\ pc'[v] \in {"insert", "mark"} => number'[v] = attemptCount'[head'[v]] + 1
               /\ pc'[v] = "mark" \/ (pc'[v] \in Sending /\ Fenced(v)') =>
                     /\ attempt'[v] = Len(attempts'[head'[v]])
                     /\ attempts'[head'[v]][attempt'[v]].number = number'[v]
                     /\ attempts'[head'[v]][attempt'[v]].outcome = "open"
               /\ pc'[v] \in Sending /\ Fenced(v)' => number'[v] = attemptCount'[head'[v]]
    <3>1. CASE v = w
      BY <1>0, <2>1, <2>2, <3>1 DEF AttemptIsLast
    <3>2. CASE v # w
      BY <1>0, <2>1, <2>3, <3>2 DEF AttemptIsLast
    <3> QED
      BY <3>1, <3>2
  <2> QED
    BY <2>4 DEF AttemptIsLast
<1>6. ASSUME NEW w \in Workers, CompleteSucceeded(w) \/ CompleteHalted(w) \/ CompleteRetrying(w)
      PROVE  AttemptIsLast'
  <2>1. pc[w] = "complete" /\ Fenced(w) /\ WriteBack(w)
    BY <1>6 DEF CompleteSucceeded, CompleteHalted, CompleteRetrying
  <2>2. /\ lease' = [lease EXCEPT ![current[w]] = None] /\ EndCycle(w) /\ UNCHANGED attemptCount
    BY <2>1 DEF WriteBack, SetLease
  <2>3. ASSUME NEW v \in Workers,
               pc'[v] \in {"insert", "mark"} \/ (pc'[v] \in Sending /\ Fenced(v)')
        PROVE  /\ pc'[v] = pc[v] /\ Fenced(v) /\ head'[v] = head[v] /\ number'[v] = number[v]
               /\ attempt'[v] = attempt[v] /\ attempts'[head[v]] = attempts[head[v]]
    <3>1. v # w
      BY <1>0, <2>2, <2>3 DEF EndCycle, TypeOK
    <3>2. /\ pc'[v] = pc[v] /\ head'[v] = head[v] /\ number'[v] = number[v]
          /\ attempt'[v] = attempt[v] /\ current'[v] = current[v]
      BY <1>0, <2>2, <3>1 DEF EndCycle, TypeOK
    <3>3. ASSUME pc[v] \in Claiming PROVE Fenced(v)
      BY <1>1, <3>3
    <3>4. ASSUME pc[v] \in Sending PROVE Fenced(v)
      BY <1>0, <2>1, <2>2, <2>3, <3>2, <3>4, WorkersAssumption DEF Fenced, TypeOK
    <3>5. Fenced(v)
      BY <2>3, <3>2, <3>3, <3>4
    <3>6. head[v] \in Deliveries /\ head[v] # head[w]
      BY <1>0, <2>1, <2>3, <3>1, <3>2, <3>5, HoldersApart
    <3> QED
      BY <1>0, <2>1, <3>2, <3>5, <3>6, WrittenRows
  <2> QED
    BY <1>0, <2>2, <2>3, AttemptKept
<1>7. ASSUME Environment PROVE AttemptIsLast'
  <2>1. UNCHANGED <<attempts, attemptCount>>
    BY <1>7 DEF Environment, Enqueue, Pause, Resume, OrphanLapses, HolderLapses, Cooled, Abort, Die
  <2>2. \/ UNCHANGED <<pc, head, number, attempt, lease, current>>
        \/ \E w \in Workers : Abort(w)
    BY <1>7 DEF Environment, Enqueue, Pause, Resume, OrphanLapses, HolderLapses, Cooled
  <2> QED
    BY <1>0, <2>1, <2>2, AttemptLocal
<1>8. ASSUME NEW w \in Workers,
             \/ SelectCandidates(w) \/ ClaimEndpoint(w) \/ LoseRace(w) \/ TouchTenant(w)
             \/ RequeueOrphan(w) \/ HeadNotReady(w) \/ ReleaseClaim(w) \/ Send(w)
             \/ LeaseLost(w) \/ CloseOrphanedAttemptFails(w)
      PROVE  AttemptIsLast'
  <2>1. UNCHANGED <<attempts, attemptCount>>
    BY <1>8 DEF SelectCandidates, ClaimEndpoint, LoseRace, TouchTenant, RequeueOrphan,
                HeadNotReady, ReleaseClaim, Send, LeaseLost, CloseOrphanedAttemptFails, Die
  <2> QED
    BY <1>0, <1>8, <2>1, AttemptLocal
<1>9. CASE UNCHANGED vars
  BY <1>0, <1>9, AttemptLocal DEF vars
<1> QED
  BY <1>2, <1>3, <1>4, <1>5, <1>6, <1>7, <1>8, <1>9
  DEF Next, RunDeliveryCycle, TryClaim, Complete

(* A step that opens no attempt of what an orphan's new owner is about to   *)
(* put back keeps them closed.                                              *)
LEMMA ClosedKept ==
    ASSUME ClosedBeforeRequeue,
           \A v \in Workers : pc'[v] = "requeue" =>
              /\ pc[v] = "requeue" /\ current'[v] = current[v]
              /\ \A d \in On(current[v]) :
                    /\ state'[d] = "in_flight" => state[d] = "in_flight"
                    /\ attempts'[d] = attempts[d]
    PROVE  ClosedBeforeRequeue'
  BY DEF ClosedBeforeRequeue, InFlight, On

(* Every step leaves a closed orphan closed until it is put back.           *)
LEMMA ClosedNext ==
    ASSUME HistoryInvariant, [Next]_vars PROVE ClosedBeforeRequeue'
<1>0. TypeOK /\ TypeOK' /\ LeaseInvariant /\ ClosedBeforeRequeue
  BY TypeNext DEF HistoryInvariant, LeaseInvariant
<1> USE DEF Claiming, Sending, sendVars, claimVars, endpointVars, deliveryVars
<1>1. ASSUME NEW w \in Workers, pc[w] \in Claiming PROVE Fenced(w)
  BY <1>0, <1>1 DEF LeaseInvariant, LeaseOwned
<1>2. ASSUME UNCHANGED attempts,
             \A d \in Deliveries : state'[d] = "in_flight" => state[d] = "in_flight",
             \A v \in Workers : pc'[v] = "requeue" => pc[v] = "requeue" /\ current'[v] = current[v]
      PROVE  ClosedBeforeRequeue'
  BY <1>0, <1>2, ClosedKept DEF On
<1>3. ASSUME NEW b \in Batches, Enqueue(b) PROVE ClosedBeforeRequeue'
  BY <1>0, <1>2, <1>3 DEF Enqueue, TypeOK
<1>4. ASSUME NEW w \in Workers, EndCycle(w), UNCHANGED <<attempts, state>>
      PROVE  ClosedBeforeRequeue'
  <2>1. ASSUME NEW v \in Workers, pc'[v] = "requeue"
        PROVE  pc[v] = "requeue" /\ current'[v] = current[v]
    <3>1. v # w
      BY <1>0, <1>4, <2>1 DEF EndCycle, TypeOK
    <3> QED
      BY <1>0, <1>4, <2>1, <3>1 DEF EndCycle, TypeOK
  <2> QED
    BY <1>2, <1>4, <2>1
<1>5. ASSUME NEW w \in Workers, LeaseLost(w) \/ CloseOrphanedAttemptFails(w) \/ Abort(w)
      PROVE  ClosedBeforeRequeue'
  BY <1>4, <1>5 DEF LeaseLost, CloseOrphanedAttemptFails, Abort, Die
<1>6. ASSUME Environment PROVE ClosedBeforeRequeue'
  <2>1. CASE \E w \in Workers : Abort(w)
    BY <1>5, <2>1
  <2>2. CASE \E b \in Batches : Enqueue(b)
    BY <1>3, <2>2
  <2>3. CASE UNCHANGED <<attempts, state, pc, current>>
    BY <1>2, <2>3
  <2> QED
    BY <1>6, <2>1, <2>2, <2>3 DEF Environment, Pause, Resume, OrphanLapses, HolderLapses, Cooled
<1>7. ASSUME NEW w \in Workers,
             \/ SelectCandidates(w) \/ ClaimEndpoint(w) \/ LoseRace(w) \/ TouchTenant(w)
             \/ FetchHead(w) \/ HeadNotReady(w) \/ ReleaseClaim(w) \/ Send(w)
      PROVE  ClosedBeforeRequeue'
  <2>1. UNCHANGED <<attempts, state>>
    BY <1>7 DEF SelectCandidates, ClaimEndpoint, LoseRace, TouchTenant, FetchHead,
                HeadNotReady, ReleaseClaim, Send
  <2>2. pc'[w] # "requeue"
    BY <1>0, <1>7 DEF TypeOK, SelectCandidates, ClaimEndpoint, LoseRace, TouchTenant, FetchHead,
                HeadNotReady, ReleaseClaim, Send
  <2>3. \A v \in Workers : v # w => pc'[v] = pc[v]
    BY <1>0, <1>7 DEF TypeOK, SelectCandidates, ClaimEndpoint, LoseRace, TouchTenant, FetchHead,
                HeadNotReady, ReleaseClaim, Send
  <2>4. \A v \in Workers : v # w => current'[v] = current[v]
    <3>1. CASE ClaimEndpoint(w)
      BY <1>0, <3>1 DEF TypeOK, ClaimEndpoint
    <3>2. CASE ReleaseClaim(w)
      BY <1>0, <3>2 DEF TypeOK, ReleaseClaim
    <3>3. CASE UNCHANGED current
      BY <3>3
    <3> QED
      BY <1>7, <3>1, <3>2, <3>3 DEF SelectCandidates, LoseRace, TouchTenant, FetchHead,
                HeadNotReady, Send
  <2> QED
    BY <1>2, <2>1, <2>2, <2>3, <2>4
<1>8. ASSUME NEW w \in Workers, RequeueOrphan(w) PROVE ClosedBeforeRequeue'
  <2>1. /\ UNCHANGED <<attempts, current>> /\ pc' = [pc EXCEPT ![w] = "fetch"]
        /\ \A d \in Deliveries : state'[d] = "in_flight" => state[d] = "in_flight"
    BY <1>0, <1>8 DEF RequeueOrphan, TypeOK
  <2> QED
    BY <1>0, <1>2, <2>1 DEF TypeOK
<1>9. ASSUME NEW w \in Workers, CloseOrphanedAttempt(w) PROVE ClosedBeforeRequeue'
  <2>1. /\ pc[w] = "close" /\ pc' = [pc EXCEPT ![w] = "requeue"] /\ UNCHANGED <<current, state>>
    BY <1>9 DEF CloseOrphanedAttempt
  <2>2. ASSUME NEW v \in Workers, pc'[v] = "requeue", NEW d \in Deliveries,
               d \in InFlight(current[v]), NEW i \in DOMAIN attempts'[d]
        PROVE  attempts'[d][i].outcome # "open"
    <3>1. i \in DOMAIN attempts[d]
      BY <1>0, <1>9, <2>2, ClosedRows
    <3>2. CASE v = w
      BY <1>0, <1>9, <2>2, <3>1, <3>2, ClosedRows DEF Unanswered
    <3>3. CASE v # w
      <4>1. pc[v] = "requeue"
        BY <1>0, <2>1, <2>2, <3>3 DEF TypeOK
      <4>2. attempts[d][i].outcome # "open"
        BY <1>0, <2>2, <3>1, <4>1 DEF ClosedBeforeRequeue
      <4> QED
        BY <1>0, <1>9, <3>1, <4>2, ClosedRows DEF Unanswered
    <3> QED
      BY <3>2, <3>3
  <2> QED
    BY <2>1, <2>2 DEF ClosedBeforeRequeue, InFlight, On
<1>10. ASSUME NEW w \in Workers, pc[w] \in Claiming \cup Sending, Fenced(w),
              head[w] \in Deliveries, EndpointOf[head[w]] = current[w],
              pc' = [pc EXCEPT ![w] = pc'[w]], pc'[w] # "requeue",
              \A v \in Workers : v # w => current'[v] = current[v],
              \A d \in Deliveries : d # head[w] => state'[d] = state[d] /\ attempts'[d] = attempts[d]
       PROVE  ClosedBeforeRequeue'
  <2>1. ASSUME NEW v \in Workers, pc'[v] = "requeue"
        PROVE  v # w /\ pc[v] = "requeue" /\ current'[v] = current[v] /\ current[v] # current[w]
    <3>1. v # w /\ pc[v] = "requeue" /\ current'[v] = current[v]
      BY <1>0, <1>10, <2>1 DEF TypeOK
    <3> QED
      BY <1>1, <1>10, <3>1 DEF Fenced
  <2> QED
    BY <1>0, <1>10, <2>1, ClosedKept DEF On
<1>11. ASSUME NEW w \in Workers, InsertAttempt(w) \/ MarkInFlight(w) PROVE ClosedBeforeRequeue'
  <2>1. /\ pc[w] \in {"insert", "mark"} /\ UNCHANGED current
        /\ pc' = [pc EXCEPT ![w] = pc'[w]] /\ pc'[w] # "requeue"
    BY <1>0, <1>11 DEF InsertAttempt, MarkInFlight, TypeOK
  <2>2. Fenced(w) /\ head[w] \in Deliveries /\ EndpointOf[head[w]] = current[w]
    BY <1>0, <1>1, <2>1 DEF TypeOK
  <2>3. \A d \in Deliveries : d # head[w] => state'[d] = state[d] /\ attempts'[d] = attempts[d]
    BY <1>0, <1>11 DEF InsertAttempt, MarkInFlight, TypeOK
  <2> QED
    BY <1>10, <2>1, <2>2, <2>3
<1>12. ASSUME NEW w \in Workers, CompleteSucceeded(w) \/ CompleteHalted(w) \/ CompleteRetrying(w)
       PROVE  ClosedBeforeRequeue'
  <2>1. pc[w] = "complete" /\ Fenced(w) /\ WriteBack(w)
    BY <1>12 DEF CompleteSucceeded, CompleteHalted, CompleteRetrying
  <2>2. /\ pc' = [pc EXCEPT ![w] = pc'[w]] /\ pc'[w] # "requeue"
        /\ \A v \in Workers : v # w => current'[v] = current[v]
    BY <1>0, <2>1 DEF WriteBack, EndCycle, TypeOK
  <2>3. head[w] \in Deliveries /\ EndpointOf[head[w]] = current[w]
    BY <1>0, <2>1 DEF TypeOK
  <2>4. \A d \in Deliveries : d # head[w] => state'[d] = state[d]
    BY <1>0, <1>12 DEF CompleteSucceeded, CompleteHalted, CompleteRetrying, TypeOK
  <2>5. \A d \in Deliveries : d # head[w] => attempts'[d] = attempts[d]
    BY <1>0, <2>1, WrittenRows
  <2> QED
    BY <1>10, <2>1, <2>2, <2>3, <2>4, <2>5
<1>13. CASE UNCHANGED vars
  BY <1>2, <1>13 DEF vars
<1> QED
  BY <1>5, <1>6, <1>7, <1>8, <1>9, <1>11, <1>12, <1>13
  DEF Next, RunDeliveryCycle, TryClaim, Complete

(* Every step keeps leases and attempts in step when claims finish within   *)
(* their lease.                                                             *)
LEMMA HistoryNext ==
    ASSUME HistoryInvariant, [Next]_vars, ~ClaimStall PROVE HistoryInvariant'
<1>1. AnswerInvariant
  BY DEF HistoryInvariant, LeaseInvariant, AnswerInvariant, SucceededIsWitnessed, HistoryAgrees
<1>2. LeaseInvariant' /\ RowIsOurs'
  BY <1>1, LeaseNext, RowNext DEF HistoryInvariant
<1> QED
  BY <1>2, AttemptNext, ClosedNext, AgreementNext DEF HistoryInvariant

(* At the fresh start there is no attempt to agree with.                    *)
LEMMA HistoryInit == Init => HistoryInvariant
<1> SUFFICES ASSUME Init PROVE HistoryInvariant
  OBVIOUS
<1>1. LeaseInvariant /\ RowIsOurs
  BY LeaseInit, AnswerInit DEF AnswerInvariant
<1> QED
  BY <1>1 DEF Init, HistoryInvariant, AttemptIsLast, ClosedBeforeRequeue, HistoryAgrees,
              FailedAtCeiling, Sending

(* The attempt a lease's holder sends is the delivery's last and its number *)
(* the attempt count, and an orphan is closed before it is requeued.        *)
THEOREM HistoryCorrect ==
    ASSUME ~ClaimStall PROVE Spec => []HistoryInvariant
<1>1. HistoryInvariant /\ [Next]_vars => HistoryInvariant'
  BY HistoryNext
<1> QED
  BY <1>1, HistoryInit, PTL DEF Spec

(* completeDelivery's two records of success agree: a delivery is succeeded *)
(* exactly when an attempt of it recorded a 2xx.                            *)
THEOREM HistoryAgreesCorrect ==
    ASSUME ~ClaimStall PROVE Spec => []HistoryAgrees
<1>1. HistoryInvariant => HistoryAgrees
  BY DEF HistoryInvariant
<1> QED
  BY <1>1, HistoryCorrect, PTL

(* A delivery is failed exactly when the endpoint's answer, and not a       *)
(* worker's expired lease, used up backoff.maxAttempts.                     *)
THEOREM FailedAtCeilingCorrect ==
    ASSUME ~ClaimStall PROVE Spec => []FailedAtCeiling
<1>1. HistoryInvariant => FailedAtCeiling
  BY DEF HistoryInvariant
<1> QED
  BY <1>1, HistoryCorrect, PTL

=============================================================================
