---------------------------- MODULE EndpointQueue ----------------------------
(***************************************************************************)
(* What the delivery worker promises, without leases, claims or processes: *)
(* every endpoint is a queue whose deliveries are attempted one at a time  *)
(* and in the order of their stream, each attempt is history once it has   *)
(* an outcome, and only an answer of the endpoint resolves a delivery.     *)
(* DeliveryWorker implements it; ReadApi reads it.                         *)
(***************************************************************************)
EXTENDS Naturals, Sequences

CONSTANTS
    Endpoints,
    Deliveries,     \* rows of deliveries, each named by its seq
    EndpointOf,     \* deliveries.endpoint_id
    Batches,        \* the transactions that insert deliveries
    BatchOf,        \* the transaction that inserts a delivery
    LiveBatches,    \* those of event expansion; the others are replays
    MaxAttempts     \* backoff.maxAttempts

VARIABLES
    status,         \* endpoints.status
    busy,           \* endpoints with endpoints.busy: a worker is at them
    state,          \* deliveries.state; "absent" before the row is visible
    attemptCount,   \* deliveries.attempt_count
    attempts        \* the attempts rows of a delivery, in insertion order

queueVars == <<status, busy, state, attemptCount, attempts>>

On(e)       == {d \in Deliveries : EndpointOf[d] = e}
Terminal(d) == state[d] \in {"succeeded", "failed"}
Live(d)     == BatchOf[d] \in LiveBatches

SameStream(d1, d2) ==
    /\ EndpointOf[d1] = EndpointOf[d2]
    /\ BatchOf[d1] = BatchOf[d2] \/ (Live(d1) /\ Live(d2))

(* d may be attempted: a worker has claimed its endpoint, nothing of the    *)
(* endpoint is in flight and everything before d in its stream is resolved. *)
IsNext(d) ==
    /\ EndpointOf[d] \in busy
    /\ state[d] = "pending"
    /\ \A d0 \in On(EndpointOf[d]) : state[d0] # "in_flight"
    /\ \A d0 \in Deliveries : SameStream(d0, d) /\ d0 < d => Terminal(d0)

Init ==
    /\ status = [e \in Endpoints |-> "active"]
    /\ busy = {}
    /\ state = [d \in Deliveries |-> "absent"]
    /\ attemptCount = [d \in Deliveries |-> 0]
    /\ attempts = [d \in Deliveries |-> <<>>]

(* A transaction of the expansion or replay worker commits.                 *)
Publish(b) ==
    LET rows == {d \in Deliveries : BatchOf[d] = b} IN
    /\ rows # {}
    /\ \A d \in rows :
          /\ state[d] = "absent"
          /\ \A d0 \in Deliveries :
                SameStream(d0, d) /\ d0 < d => state[d0] # "absent" \/ d0 \in rows
    /\ state' = [d \in Deliveries |-> IF d \in rows THEN "pending" ELSE state[d]]
    /\ UNCHANGED <<status, busy, attemptCount, attempts>>

Pause(e) ==
    /\ status' = [status EXCEPT ![e] = "paused"]
    /\ UNCHANGED <<busy, state, attemptCount, attempts>>

Resume(e) ==
    /\ status' = [status EXCEPT ![e] = "active"]
    /\ UNCHANGED <<busy, state, attemptCount, attempts>>

(* Only an active endpoint is claimed; a pause does not stop the claim it   *)
(* finds.                                                                   *)
Claim(e) ==
    /\ status[e] = "active" /\ e \notin busy
    /\ busy' = busy \cup {e}
    /\ UNCHANGED <<status, state, attemptCount, attempts>>

Release(e) ==
    /\ e \in busy
    /\ \A d \in On(e) : state[d] # "in_flight"
    /\ busy' = busy \ {e}
    /\ UNCHANGED <<status, state, attemptCount, attempts>>

(* An attempt is recorded before anything is sent.  Its worker may be gone  *)
(* the next moment: then the row stays as it is.                            *)
Record(d) ==
    /\ IsNext(d)
    /\ attempts' = [attempts EXCEPT ![d] =
                       Append(@, [number |-> attemptCount[d] + 1, outcome |-> "open"])]
    /\ UNCHANGED <<status, busy, state, attemptCount>>

(* The attempt recorded last is the one that was sent.                      *)
LastAttempt(d) == Len(attempts[d])

Open(d) == attempts[d] # <<>> /\ attempts[d][LastAttempt(d)].outcome = "open"

Start(d) ==
    /\ IsNext(d)
    /\ Open(d) /\ attempts[d][LastAttempt(d)].number = attemptCount[d] + 1
    /\ state' = [state EXCEPT ![d] = "in_flight"]
    /\ attemptCount' = [attemptCount EXCEPT ![d] = @ + 1]
    /\ UNCHANGED <<status, busy, attempts>>

(* Nobody answers for a delivery any more: its attempts without an outcome  *)
(* are closed, and it goes back into the queue.                             *)
Expire(d) ==
    /\ state[d] = "in_flight"
    /\ attempts' = [attempts EXCEPT ![d] =
                       [i \in 1 .. LastAttempt(d) |->
                           IF attempts[d][i].outcome = "open"
                           THEN [attempts[d][i] EXCEPT !.outcome = "worker_lease_expired"]
                           ELSE attempts[d][i]]]
    /\ UNCHANGED <<status, busy, state, attemptCount>>

Requeue(d) ==
    /\ state[d] = "in_flight" /\ ~Open(d)
    /\ state' = [state EXCEPT ![d] = "pending"]
    /\ UNCHANGED <<status, busy, attemptCount, attempts>>

Answer(d, outcome) ==
    /\ state[d] = "in_flight" /\ Open(d)
    /\ attempts' = [attempts EXCEPT ![d][LastAttempt(d)].outcome = outcome]
    /\ busy' = busy \ {EndpointOf[d]}
    /\ UNCHANGED attemptCount

Succeed(d) ==
    /\ Answer(d, "2xx")
    /\ state' = [state EXCEPT ![d] = "succeeded"]
    /\ UNCHANGED status

Retry(d) ==
    /\ attemptCount[d] < MaxAttempts
    /\ Answer(d, "failed")
    /\ state' = [state EXCEPT ![d] = "pending"]
    /\ UNCHANGED status

Fail(d) ==
    /\ attemptCount[d] >= MaxAttempts
    /\ Answer(d, "failed")
    /\ state' = [state EXCEPT ![d] = "failed"]
    /\ status' = [status EXCEPT ![EndpointOf[d]] = "halted"]

Deliver(d) ==
    \/ Record(d) \/ Start(d) \/ Expire(d) \/ Requeue(d)
    \/ Succeed(d) \/ Retry(d) \/ Fail(d)

Next ==
    \/ \E b \in Batches : Publish(b)
    \/ \E e \in Endpoints : Pause(e) \/ Resume(e) \/ Claim(e) \/ Release(e)
    \/ \E d \in Deliveries : Deliver(d)

Spec == Init /\ [][Next]_queueVars

=============================================================================
