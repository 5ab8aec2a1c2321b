---------------------------- MODULE DeliveryWorker ----------------------------
(***************************************************************************)
(* The delivery half of the webhook worker: node/src/worker/delivery.ts    *)
(* and, statement for statement, go/internal/worker/delivery.go.           *)
(*                                                                         *)
(* PostgreSQL is the queue.  A worker claims an ENDPOINT (not a delivery)  *)
(* by setting its lease, works out which delivery is the head, records an  *)
(* attempt, sends it outside any transaction and writes the outcome back   *)
(* in a transaction fenced by the lease.  Every statement of the claim is  *)
(* an autocommit query of its own, so every one is an action of its own:   *)
(* other workers, a crash, the API's pause and resume and the passing of   *)
(* time all come between two of them.  The write-back is one transaction   *)
(* holding the endpoint's row lock, hence one action.                      *)
(*                                                                         *)
(* Time is kept as what the code asks of it: `stale' (busy_since is older  *)
(* than the lease duration), `cooling' (next_attempt_at lies ahead) and    *)
(* `later' (whose last_served_at is the more recent).                      *)
(***************************************************************************)
EXTENDS Naturals, Sequences, FiniteSets

CONSTANTS
    Workers,        \* worker loops: processes (Node), pool goroutines (Go)
    Tenants,
    Endpoints,
    TenantOf,       \* endpoints.tenant_id
    Deliveries,     \* rows of deliveries, each named by its seq
    EndpointOf,     \* deliveries.endpoint_id
    Batches,        \* the transactions that insert deliveries
    BatchOf,        \* the transaction that inserts a delivery
    LiveBatches,    \* those of event expansion; the others are replays
    MaxAttempts,    \* backoff.maxAttempts
    CandidateLimit, \* the claim query's LIMIT
    ClaimStall,     \* may a lease lapse while its holder is still claiming?
    MaxLapses,      \* bound: lapses of a lease whose holder is alive
    MaxAborts,      \* bound: crashes and database errors
    MaxPauses,      \* bound: pause requests
    None,           \* NULL
    Orphan          \* the lease_id of a claim whose worker is gone

ASSUME WorkersAssumption ==
    /\ None \notin Workers \cup Endpoints \cup {Orphan}
    /\ Orphan \notin Workers

ASSUME EndpointsAssumption ==
    /\ IsFiniteSet(Endpoints)
    /\ TenantOf \in [Endpoints -> Tenants]

ASSUME DeliveriesAssumption ==
    /\ Deliveries \subseteq Nat \ {0}
    /\ EndpointOf \in [Deliveries -> Endpoints]
    /\ BatchOf \in [Deliveries -> Batches]
    /\ LiveBatches \subseteq Batches

ASSUME BoundsAssumption ==
    /\ MaxAttempts \in Nat \ {0}
    /\ CandidateLimit \in Nat \ {0}
    /\ ClaimStall \in BOOLEAN
    /\ MaxLapses \in Nat /\ MaxAborts \in Nat /\ MaxPauses \in Nat

VARIABLES
    status,        \* endpoints.status
    lease,         \* endpoints.lease_id: the worker whose running cycle drew
                   \*   the uuid, Orphan when that cycle died, None when NULL
                   \*   (busy and busy_since are always written along with it)
    stale,         \* the leased endpoints with busy_since < now - leaseDuration
    later,         \* <<t, u>>: t's last_served_at is later than u's, or u's is NULL
    state,         \* deliveries.state; "absent" before the row is visible
    attemptCount,  \* deliveries.attempt_count
    cooling,       \* deliveries whose next_attempt_at lies in the future
    attempts,      \* the attempts rows of a delivery, in insertion order
    pc,            \* a worker's next statement
    candidates,    \* claimDelivery's candidates not yet tried, with position
    cutoff,        \* the endpoints whose lease was stale at claimDelivery's cutoff
    current,       \* the endpoint being claimed or delivered to
    reclaiming,    \* candidate.busy of that endpoint
    head,          \* the delivery fetched or claimed
    number,        \* attemptNumber
    attempt,       \* attemptId: its place in attempts[head]
    result,        \* AttemptOutcome of the HTTP call
    lapses, aborts, pauses

endpointVars == <<status, lease, stale>>
deliveryVars == <<state, attemptCount, cooling>>
loopVars     == <<candidates, cutoff>>
claimVars    == <<current, reclaiming>>
sendVars     == <<head, number, attempt, result>>
bounds       == <<lapses, aborts, pauses>>

vars == <<endpointVars, later, deliveryVars, attempts, pc, loopVars,
          claimVars, sendVars, bounds>>

Attempt == [number : Nat, outcome : {"open", "2xx", "failed", "worker_lease_expired"}]

Claiming == {"touch", "close", "requeue", "fetch", "release", "insert", "mark"}
Sending  == {"send", "complete"}

(* The columns and locals have their types, busy_since is NULL where the    *)
(* lease is, and a worker has read what its next statement uses.            *)
TypeOK ==
    /\ status \in [Endpoints -> {"active", "paused", "halted"}]
    /\ lease \in [Endpoints -> Workers \cup {None, Orphan}]
    /\ stale \subseteq {e \in Endpoints : lease[e] # None}
    /\ later \subseteq Tenants \X Tenants
    /\ state \in [Deliveries -> {"absent", "pending", "in_flight", "succeeded", "failed"}]
    /\ attemptCount \in [Deliveries -> Nat]
    /\ cooling \subseteq Deliveries
    /\ attempts \in [Deliveries -> Seq(Attempt)]
    /\ pc \in [Workers -> {"idle", "claim"} \cup Claiming \cup Sending]
    /\ candidates \in [Workers -> SUBSET [ep : Endpoints, busy : BOOLEAN, pos : Nat]]
    /\ cutoff \in [Workers -> SUBSET Endpoints]
    /\ current \in [Workers -> Endpoints \cup {None}]
    /\ reclaiming \in [Workers -> BOOLEAN]
    /\ head \in [Workers -> Deliveries \cup {0}]
    /\ number \in [Workers -> Nat]
    /\ attempt \in [Workers -> Nat]
    /\ result \in [Workers -> {"none", "2xx", "failed"}]
    /\ lapses \in Nat /\ aborts \in Nat /\ pauses \in Nat
    /\ \A w \in Workers :
          /\ pc[w] \in Claiming \cup Sending => current[w] \in Endpoints
          /\ pc[w] \in {"insert", "mark"} \cup Sending =>
                head[w] \in Deliveries /\ EndpointOf[head[w]] = current[w]
          /\ pc[w] \in {"mark"} \cup Sending => attempt[w] \in 1 .. Len(attempts[head[w]])
          /\ pc[w] = "complete" => result[w] # "none"

Init ==
    /\ status = [e \in Endpoints |-> "active"]
    /\ lease = [e \in Endpoints |-> None]
    /\ stale = {}
    /\ later = {}
    /\ state = [d \in Deliveries |-> "absent"]
    /\ attemptCount = [d \in Deliveries |-> 0]
    /\ cooling = {}
    /\ attempts = [d \in Deliveries |-> <<>>]
    /\ pc = [w \in Workers |-> "idle"]
    /\ candidates = [w \in Workers |-> {}]
    /\ cutoff = [w \in Workers |-> {}]
    /\ current = [w \in Workers |-> None]
    /\ reclaiming = [w \in Workers |-> FALSE]
    /\ head = [w \in Workers |-> 0]
    /\ number = [w \in Workers |-> 0]
    /\ attempt = [w \in Workers |-> 0]
    /\ result = [w \in Workers |-> "none"]
    /\ lapses = 0 /\ aborts = 0 /\ pauses = 0

On(e)       == {d \in Deliveries : EndpointOf[d] = e}
InFlight(e) == {d \in On(e) : state[d] = "in_flight"}
Terminal(d) == state[d] \in {"succeeded", "failed"}
Live(d)     == BatchOf[d] \in LiveBatches

(* Deliveries whose order of publication is an order of delivery: those of  *)
(* events, expanded one by one under the tenant's lock, and those of one    *)
(* replay.  A replay and the live stream commit in no particular order.     *)
SameStream(d1, d2) ==
    /\ EndpointOf[d1] = EndpointOf[d2]
    /\ BatchOf[d1] = BatchOf[d2] \/ (Live(d1) /\ Live(d2))

-----------------------------------------------------------------------------
(* What the other programs do to the tables.                               *)

(* An expansion or replay transaction commits: its rows become visible.     *)
Enqueue(b) ==
    LET rows == {d \in Deliveries : BatchOf[d] = b} IN
    /\ rows # {}
    /\ \A d \in rows :
          /\ state[d] = "absent"
          /\ \A d0 \in Deliveries :
                SameStream(d0, d) /\ d0 < d => state[d0] # "absent" \/ d0 \in rows
    /\ state' = [d \in Deliveries |-> IF d \in rows THEN "pending" ELSE state[d]]
    /\ UNCHANGED <<endpointVars, later, attemptCount, cooling, attempts, pc,
                   loopVars, claimVars, sendVars, bounds>>

(* POST /endpoints/:id/pause, whatever the status was.                      *)
Pause(e) ==
    /\ pauses < MaxPauses
    /\ pauses' = pauses + 1
    /\ status' = [status EXCEPT ![e] = "paused"]
    /\ UNCHANGED <<lease, stale, later, deliveryVars, attempts, pc, loopVars,
                   claimVars, sendVars, lapses, aborts>>

(* POST /endpoints/:id/resume, whatever the status was.                     *)
Resume(e) ==
    /\ status' = [status EXCEPT ![e] = "active"]
    /\ UNCHANGED <<lease, stale, later, deliveryVars, attempts, pc, loopVars,
                   claimVars, sendVars, bounds>>

(* next_attempt_at is reached.                                              *)
Cooled(d) ==
    /\ d \in cooling
    /\ cooling' = cooling \ {d}
    /\ UNCHANGED <<endpointVars, later, state, attemptCount, attempts, pc,
                   loopVars, claimVars, sendVars, bounds>>

(* busy_since falls behind the lease duration: the holder is gone, or is    *)
(* alive but has stalled.  Without ClaimStall only the HTTP call and what   *)
(* follows it may stall that long, which is what the lease is sized for.    *)
OrphanLapses(e) ==
    /\ e \notin stale
    /\ lease[e] = Orphan
    /\ stale' = stale \cup {e}
    /\ UNCHANGED <<status, lease, later, deliveryVars, attempts, pc, loopVars,
                   claimVars, sendVars, bounds>>

HolderLapses(e) ==
    /\ e \notin stale
    /\ lapses < MaxLapses
    /\ \E w \in Workers :
          /\ lease[e] = w
          /\ ClaimStall \/ pc[w] \in {"send", "complete"}
    /\ stale' = stale \cup {e}
    /\ lapses' = lapses + 1
    /\ UNCHANGED <<status, lease, later, deliveryVars, attempts, pc, loopVars,
                   claimVars, sendVars, aborts, pauses>>

-----------------------------------------------------------------------------
(* Writing the lease columns.  A busy_since of now() is no longer older     *)
(* than any cutoff computed before it, nor is NULL.                         *)

SetLease_KeepsBusySince(e, l) ==            \* slip: busy_since not reset
    /\ lease' = [lease EXCEPT ![e] = l]
    /\ UNCHANGED stale

SetLease(e, l) ==
    /\ lease' = [lease EXCEPT ![e] = l]
    /\ stale' = stale \ {e}

(* The worker's cycle is over: its locals are gone.                         *)
EndCycle(w) ==
    /\ pc' = [pc EXCEPT ![w] = "idle"]
    /\ candidates' = [candidates EXCEPT ![w] = {}]
    /\ current' = [current EXCEPT ![w] = None]
    /\ reclaiming' = [reclaiming EXCEPT ![w] = FALSE]
    /\ head' = [head EXCEPT ![w] = 0]
    /\ number' = [number EXCEPT ![w] = 0]
    /\ attempt' = [attempt EXCEPT ![w] = 0]
    /\ result' = [result EXCEPT ![w] = "none"]

(* The cycle dies where it is: the process crashes, or a query throws and   *)
(* the loop logs it and starts over.  A lease it held stays in the table,   *)
(* with a lease_id that nobody knows any more.                              *)
Die(w) ==
    /\ EndCycle(w)
    /\ cutoff' = [cutoff EXCEPT ![w] = {}]
    /\ lease' = [e \in Endpoints |-> IF lease[e] = w THEN Orphan ELSE lease[e]]
    /\ UNCHANGED <<status, stale, later, deliveryVars, attempts, lapses, pauses>>

Abort(w) ==
    /\ pc[w] # "idle"
    /\ aborts < MaxAborts
    /\ aborts' = aborts + 1
    /\ Die(w)

-----------------------------------------------------------------------------
(* claimDelivery: the candidates query and the loop over its rows.         *)

Ready_PendingOnly(d) ==                     \* slip: in_flight not a candidate
    state[d] = "pending" /\ d \notin cooling

Ready(d)      == (state[d] = "pending" /\ d \notin cooling) \/ state[d] = "in_flight"
ReadyOn(e)    == {d \in On(e) : Ready(d)}
OldestReady(e) == CHOOSE d \in ReadyOn(e) : \A d0 \in ReadyOn(e) : d <= d0

Eligible ==
    {e \in Endpoints :
        /\ status[e] = "active"
        /\ lease[e] = None \/ e \in stale
        /\ ReadyOn(e) # {}}

(* ORDER BY last_served_at ASC NULLS FIRST, MIN(ready seq) ASC.             *)
ServedFirst(e, f) ==
    \/ <<TenantOf[f], TenantOf[e]>> \in later
    \/ /\ <<TenantOf[e], TenantOf[f]>> \notin later
       /\ OldestReady(e) < OldestReady(f)

Position(e) == Cardinality({f \in Eligible : ServedFirst(f, e)})

ClaimQuery ==
    {c \in {[ep |-> e, busy |-> lease[e] # None, pos |-> Position(e)] : e \in Eligible} :
        c.pos < CandidateLimit}

SelectCandidates(w) ==
    /\ pc[w] = "idle"
    /\ candidates' = [candidates EXCEPT ![w] = ClaimQuery]
    /\ cutoff' = [cutoff EXCEPT ![w] = IF ClaimQuery = {} THEN {} ELSE stale]
    /\ pc' = [pc EXCEPT ![w] = IF ClaimQuery = {} THEN "idle" ELSE "claim"]
    /\ UNCHANGED <<endpointVars, later, deliveryVars, attempts, claimVars,
                   sendVars, bounds>>

First(w, c) ==
    /\ c \in candidates[w]
    /\ \A o \in candidates[w] : c.pos <= o.pos

-----------------------------------------------------------------------------
(* tryClaimEndpoint, statement by statement.                               *)

Claimable_FreshCutoff(w, e) ==              \* slip: cutoff recomputed per UPDATE
    /\ status[e] = "active"
    /\ lease[e] = None \/ e \in stale

Claimable_AnyStatus(w, e) ==                \* slip: status not rechecked
    lease[e] = None \/ e \in cutoff[w]

Claimable(w, e) ==
    /\ status[e] = "active"
    /\ lease[e] = None \/ e \in cutoff[w]

(* UPDATE endpoints SET busy = true ... matches the row.                    *)
ClaimEndpoint(w) ==
    /\ pc[w] = "claim"
    /\ \E c \in candidates[w] :
          /\ First(w, c)
          /\ Claimable(w, c.ep)
          /\ SetLease(c.ep, w)
          /\ cutoff' = [v \in Workers |-> cutoff[v] \ {c.ep}]
          /\ candidates' = [candidates EXCEPT ![w] = @ \ {c}]
          /\ current' = [current EXCEPT ![w] = c.ep]
          /\ reclaiming' = [reclaiming EXCEPT ![w] = c.busy]
    /\ pc' = [pc EXCEPT ![w] = "touch"]
    /\ UNCHANGED <<status, later, deliveryVars, attempts, sendVars, bounds>>

(* ... or does not: another worker won the race, or the endpoint is paused. *)
LoseRace(w) ==
    /\ pc[w] = "claim"
    /\ \E c \in candidates[w] :
          /\ First(w, c)
          /\ ~Claimable(w, c.ep)
          /\ LET rest == candidates[w] \ {c} IN
                /\ candidates' = [candidates EXCEPT ![w] = rest]
                /\ cutoff' = [cutoff EXCEPT ![w] = IF rest = {} THEN {} ELSE @]
                /\ pc' = [pc EXCEPT ![w] = IF rest = {} THEN "idle" ELSE "claim"]
    /\ UNCHANGED <<endpointVars, later, deliveryVars, attempts, claimVars,
                   sendVars, bounds>>

(* UPDATE tenants SET last_served_at = now().                               *)
TouchTenant(w) ==
    /\ pc[w] = "touch"
    /\ LET t == TenantOf[current[w]] IN
          later' = {p \in later : p[2] # t} \cup ({t} \X (Tenants \ {t}))
    /\ pc' = [pc EXCEPT ![w] = IF reclaiming[w] THEN "close" ELSE "fetch"]
    /\ UNCHANGED <<endpointVars, deliveryVars, attempts, loopVars, claimVars,
                   sendVars, bounds>>

Unanswered_Any(a) ==                        \* slip: answered rows not excluded
    a.outcome \in {"open", "2xx", "failed"}

(* sent_at IS NOT NULL AND response_status IS NULL AND error_class IS NULL. *)
Unanswered(a) == a.outcome = "open"

(* A stale lease's attempt is closed as worker_lease_expired ...            *)
CloseOrphanedAttempt(w) ==
    /\ pc[w] = "close"
    /\ \A d1, d2 \in InFlight(current[w]) : d1 = d2
    /\ attempts' =
         [d \in Deliveries |->
            [i \in 1 .. Len(attempts[d]) |->
               IF d \in InFlight(current[w]) /\ Unanswered(attempts[d][i])
               THEN [attempts[d][i] EXCEPT !.outcome = "worker_lease_expired"]
               ELSE attempts[d][i]]]
    /\ pc' = [pc EXCEPT ![w] = "requeue"]
    /\ UNCHANGED <<endpointVars, later, deliveryVars, loopVars, claimVars,
                   sendVars, bounds>>

(* ... by a scalar subquery, an error when it yields two rows ...           *)
CloseOrphanedAttemptFails(w) ==
    /\ pc[w] = "close"
    /\ \E d1, d2 \in InFlight(current[w]) : d1 # d2
    /\ Die(w)
    /\ UNCHANGED aborts

(* ... and its delivery is put back.                                        *)
RequeueOrphan(w) ==
    /\ pc[w] = "requeue"
    /\ state' = [d \in Deliveries |-> IF d \in InFlight(current[w]) THEN "pending" ELSE state[d]]
    /\ pc' = [pc EXCEPT ![w] = "fetch"]
    /\ UNCHANGED <<endpointVars, later, attemptCount, cooling, attempts, loopVars,
                   claimVars, sendVars, bounds>>

(* The head is the pending delivery of lowest seq, ready or not.            *)
IsHead_ReadyOnly(e, d) ==                   \* slip: next_attempt_at in the query
    /\ d \in On(e) /\ state[d] = "pending" /\ d \notin cooling
    /\ \A d0 \in On(e) : state[d0] = "pending" /\ d0 \notin cooling => d <= d0

IsHead(e, d) ==
    /\ d \in On(e) /\ state[d] = "pending"
    /\ \A d0 \in On(e) : state[d0] = "pending" => d <= d0

FetchHead(w) ==
    /\ pc[w] = "fetch"
    /\ \E d \in Deliveries :
          /\ IsHead(current[w], d)
          /\ d \notin cooling
          /\ head' = [head EXCEPT ![w] = d]
          /\ number' = [number EXCEPT ![w] = attemptCount[d] + 1]
    /\ pc' = [pc EXCEPT ![w] = "insert"]
    /\ candidates' = [candidates EXCEPT ![w] = {}]
    /\ cutoff' = [cutoff EXCEPT ![w] = {}]
    /\ reclaiming' = [reclaiming EXCEPT ![w] = FALSE]
    /\ UNCHANGED <<endpointVars, later, deliveryVars, attempts, current, attempt,
                   result, bounds>>

HeadNotReady(w) ==
    /\ pc[w] = "fetch"
    /\ \A d \in Deliveries : IsHead(current[w], d) => d \in cooling
    /\ pc' = [pc EXCEPT ![w] = "release"]
    /\ UNCHANGED <<endpointVars, later, deliveryVars, attempts, loopVars, claimVars,
                   sendVars, bounds>>

(* The fenced release of a claim that found nothing to send, and on to the  *)
(* next candidate.                                                          *)
ReleaseClaim(w) ==
    /\ pc[w] = "release"
    /\ LET e    == current[w]
           held == lease[e] = w
           done == candidates[w] = {} IN
          /\ IF held THEN SetLease(e, None) ELSE UNCHANGED <<lease, stale>>
          /\ cutoff' = [v \in Workers |->
                          IF v = w /\ done THEN {}
                          ELSE IF held THEN cutoff[v] \ {e} ELSE cutoff[v]]
          /\ pc' = [pc EXCEPT ![w] = IF done THEN "idle" ELSE "claim"]
    /\ current' = [current EXCEPT ![w] = None]
    /\ reclaiming' = [reclaiming EXCEPT ![w] = FALSE]
    /\ UNCHANGED <<status, later, deliveryVars, attempts, candidates, sendVars, bounds>>

(* INSERT INTO attempts, sent_at = now().                                   *)
InsertAttempt(w) ==
    /\ pc[w] = "insert"
    /\ attempts' = [attempts EXCEPT ![head[w]] =
                       Append(@, [number |-> number[w], outcome |-> "open"])]
    /\ attempt' = [attempt EXCEPT ![w] = Len(attempts[head[w]]) + 1]
    /\ pc' = [pc EXCEPT ![w] = "mark"]
    /\ UNCHANGED <<endpointVars, later, deliveryVars, loopVars, claimVars, head,
                   number, result, bounds>>

(* UPDATE deliveries SET state = 'in_flight', attempt_count = $2.           *)
MarkInFlight(w) ==
    /\ pc[w] = "mark"
    /\ state' = [state EXCEPT ![head[w]] = "in_flight"]
    /\ attemptCount' = [attemptCount EXCEPT ![head[w]] = number[w]]
    /\ pc' = [pc EXCEPT ![w] = "send"]
    /\ UNCHANGED <<endpointVars, later, cooling, attempts, loopVars, claimVars,
                   sendVars, bounds>>

-----------------------------------------------------------------------------
(* runDeliveryCycle: the HTTP call, then completeDelivery.                 *)

(* Resolve, sign and send; the endpoint answers 2xx, or anything else:      *)
(* another status, a timeout, a refused or disallowed address.              *)
Send(w) ==
    /\ pc[w] = "send"
    /\ \E r \in {"2xx", "failed"} : result' = [result EXCEPT ![w] = r]
    /\ pc' = [pc EXCEPT ![w] = "complete"]
    /\ UNCHANGED <<endpointVars, later, deliveryVars, attempts, loopVars, claimVars,
                   head, number, attempt, bounds>>

Fenced_AnyLease(w) == lease[current[w]] # None \* slip: any lease will do
AtCeiling_Over(w) == number[w] > MaxAttempts \* slip: off by one

Fenced(w)    == lease[current[w]] = w
AtCeiling(w) == number[w] >= MaxAttempts

(* What every outcome writes: the attempt's result and the free endpoint.   *)
WriteBack(w) ==
    /\ attempts' = [attempts EXCEPT ![head[w]][attempt[w]].outcome = result[w]]
    /\ SetLease(current[w], None)
    /\ cutoff' = [v \in Workers |-> cutoff[v] \ {current[w]}]
    /\ EndCycle(w)
    /\ UNCHANGED <<later, attemptCount, bounds>>

CompleteSucceeded_AnyAnswer(w) ==           \* slip: any answer is a success
    /\ pc[w] = "complete" /\ Fenced(w)
    /\ state' = [state EXCEPT ![head[w]] = "succeeded"]
    /\ UNCHANGED <<status, cooling>>
    /\ WriteBack(w)

CompleteSucceeded(w) ==
    /\ pc[w] = "complete" /\ Fenced(w)
    /\ result[w] = "2xx"
    /\ state' = [state EXCEPT ![head[w]] = "succeeded"]
    /\ UNCHANGED <<status, cooling>>
    /\ WriteBack(w)

CompleteHalted(w) ==
    /\ pc[w] = "complete" /\ Fenced(w)
    /\ result[w] # "2xx" /\ AtCeiling(w)
    /\ state' = [state EXCEPT ![head[w]] = "failed"]
    /\ status' = [status EXCEPT ![current[w]] = "halted"]
    /\ UNCHANGED cooling
    /\ WriteBack(w)

CompleteRetrying(w) ==
    /\ pc[w] = "complete" /\ Fenced(w)
    /\ result[w] # "2xx" /\ ~AtCeiling(w)
    /\ state' = [state EXCEPT ![head[w]] = "pending"]
    /\ cooling' = cooling \cup {head[w]}
    /\ UNCHANGED status
    /\ WriteBack(w)

LeaseLost(w) ==
    /\ pc[w] = "complete" /\ ~Fenced(w)
    /\ EndCycle(w)
    /\ UNCHANGED <<endpointVars, later, deliveryVars, attempts, cutoff, bounds>>

-----------------------------------------------------------------------------
TryClaim(w) ==
    \/ TouchTenant(w) \/ CloseOrphanedAttempt(w) \/ CloseOrphanedAttemptFails(w)
    \/ RequeueOrphan(w) \/ FetchHead(w) \/ HeadNotReady(w) \/ ReleaseClaim(w)
    \/ InsertAttempt(w) \/ MarkInFlight(w)

Complete(w) ==
    \/ CompleteSucceeded(w) \/ CompleteHalted(w) \/ CompleteRetrying(w) \/ LeaseLost(w)

RunDeliveryCycle(w) ==
    \/ SelectCandidates(w) \/ ClaimEndpoint(w) \/ LoseRace(w)
    \/ TryClaim(w) \/ Send(w) \/ Complete(w)

Environment ==
    \/ \E b \in Batches : Enqueue(b)
    \/ \E e \in Endpoints : Pause(e) \/ Resume(e) \/ OrphanLapses(e) \/ HolderLapses(e)
    \/ \E d \in Deliveries : Cooled(d)
    \/ \E w \in Workers : Abort(w)

Next == (\E w \in Workers : RunDeliveryCycle(w)) \/ Environment

Spec == Init /\ [][Next]_vars

(* The worker loop runs for ever and every await in it returns: queries      *)
(* fail or answer, the HTTP call is bounded by its timeouts.  Time passes.   *)
FairSpec ==
    /\ Spec
    /\ \A w \in Workers : WF_vars(RunDeliveryCycle(w))
    /\ \A e \in Endpoints : WF_vars(OrphanLapses(e))
    /\ \A d \in Deliveries : WF_vars(Cooled(d))

-----------------------------------------------------------------------------
(* Properties.                                                             *)

(* The lease is held per endpoint so that an endpoint has never more than   *)
(* one delivery in flight, whoever crashes, stalls or is overtaken.         *)
OneInFlight ==
    \A e \in Endpoints : \A d1, d2 \in InFlight(e) : d1 = d2

(* R-11: a delivery is attempted only once every earlier delivery of its    *)
(* stream has reached a terminal state, even while the head backs off and   *)
(* a later one is ready.                                                    *)
StrictOrder ==
    \A d0, d \in Deliveries :
        SameStream(d0, d) /\ d0 < d /\ attemptCount[d] > 0 => Terminal(d0)

(* The attempts table tells the truth about success: a delivery succeeded   *)
(* exactly when one of its attempts recorded a 2xx, so neither a late       *)
(* write-back nor a reclaim can contradict an answer already recorded.      *)
HistoryAgrees ==
    \A d \in Deliveries :
        state[d] = "succeeded"
            <=> \E i \in DOMAIN attempts[d] : attempts[d][i].outcome = "2xx"

(* A delivery is failed exactly when an answer of the endpoint (not a       *)
(* worker's expired lease) used up the attempt ceiling.                     *)
FailedAtCeiling ==
    \A d \in Deliveries :
        state[d] = "failed"
            <=> \E i \in DOMAIN attempts[d] :
                  attempts[d][i].outcome = "failed" /\ attempts[d][i].number >= MaxAttempts

(* A halted endpoint stands still until it is resumed: no worker owns it    *)
(* and nothing on it is in flight.                                          *)
HaltedIsQuiescent ==
    \A e \in Endpoints :
        status[e] = "halted" => lease[e] = None /\ InFlight(e) = {}

(* CONTEXT.md: succeeded and failed have no exit at all.                    *)
TerminalIsFinal ==
    [][\A d \in Deliveries : Terminal(d) => state'[d] = state[d]]_vars

(* R-17 and "no acknowledged event is ever lost": a visible delivery is     *)
(* taken to a terminal state, or its endpoint stops being active.           *)
Delivered ==
    \A d \in Deliveries :
        state[d] \in {"pending", "in_flight"}
            ~> (Terminal(d) \/ status[EndpointOf[d]] # "active")

(* Whatever stalls, an answer of the endpoint once recorded stays recorded:  *)
(* the fence keeps a late write-back, and the filter on unanswered rows a   *)
(* late reclaim, away from it.                                              *)
AnswersAreKept ==
    [][\A d \in Deliveries : \A i \in DOMAIN attempts[d] :
         attempts[d][i].outcome \in {"2xx", "failed"}
             => attempts'[d][i] = attempts[d][i]]_vars

(* Whatever stalls, "succeeded" is never a guess: some attempt recorded a    *)
(* 2xx for it.                                                              *)
SucceededIsWitnessed ==
    \A d \in Deliveries :
        state[d] = "succeeded"
            => \E i \in DOMAIN attempts[d] : attempts[d][i].outcome = "2xx"

(* Seen through the tables, with a leased endpoint as a busy one, the       *)
(* workers and their races amount to the one-at-a-time, in-order queue that *)
(* EndpointQueue specifies.                                                 *)
Queue == INSTANCE EndpointQueue WITH busy <- {e \in Endpoints : lease[e] # None}

ImplementsQueue == Queue!Spec

-----------------------------------------------------------------------------
(* The inductive invariant, for claims that finish within their lease       *)
(* (ClaimStall = FALSE): who owns what between any two statements.          *)

(* A lease names a worker that is busy with that endpoint, and a worker     *)
(* still claiming holds its lease.                                          *)
LeaseOwned ==
    /\ \A w \in Workers, e \in Endpoints :
          lease[e] = w => pc[w] \in Claiming \cup Sending /\ current[w] = e
    /\ \A w \in Workers : pc[w] \in Claiming => Fenced(w)

(* A cutoff covers only leases that are stale now, a stale lease is not     *)
(* that of a worker still claiming, and a candidate whose stale lease the   *)
(* UPDATE may take over was read as busy.                                   *)
StaleIsReclaimable ==
    /\ \A w \in Workers : cutoff[w] \subseteq stale
    /\ \A w \in Workers, e \in stale : lease[e] = w => pc[w] \in Sending
    /\ \A w \in Workers : \A c \in candidates[w] : c.ep \in cutoff[w] => c.busy

(* A delivery in flight is under a lease: of a worker gone, of the worker   *)
(* sending it, or of one about to requeue it.                               *)
InFlightOwned ==
    \A d \in Deliveries : state[d] = "in_flight" =>
        /\ lease[EndpointOf[d]] # None
        /\ \A w \in Workers : lease[EndpointOf[d]] = w =>
              \/ pc[w] \in Sending /\ head[w] = d
              \/ pc[w] \in {"touch", "close", "requeue"} /\ reclaiming[w]

(* The head fetched stays the head until it is marked, and what the holder  *)
(* of the lease sends stays in flight.                                      *)
HeadIsOurs ==
    \A w \in Workers :
        /\ pc[w] \in {"insert", "mark"} =>
              /\ state[head[w]] = "pending"
              /\ \A d0 \in Deliveries :
                    SameStream(d0, head[w]) /\ d0 < head[w] => Terminal(d0)
        /\ pc[w] \in Sending /\ Fenced(w) => state[head[w]] = "in_flight"

(* Rows of a stream become visible in order.                                *)
VisibleInOrder ==
    \A d0, d \in Deliveries :
        SameStream(d0, d) /\ d0 < d /\ state[d] # "absent" => state[d0] # "absent"

(* The whole of it.                                                         *)
LeaseInvariant ==
    /\ TypeOK
    /\ LeaseOwned
    /\ StaleIsReclaimable
    /\ InFlightOwned
    /\ HeadIsOurs
    /\ VisibleInOrder
    /\ OneInFlight
    /\ StrictOrder
    /\ HaltedIsQuiescent

=============================================================================
