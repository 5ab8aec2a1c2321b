------------------------------- MODULE Expansion -------------------------------
(***************************************************************************)
(* From a publish request to rows in the delivery queue:                   *)
(* node/src/routes/events.ts and node/src/worker/expansion.ts, and their   *)
(* Go counterparts.                                                        *)
(*                                                                         *)
(* A publish inserts one events row under an idempotency key and is then   *)
(* acknowledged.  Later some worker, holding the tenant's advisory lock    *)
(* for one transaction, takes the tenant's oldest pending event, inserts a *)
(* delivery for every subscribed endpoint and marks the event expanded.    *)
(* A sequence number is drawn while a statement runs and becomes visible   *)
(* when its transaction commits: the two are different steps.              *)
(*                                                                         *)
(* An event is named by the request whose INSERT created it.               *)
(***************************************************************************)
EXTENDS Naturals, FiniteSets

CONSTANTS
    Workers,
    Tenants,
    Endpoints,
    Types,          \* event types
    TenantOf,       \* endpoints.tenant_id
    Wants,          \* endpoints.event_types
    Initially,      \* the endpoints that exist at the start
    LockKey,        \* hashtext(tenant_id): tenants may collide
    Requests,       \* POST /events
    Publishes,      \* a request's tenant, idempotency key and event type
    CandidateLimit, \* the candidates query's LIMIT
    MaxAborts,      \* bound: crashes of a worker
    None

ASSUME EndpointAssumption ==
    /\ TenantOf \in [Endpoints -> Tenants]
    /\ Wants \in [Endpoints -> SUBSET Types]
    /\ Initially \subseteq Endpoints

ASSUME TenantAssumption ==
    /\ IsFiniteSet(Tenants)
    /\ LockKey \in [Tenants -> Nat]

ASSUME RequestAssumption ==
    /\ \A r \in Requests : Publishes[r].tenant \in Tenants /\ Publishes[r].type \in Types
    /\ None \notin Workers \cup Requests \cup Tenants

ASSUME ExpansionBounds == CandidateLimit \in Nat \ {0} /\ MaxAborts \in Nat

VARIABLES
    nextSeq,       \* the sequence behind events.seq
    nextDelivery,  \* the sequence behind deliveries.seq
    request,       \* how far a publish request has got
    seq,           \* the events.seq its INSERT drew
    answer,        \* the event id of its 202
    event,         \* events.status; "absent" when there is no such row
    registered,    \* the endpoints rows
    deliveries,    \* the deliveries rows of events
    pc,            \* a worker's next statement
    candidates,    \* the tenants it has still to try, with their place
    current,       \* the tenant whose advisory lock its transaction holds
    reading,       \* the event that transaction expands
    rows,          \* the deliveries it has inserted and not committed
    aborts,
    earlier,       \* history: the events acknowledged before a request began
    known          \* history: the endpoints registered before a request began

publishVars == <<nextSeq, request, seq, answer, earlier, known>>
workerVars  == <<pc, candidates, current, reading, rows>>

vars == <<publishVars, nextDelivery, event, registered, deliveries, workerVars, aborts>>

Delivery == [seq : Nat, event : Requests, endpoint : Endpoints]

(* The tables and locals have their types, a 202 names an event, and an     *)
(* open transaction past the lock has the tenant and event it works on.     *)
ExpansionTypeOK ==
    /\ nextSeq \in Nat /\ nextDelivery \in Nat
    /\ request \in [Requests -> {"new", "inserting", "inserted", "conflict", "acked", "lost"}]
    /\ seq \in [Requests -> Nat]
    /\ answer \in [Requests -> Requests \cup {None}]
    /\ event \in [Requests -> {"absent", "pending_expansion", "expanded"}]
    /\ registered \subseteq Endpoints
    /\ deliveries \subseteq Delivery
    /\ pc \in [Workers -> {"idle", "begin", "read", "insert", "commit"}]
    /\ candidates \in [Workers -> SUBSET [tenant : Tenants, pos : Nat]]
    /\ current \in [Workers -> Tenants \cup {None}]
    /\ reading \in [Workers -> Requests \cup {None}]
    /\ rows \in [Workers -> SUBSET Delivery]
    /\ aborts \in Nat
    /\ earlier \in [Requests -> SUBSET Requests]
    /\ known \in [Requests -> SUBSET Endpoints]
    /\ \A r \in Requests : request[r] = "acked" => answer[r] # None
    /\ \A w \in Workers :
          /\ (current[w] # None) <=> (pc[w] \in {"read", "insert", "commit"})
          /\ (reading[w] # None) <=> (pc[w] \in {"insert", "commit"})

Init ==
    /\ nextSeq = 1 /\ nextDelivery = 1
    /\ request = [r \in Requests |-> "new"]
    /\ seq = [r \in Requests |-> 0]
    /\ answer = [r \in Requests |-> None]
    /\ event = [r \in Requests |-> "absent"]
    /\ registered = Initially
    /\ deliveries = {}
    /\ pc = [w \in Workers |-> "idle"]
    /\ candidates = [w \in Workers |-> {}]
    /\ current = [w \in Workers |-> None]
    /\ reading = [w \in Workers |-> None]
    /\ rows = [w \in Workers |-> {}]
    /\ aborts = 0
    /\ earlier = [r \in Requests |-> {}]
    /\ known = [r \in Requests |-> {}]

-----------------------------------------------------------------------------
(* POST /endpoints.                                                        *)
RegisterEndpoint(e) ==
    /\ e \notin registered
    /\ registered' = registered \cup {e}
    /\ UNCHANGED <<publishVars, nextDelivery, event, deliveries, workerVars, aborts>>

-----------------------------------------------------------------------------
(* POST /events.                                                           *)

SameKey(r, s) ==
    /\ Publishes[r].tenant = Publishes[s].tenant
    /\ Publishes[r].key = Publishes[s].key

Acknowledged == {answer[r] : r \in {q \in Requests : request[q] = "acked"}}

(* The INSERT evaluates its defaults: a seq is drawn, conflict or not.      *)
BeginPublish(r) ==
    /\ request[r] = "new"
    /\ request' = [request EXCEPT ![r] = "inserting"]
    /\ seq' = [seq EXCEPT ![r] = nextSeq]
    /\ nextSeq' = nextSeq + 1
    /\ earlier' = [earlier EXCEPT ![r] = Acknowledged]
    /\ known' = [known EXCEPT ![r] = registered]
    /\ UNCHANGED <<answer, nextDelivery, event, registered, deliveries, workerVars, aborts>>

Conflicts_Never(r) == FALSE                 \* slip: no unique index

(* UNIQUE (tenant_id, idempotency_key).                                     *)
Conflicts(r) == \E s \in Requests : event[s] # "absent" /\ SameKey(r, s)

(* It commits, and the row is there ...                                     *)
CommitPublish(r) ==
    /\ request[r] = "inserting"
    /\ ~Conflicts(r)
    /\ event' = [event EXCEPT ![r] = "pending_expansion"]
    /\ request' = [request EXCEPT ![r] = "inserted"]
    /\ UNCHANGED <<nextSeq, seq, answer, earlier, known, nextDelivery, registered,
                   deliveries, workerVars, aborts>>

(* ... or ON CONFLICT DO NOTHING inserts none.                              *)
ConflictOnKey(r) ==
    /\ request[r] = "inserting"
    /\ Conflicts(r)
    /\ request' = [request EXCEPT ![r] = "conflict"]
    /\ UNCHANGED <<nextSeq, seq, answer, earlier, known, nextDelivery, event, registered,
                   deliveries, workerVars, aborts>>

(* The event a 202 names: the one inserted, or the one the SELECT by key    *)
(* finds.                                                                   *)
EventOf(r, s) ==
    \/ request[r] = "inserted" /\ s = r
    \/ request[r] = "conflict" /\ event[s] # "absent" /\ SameKey(r, s)

Acknowledge(r) ==
    /\ \E s \in Requests : EventOf(r, s) /\ answer' = [answer EXCEPT ![r] = s]
    /\ request' = [request EXCEPT ![r] = "acked"]
    /\ UNCHANGED <<nextSeq, seq, earlier, known, nextDelivery, event, registered,
                   deliveries, workerVars, aborts>>

(* The connection or the API process dies before the 202; a row committed   *)
(* stays.                                                                   *)
LoseRequest(r) ==
    /\ request[r] \in {"inserting", "inserted", "conflict"}
    /\ request' = [request EXCEPT ![r] = "lost"]
    /\ UNCHANGED <<nextSeq, seq, answer, earlier, known, nextDelivery, event, registered,
                   deliveries, workerVars, aborts>>

-----------------------------------------------------------------------------
(* runExpansionCycle.                                                      *)

Pending(t) == {r \in Requests : event[r] = "pending_expansion" /\ Publishes[r].tenant = t}

Oldest_Any(t, r) == r \in Pending(t)        \* slip: no ORDER BY seq

Oldest(t, r) == r \in Pending(t) /\ \A s \in Pending(t) : seq[r] <= seq[s]

(* GROUP BY tenant_id ORDER BY MIN(seq) LIMIT 20.                           *)
Ahead(t, u) == \E r, s \in Requests : Oldest(t, r) /\ Oldest(u, s) /\ seq[r] < seq[s]

TenantQuery ==
    {c \in {[tenant |-> t, pos |-> Cardinality({u \in Tenants : Ahead(u, t)})] :
              t \in {u \in Tenants : Pending(u) # {}}} :
        c.pos < CandidateLimit}

SelectTenants(w) ==
    /\ pc[w] = "idle"
    /\ candidates' = [candidates EXCEPT ![w] = TenantQuery]
    /\ pc' = [pc EXCEPT ![w] = IF TenantQuery = {} THEN "idle" ELSE "begin"]
    /\ UNCHANGED <<publishVars, nextDelivery, event, registered, deliveries,
                   current, reading, rows, aborts>>

(* pg_try_advisory_xact_lock fails while another open transaction holds the *)
(* key; commit, rollback and a dropped connection all release it.           *)
LockFree_Always(t) == TRUE                  \* slip: expansion not serialised

LockFree(t) == \A v \in Workers : current[v] # None => LockKey[current[v]] # LockKey[t]

First(w, c) ==
    /\ c \in candidates[w]
    /\ \A o \in candidates[w] : c.pos <= o.pos

TryLock(w) ==
    /\ pc[w] = "begin"
    /\ \E c \in candidates[w] :
          /\ First(w, c)
          /\ LockFree(c.tenant)
          /\ candidates' = [candidates EXCEPT ![w] = @ \ {c}]
          /\ current' = [current EXCEPT ![w] = c.tenant]
    /\ pc' = [pc EXCEPT ![w] = "read"]
    /\ UNCHANGED <<publishVars, nextDelivery, event, registered, deliveries,
                   reading, rows, aborts>>

LockBusy(w) ==
    /\ pc[w] = "begin"
    /\ \E c \in candidates[w] :
          /\ First(w, c)
          /\ ~LockFree(c.tenant)
          /\ candidates' = [candidates EXCEPT ![w] = @ \ {c}]
          /\ pc' = [pc EXCEPT ![w] = IF candidates[w] = {c} THEN "idle" ELSE "begin"]
    /\ UNCHANGED <<publishVars, nextDelivery, event, registered, deliveries,
                   current, reading, rows, aborts>>

(* The tenant's oldest pending event, read under the lock.                  *)
ReadEvent(w) ==
    /\ pc[w] = "read"
    /\ \E r \in Requests :
          /\ Oldest(current[w], r)
          /\ reading' = [reading EXCEPT ![w] = r]
    /\ pc' = [pc EXCEPT ![w] = "insert"]
    /\ UNCHANGED <<publishVars, nextDelivery, event, registered, deliveries,
                   candidates, current, rows, aborts>>

NoEvent(w) ==
    /\ pc[w] = "read"
    /\ Pending(current[w]) = {}
    /\ current' = [current EXCEPT ![w] = None]
    /\ pc' = [pc EXCEPT ![w] = IF candidates[w] = {} THEN "idle" ELSE "begin"]
    /\ UNCHANGED <<publishVars, nextDelivery, event, registered, deliveries,
                   candidates, reading, rows, aborts>>

Subscribers(r) ==
    {e \in registered : TenantOf[e] = Publishes[r].tenant /\ Publishes[r].type \in Wants[e]}

(* INSERT INTO deliveries ... SELECT.  The rows of one statement go to      *)
(* different endpoints, so one number stands for the numbers it draws.      *)
InsertDeliveries(w) ==
    /\ pc[w] = "insert"
    /\ rows' = [rows EXCEPT ![w] =
                  {[seq |-> nextDelivery, event |-> reading[w], endpoint |-> e] :
                     e \in Subscribers(reading[w])}]
    /\ nextDelivery' = nextDelivery + 1
    /\ pc' = [pc EXCEPT ![w] = "commit"]
    /\ UNCHANGED <<publishVars, event, registered, deliveries, candidates, current,
                   reading, aborts>>

EndTransaction_KeepsLock(w) ==              \* slip: a session lock, never released
    /\ pc' = [pc EXCEPT ![w] = "idle"]
    /\ candidates' = [candidates EXCEPT ![w] = {}]
    /\ reading' = [reading EXCEPT ![w] = None]
    /\ rows' = [rows EXCEPT ![w] = {}]
    /\ UNCHANGED current

(* COMMIT or ROLLBACK, which also ends the loop over the tenants.           *)
EndTransaction(w) ==
    /\ pc' = [pc EXCEPT ![w] = "idle"]
    /\ candidates' = [candidates EXCEPT ![w] = {}]
    /\ current' = [current EXCEPT ![w] = None]
    /\ reading' = [reading EXCEPT ![w] = None]
    /\ rows' = [rows EXCEPT ![w] = {}]

CommitExpansion_NotMarked(w) ==             \* slip: the event stays pending
    /\ pc[w] = "commit"
    /\ deliveries' = deliveries \cup rows[w]
    /\ EndTransaction(w)
    /\ UNCHANGED <<publishVars, nextDelivery, event, registered, aborts>>

(* UPDATE events SET status = 'expanded', and COMMIT.                       *)
CommitExpansion(w) ==
    /\ pc[w] = "commit"
    /\ deliveries' = deliveries \cup rows[w]
    /\ event' = [event EXCEPT ![reading[w]] = "expanded"]
    /\ EndTransaction(w)
    /\ UNCHANGED <<publishVars, nextDelivery, registered, aborts>>

(* The worker dies, or a query throws: the transaction rolls back.          *)
AbortExpansion(w) ==
    /\ pc[w] # "idle"
    /\ aborts < MaxAborts
    /\ aborts' = aborts + 1
    /\ EndTransaction(w)
    /\ UNCHANGED <<publishVars, nextDelivery, event, registered, deliveries>>

-----------------------------------------------------------------------------
Publish(r) ==
    \/ BeginPublish(r) \/ CommitPublish(r) \/ ConflictOnKey(r) \/ Acknowledge(r)
    \/ LoseRequest(r)

RunExpansionCycle(w) ==
    \/ SelectTenants(w) \/ TryLock(w) \/ LockBusy(w) \/ ReadEvent(w) \/ NoEvent(w)
    \/ InsertDeliveries(w) \/ CommitExpansion(w)

Next ==
    \/ \E e \in Endpoints : RegisterEndpoint(e)
    \/ \E r \in Requests : Publish(r)
    \/ \E w \in Workers : RunExpansionCycle(w) \/ AbortExpansion(w)

Spec == Init /\ [][Next]_vars

(* The worker loop never stops and its transactions never wait on a lock.   *)
FairSpec == Spec /\ \A w \in Workers : WF_vars(RunExpansionCycle(w))

-----------------------------------------------------------------------------
(* Properties.                                                             *)

(* R-6: however often a key is published, concurrently or after a lost      *)
(* response, it makes one event and every 202 names that event.             *)
OneEventPerKey ==
    \A r, s \in Requests : SameKey(r, s) =>
        /\ event[r] # "absent" /\ event[s] # "absent" => r = s
        /\ request[r] = "acked" /\ request[s] = "acked" => answer[r] = answer[s]

(* R-10: an event is fanned out all at once and once only: nothing before   *)
(* it is expanded, then one delivery for every subscriber that was there    *)
(* when it was published, and never a second one.                           *)
FannedOutOnce ==
    /\ \A d1, d2 \in deliveries : d1.event = d2.event /\ d1.endpoint = d2.endpoint => d1 = d2
    /\ \A d \in deliveries : event[d.event] = "expanded"
    /\ \A r \in Requests : event[r] = "expanded" =>
          \A e \in known[r] \cap Subscribers(r) :
             \E d \in deliveries : d.event = r /\ d.endpoint = e

(* R-11, as far as a publisher can tell: an event acknowledged before       *)
(* another was published comes before it in the queue of every endpoint.    *)
AcknowledgedFirst ==
    \A d1, d2 \in deliveries :
        d1.endpoint = d2.endpoint /\ d1.event \in earlier[d2.event] => d1.seq < d2.seq

(* What the delivery worker relies on: the rows of an endpoint become       *)
(* visible in the order of deliveries.seq, never behind one already there.  *)
AppendsAtTail ==
    [][\A d \in deliveries' \ deliveries : \A d0 \in deliveries :
         d0.endpoint = d.endpoint => d0.seq < d.seq]_vars

(* "No acknowledged event is ever lost": it is expanded sooner or later,    *)
(* even if the worker holding the tenant's lock dies.                       *)
EventuallyExpanded ==
    \A r \in Requests : event[r] = "pending_expansion" ~> event[r] = "expanded"

=============================================================================
