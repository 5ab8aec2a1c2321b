---------------------------- MODULE ExpansionProofs ----------------------------
(***************************************************************************)
(* Proofs about Expansion, for any number of requests, workers, tenants    *)
(* and endpoints, colliding lock keys and crashes included.                *)
(***************************************************************************)
EXTENDS Expansion, FiniteSetTheorems, TLAPS

USE DEF publishVars, workerVars

(* The inductive invariant, whose parts ExpansionInvariant puts together.   *)

(* A key has one event, and a 202 names an event of its key.                *)
KeysAnswered ==
    /\ \A r, s \in Requests :
          SameKey(r, s) /\ event[r] # "absent" /\ event[s] # "absent" => r = s
    /\ \A r \in Requests :
          /\ request[r] = "new" => event[r] = "absent"
          /\ request[r] = "inserted" => event[r] # "absent"
          /\ request[r] = "acked" =>
                event[answer[r]] # "absent" /\ SameKey(r, answer[r])

(* What was there when a request began still is, and drew its seq before.   *)
EarlierIsThere ==
    \A r \in Requests :
        /\ seq[r] < nextSeq /\ known[r] \subseteq registered
        /\ \A s \in earlier[r] : event[s] # "absent" /\ seq[s] < seq[r]

(* The advisory lock keeps two transactions from one tenant, and from two   *)
(* tenants whose keys collide.                                              *)
TenantLocked ==
    \A v, w \in Workers :
        v # w /\ current[v] # None /\ current[w] # None
            => LockKey[current[v]] # LockKey[current[w]]

(* The tenant's events acknowledged before r began have been expanded.      *)
EarlierExpanded(r) ==
    \A s \in earlier[r] : Publishes[s].tenant = Publishes[r].tenant => event[s] = "expanded"

(* An event read under the lock stays pending until its reader commits.     *)
ReadingIsPending ==
    \A w \in Workers : pc[w] \in {"insert", "commit"} =>
        /\ event[reading[w]] = "pending_expansion"
        /\ Publishes[reading[w]].tenant = current[w]
        /\ EarlierExpanded(reading[w])

(* The rows a transaction is about to commit are one for each subscriber,   *)
(* and behind all that its tenant's endpoints have.                         *)
RowsAreNext ==
    \A w \in Workers : pc[w] = "commit" =>
        /\ \A d \in rows[w] :
              /\ d.event = reading[w] /\ TenantOf[d.endpoint] = current[w]
              /\ d.seq < nextDelivery
              /\ \A d0 \in deliveries : d0.endpoint = d.endpoint => d0.seq < d.seq
        /\ \A d1, d2 \in rows[w] : d1.endpoint = d2.endpoint => d1 = d2
        /\ \A e \in known[reading[w]] \cap Subscribers(reading[w]) :
              \E d \in rows[w] : d.endpoint = e

(* Deliveries go to the event's tenant, and events are expanded in order.   *)
ExpandedInOrder ==
    /\ \A d \in deliveries :
          d.seq < nextDelivery /\ TenantOf[d.endpoint] = Publishes[d.event].tenant
    /\ \A r \in Requests : event[r] = "expanded" => EarlierExpanded(r)

(* The whole of it.                                                         *)
ExpansionInvariant ==
    /\ ExpansionTypeOK
    /\ KeysAnswered
    /\ EarlierIsThere
    /\ TenantLocked
    /\ ReadingIsPending
    /\ RowsAreNext
    /\ ExpandedInOrder
    /\ FannedOutOnce
    /\ AcknowledgedFirst

-----------------------------------------------------------------------------

(* Every candidate of runExpansionCycle is a tenant with a place.           *)
LEMMA TenantQueryRows == TenantQuery \subseteq [tenant : Tenants, pos : Nat]
<1>1. ASSUME NEW t \in Tenants
      PROVE  Cardinality({u \in Tenants : Ahead(u, t)}) \in Nat
  BY TenantAssumption, FS_Subset, FS_CardinalityType
<1>2. ASSUME NEW c \in TenantQuery
      PROVE  c \in [tenant : Tenants, pos : Nat]
  <2>1. PICK t \in Tenants :
          c = [tenant |-> t, pos |-> Cardinality({u \in Tenants : Ahead(u, t)})]
    BY DEF TenantQuery
  <2> QED
    BY <1>1, <2>1
<1> QED
  BY <1>2

(* The empty tables and idle workers of a fresh start are well typed.       *)
LEMMA ExpansionTypeInit == Init => ExpansionTypeOK
  BY EndpointAssumption, TenantAssumption, RequestAssumption, ExpansionBounds
  DEF Init, ExpansionTypeOK

(* Every step keeps the types.                                              *)
LEMMA ExpansionTypeNext == ExpansionTypeOK /\ [Next]_vars => ExpansionTypeOK'
<1> SUFFICES ASSUME ExpansionTypeOK, [Next]_vars PROVE ExpansionTypeOK'
  OBVIOUS
<1> USE RequestAssumption
<1>1. ASSUME NEW e \in Endpoints, RegisterEndpoint(e) PROVE ExpansionTypeOK'
  BY <1>1 DEF ExpansionTypeOK, RegisterEndpoint
<1>2. ASSUME NEW r \in Requests, BeginPublish(r) PROVE ExpansionTypeOK'
  <2>1. Acknowledged \in SUBSET Requests
    BY DEF ExpansionTypeOK, Acknowledged
  <2> QED
    BY <1>2, <2>1 DEF ExpansionTypeOK, BeginPublish
<1>3. ASSUME NEW r \in Requests, CommitPublish(r) \/ ConflictOnKey(r) \/ LoseRequest(r)
      PROVE  ExpansionTypeOK'
  BY <1>3 DEF ExpansionTypeOK, CommitPublish, ConflictOnKey, LoseRequest
<1>4. ASSUME NEW r \in Requests, Acknowledge(r) PROVE ExpansionTypeOK'
  BY <1>4 DEF ExpansionTypeOK, Acknowledge, EventOf
<1>5. ASSUME NEW w \in Workers, SelectTenants(w) PROVE ExpansionTypeOK'
  BY <1>5, TenantQueryRows DEF ExpansionTypeOK, SelectTenants
<1>6. ASSUME NEW w \in Workers, TryLock(w) PROVE ExpansionTypeOK'
  <2>1. PICK c \in candidates[w] :
          /\ candidates' = [candidates EXCEPT ![w] = @ \ {c}]
          /\ current' = [current EXCEPT ![w] = c.tenant]
    BY <1>6 DEF TryLock
  <2>2. c.tenant \in Tenants
    BY <2>1 DEF ExpansionTypeOK
  <2> QED
    BY <1>6, <2>1, <2>2 DEF ExpansionTypeOK, TryLock
<1>7. ASSUME NEW w \in Workers, LockBusy(w) PROVE ExpansionTypeOK'
  BY <1>7 DEF ExpansionTypeOK, LockBusy
<1>8. ASSUME NEW w \in Workers, ReadEvent(w) PROVE ExpansionTypeOK'
  BY <1>8 DEF ExpansionTypeOK, ReadEvent
<1>9. ASSUME NEW w \in Workers, NoEvent(w) PROVE ExpansionTypeOK'
  BY <1>9 DEF ExpansionTypeOK, NoEvent
<1>10. ASSUME NEW w \in Workers, InsertDeliveries(w) PROVE ExpansionTypeOK'
  <2>1. /\ pc[w] = "insert" /\ reading[w] \in Requests /\ nextDelivery \in Nat
        /\ Subscribers(reading[w]) \subseteq Endpoints
    BY <1>10 DEF ExpansionTypeOK, InsertDeliveries, Subscribers
  <2>2. {[seq |-> nextDelivery, event |-> reading[w], endpoint |-> e] :
           e \in Subscribers(reading[w])} \subseteq Delivery
    BY <2>1 DEF Delivery
  <2> QED
    BY <1>10, <2>1, <2>2 DEF ExpansionTypeOK, InsertDeliveries
<1>11. ASSUME NEW w \in Workers, CommitExpansion(w) PROVE ExpansionTypeOK'
  BY <1>11 DEF ExpansionTypeOK, CommitExpansion, EndTransaction
<1>12. ASSUME NEW w \in Workers, AbortExpansion(w) PROVE ExpansionTypeOK'
  BY <1>12 DEF ExpansionTypeOK, AbortExpansion, EndTransaction
<1>13. CASE UNCHANGED vars
  BY <1>13 DEF ExpansionTypeOK, vars
<1> QED
  BY <1>1, <1>2, <1>3, <1>4, <1>5, <1>6, <1>7, <1>8, <1>9, <1>10, <1>11, <1>12, <1>13
  DEF Next, Publish, RunExpansionCycle

-----------------------------------------------------------------------------
(* The parts of the invariant, one by one.                                 *)

(* The unique index and the SELECT by key keep a key to one event.          *)
LEMMA KeysNext ==
    ASSUME ExpansionInvariant, [Next]_vars PROVE KeysAnswered'
<1>0. ExpansionTypeOK /\ KeysAnswered /\ ReadingIsPending
  BY DEF ExpansionInvariant
<1>1. CASE UNCHANGED <<request, answer, event>>
  BY <1>0, <1>1 DEF KeysAnswered
<1>2. ASSUME NEW r \in Requests, BeginPublish(r) PROVE KeysAnswered'
  BY <1>0, <1>2 DEF ExpansionTypeOK, KeysAnswered, BeginPublish
<1>3. ASSUME NEW r \in Requests, CommitPublish(r) PROVE KeysAnswered'
  <2>1. /\ request[r] = "inserting" /\ UNCHANGED answer
        /\ event' = [event EXCEPT ![r] = "pending_expansion"]
        /\ request' = [request EXCEPT ![r] = "inserted"]
        /\ \A s \in Requests : SameKey(r, s) => event[s] = "absent"
    BY <1>3 DEF CommitPublish, Conflicts
  <2>2. \A s, q \in Requests :
           SameKey(s, q) /\ event'[s] # "absent" /\ event'[q] # "absent" => s = q
    BY <1>0, <2>1 DEF ExpansionTypeOK, KeysAnswered, SameKey
  <2>3. ASSUME NEW s \in Requests
        PROVE  /\ request'[s] = "new" => event'[s] = "absent"
               /\ request'[s] = "inserted" => event'[s] # "absent"
               /\ request'[s] = "acked" => event'[answer'[s]] # "absent" /\ SameKey(s, answer'[s])
    BY <1>0, <2>1 DEF ExpansionTypeOK, KeysAnswered
  <2> QED
    BY <2>2, <2>3 DEF KeysAnswered
<1>4. ASSUME NEW r \in Requests, ConflictOnKey(r) \/ LoseRequest(r) PROVE KeysAnswered'
  BY <1>0, <1>4 DEF ExpansionTypeOK, KeysAnswered, ConflictOnKey, LoseRequest
<1>5. ASSUME NEW r \in Requests, Acknowledge(r) PROVE KeysAnswered'
  <2>1. PICK s \in Requests : EventOf(r, s) /\ answer' = [answer EXCEPT ![r] = s]
    BY <1>5 DEF Acknowledge
  <2>2. event[s] # "absent" /\ SameKey(r, s) /\ request[r] # "new"
    BY <1>0, <2>1 DEF KeysAnswered, EventOf, SameKey
  <2>3. request' = [request EXCEPT ![r] = "acked"] /\ UNCHANGED event
    BY <1>5 DEF Acknowledge
  <2> QED
    BY <1>0, <2>1, <2>2, <2>3 DEF ExpansionTypeOK, KeysAnswered
<1>6. ASSUME NEW w \in Workers, CommitExpansion(w) PROVE KeysAnswered'
  <2>1. /\ event[reading[w]] = "pending_expansion" /\ UNCHANGED <<request, answer>>
        /\ event' = [event EXCEPT ![reading[w]] = "expanded"]
    BY <1>0, <1>6 DEF CommitExpansion, ReadingIsPending
  <2>2. \A r \in Requests : event'[r] # "absent" <=> event[r] # "absent"
    BY <1>0, <2>1 DEF ExpansionTypeOK
  <2>3. \A r \in Requests : request[r] = "acked" => answer[r] \in Requests
    BY <1>0 DEF ExpansionTypeOK
  <2> QED
    BY <1>0, <2>1, <2>2, <2>3 DEF KeysAnswered
<1>7. ASSUME NEW w \in Workers,
             \/ SelectTenants(w) \/ TryLock(w) \/ LockBusy(w) \/ ReadEvent(w) \/ NoEvent(w)
             \/ InsertDeliveries(w) \/ AbortExpansion(w)
      PROVE  UNCHANGED <<request, answer, event>>
  BY <1>7 DEF SelectTenants, TryLock, LockBusy, ReadEvent, NoEvent, InsertDeliveries, AbortExpansion
<1>8. ASSUME NEW e \in Endpoints, RegisterEndpoint(e) PROVE UNCHANGED <<request, answer, event>>
  BY <1>8 DEF RegisterEndpoint
<1> QED
  BY <1>1, <1>2, <1>3, <1>4, <1>5, <1>6, <1>7, <1>8 DEF Next, Publish, RunExpansionCycle, vars

(* What a request found when it began is never taken away.                  *)
LEMMA EarlierNext ==
    ASSUME ExpansionInvariant, [Next]_vars PROVE EarlierIsThere'
<1>0. ExpansionTypeOK /\ KeysAnswered /\ EarlierIsThere /\ ReadingIsPending
  BY DEF ExpansionInvariant
<1>1. ASSUME UNCHANGED <<nextSeq, seq, known, earlier>>, registered \subseteq registered',
             \A r \in Requests : event[r] # "absent" => event'[r] # "absent"
      PROVE  EarlierIsThere'
  BY <1>0, <1>1 DEF ExpansionTypeOK, EarlierIsThere
<1>2. ASSUME NEW e \in Endpoints, RegisterEndpoint(e) PROVE EarlierIsThere'
  BY <1>1, <1>2 DEF RegisterEndpoint
<1>3. ASSUME NEW r \in Requests, BeginPublish(r) PROVE EarlierIsThere'
  <2>1. /\ event[r] = "absent" /\ UNCHANGED <<event, registered>>
        /\ seq' = [seq EXCEPT ![r] = nextSeq] /\ nextSeq' = nextSeq + 1
        /\ earlier' = [earlier EXCEPT ![r] = Acknowledged]
        /\ known' = [known EXCEPT ![r] = registered]
    BY <1>0, <1>3 DEF BeginPublish, KeysAnswered
  <2>2. ASSUME NEW s \in Acknowledged
        PROVE  s \in Requests /\ event[s] # "absent" /\ s # r
    BY <1>0, <2>1 DEF Acknowledged, KeysAnswered, ExpansionTypeOK
  <2>3. nextSeq \in Nat /\ \A s \in Requests : seq[s] \in Nat /\ seq[s] < nextSeq
    BY <1>0 DEF ExpansionTypeOK, EarlierIsThere
  <2>4. ASSUME NEW q \in Requests
        PROVE  seq'[q] < nextSeq' /\ known'[q] \subseteq registered'
    <3>1. CASE q = r
      BY <1>0, <2>1, <2>3, <3>1 DEF ExpansionTypeOK
    <3>2. CASE q # r
      BY <1>0, <2>1, <2>3, <3>2 DEF ExpansionTypeOK, EarlierIsThere
    <3> QED
      BY <3>1, <3>2
  <2>5. ASSUME NEW q \in Requests, NEW s \in earlier'[q]
        PROVE  event'[s] # "absent" /\ seq'[s] < seq'[q]
    <3>1. CASE q = r
      BY <1>0, <2>1, <2>2, <2>3, <2>5, <3>1 DEF ExpansionTypeOK
    <3>2. CASE q # r
      <4>1. s \in earlier[q] /\ s \in Requests /\ s # r
        BY <1>0, <2>1, <2>5, <3>2 DEF ExpansionTypeOK, EarlierIsThere
      <4> QED
        BY <1>0, <2>1, <3>2, <4>1 DEF ExpansionTypeOK, EarlierIsThere
    <3> QED
      BY <3>1, <3>2
  <2> QED
    BY <2>4, <2>5 DEF EarlierIsThere
<1>4. ASSUME NEW r \in Requests, CommitPublish(r) PROVE EarlierIsThere'
  BY <1>0, <1>1, <1>4 DEF CommitPublish, ExpansionTypeOK
<1>5. ASSUME NEW w \in Workers, CommitExpansion(w) PROVE EarlierIsThere'
  BY <1>0, <1>1, <1>5 DEF CommitExpansion, ExpansionTypeOK
<1>6. CASE UNCHANGED <<nextSeq, seq, known, earlier, registered, event>>
  BY <1>1, <1>6
<1>7. ASSUME NEW w \in Workers,
             \/ SelectTenants(w) \/ TryLock(w) \/ LockBusy(w) \/ ReadEvent(w) \/ NoEvent(w)
             \/ InsertDeliveries(w) \/ AbortExpansion(w)
      PROVE  UNCHANGED <<nextSeq, seq, known, earlier, registered, event>>
  BY <1>7 DEF SelectTenants, TryLock, LockBusy, ReadEvent, NoEvent, InsertDeliveries, AbortExpansion
<1>8. ASSUME NEW r \in Requests, ConflictOnKey(r) \/ Acknowledge(r) \/ LoseRequest(r)
      PROVE  UNCHANGED <<nextSeq, seq, known, earlier, registered, event>>
  BY <1>8 DEF ConflictOnKey, Acknowledge, LoseRequest
<1> QED
  BY <1>2, <1>3, <1>4, <1>5, <1>6, <1>7, <1>8 DEF Next, Publish, RunExpansionCycle, vars

(* Only pg_try_advisory_xact_lock gives a transaction a tenant.             *)
LEMMA LockedNext ==
    ASSUME ExpansionInvariant, [Next]_vars PROVE TenantLocked'
<1>0. ExpansionTypeOK /\ TenantLocked
  BY DEF ExpansionInvariant
<1>1. ASSUME \A w \in Workers : current'[w] \in {current[w], None} PROVE TenantLocked'
  BY <1>0, <1>1 DEF TenantLocked
<1>2. ASSUME NEW w \in Workers, TryLock(w) PROVE TenantLocked'
  <2>1. PICK c \in candidates[w] :
          LockFree(c.tenant) /\ current' = [current EXCEPT ![w] = c.tenant]
    BY <1>2 DEF TryLock
  <2> QED
    BY <1>0, <2>1 DEF ExpansionTypeOK, TenantLocked, LockFree
<1>3. ASSUME NEW w \in Workers, NoEvent(w) \/ CommitExpansion(w) \/ AbortExpansion(w)
      PROVE  TenantLocked'
  BY <1>0, <1>1, <1>3 DEF ExpansionTypeOK, NoEvent, CommitExpansion, AbortExpansion, EndTransaction
<1>4. CASE UNCHANGED current
  BY <1>1, <1>4
<1>5. ASSUME NEW w \in Workers,
             SelectTenants(w) \/ LockBusy(w) \/ ReadEvent(w) \/ InsertDeliveries(w)
      PROVE  UNCHANGED current
  BY <1>5 DEF SelectTenants, LockBusy, ReadEvent, InsertDeliveries
<1>6. ASSUME NEW r \in Requests, Publish(r) PROVE UNCHANGED current
  BY <1>6 DEF Publish, BeginPublish, CommitPublish, ConflictOnKey, Acknowledge, LoseRequest
<1>7. ASSUME NEW e \in Endpoints, RegisterEndpoint(e) PROVE UNCHANGED current
  BY <1>7 DEF RegisterEndpoint
<1> QED
  BY <1>2, <1>3, <1>4, <1>5, <1>6, <1>7 DEF Next, RunExpansionCycle, vars

(* Two transactions with an event in hand are in different tenants.         *)
LEMMA ReadersApart ==
    ASSUME ExpansionInvariant, NEW v \in Workers, NEW w \in Workers, v # w,
           pc[v] \in {"insert", "commit"}, pc[w] \in {"insert", "commit"}
    PROVE  current[v] # current[w] /\ reading[v] # reading[w]
  BY DEF ExpansionInvariant, ExpansionTypeOK, TenantLocked, ReadingIsPending

(* What a transaction has read stays true unless a step touches its event.  *)
LEMMA ReadingKept ==
    ASSUME ExpansionInvariant,
           \A r \in Requests : event[r] = "expanded" => event'[r] = "expanded",
           \A w \in Workers : pc'[w] \in {"insert", "commit"} =>
              /\ pc[w] \in {"insert", "commit"}
              /\ reading'[w] = reading[w] /\ current'[w] = current[w]
              /\ event'[reading[w]] = "pending_expansion"
              /\ earlier'[reading[w]] = earlier[reading[w]]
    PROVE  ReadingIsPending'
<1>1. ASSUME NEW w \in Workers, pc'[w] \in {"insert", "commit"}
      PROVE  /\ event'[reading'[w]] = "pending_expansion"
             /\ Publishes[reading'[w]].tenant = current'[w]
             /\ \A s \in earlier'[reading'[w]] :
                   Publishes[s].tenant = Publishes[reading'[w]].tenant => event'[s] = "expanded"
  <2>1. /\ event[reading[w]] = "pending_expansion"
        /\ Publishes[reading[w]].tenant = current[w]
        /\ EarlierExpanded(reading[w])
        /\ reading[w] \in Requests
    BY <1>1 DEF ExpansionInvariant, ReadingIsPending, ExpansionTypeOK
  <2>2. earlier[reading[w]] \subseteq Requests
    BY <2>1 DEF ExpansionInvariant, ExpansionTypeOK
  <2> QED
    BY <1>1, <2>1, <2>2 DEF EarlierExpanded
<1> QED
  BY <1>1 DEF ReadingIsPending, EarlierExpanded

(* The event a transaction holds is its tenant's to expand next.            *)
LEMMA ReadingNext ==
    ASSUME ExpansionInvariant, [Next]_vars PROVE ReadingIsPending'
<1>0. ExpansionTypeOK /\ KeysAnswered /\ EarlierIsThere /\ ReadingIsPending
  BY DEF ExpansionInvariant
<1>1. \A w \in Workers : pc[w] \in {"insert", "commit"} =>
         reading[w] \in Requests /\ event[reading[w]] = "pending_expansion"
  BY <1>0 DEF ExpansionTypeOK, ReadingIsPending
<1>2. CASE UNCHANGED <<pc, reading, current, event, earlier>>
  BY <1>1, <1>2, ReadingKept
<1>3. ASSUME NEW w \in Workers, UNCHANGED <<event, earlier>>,
             pc'[w] \in {"insert", "commit"} =>
                pc[w] = "insert" /\ reading'[w] = reading[w] /\ current'[w] = current[w],
             \A v \in Workers : v # w =>
                pc'[v] = pc[v] /\ reading'[v] = reading[v] /\ current'[v] = current[v]
      PROVE  ReadingIsPending'
  BY <1>1, <1>3, ReadingKept
<1>4. ASSUME NEW r \in Requests, BeginPublish(r) PROVE ReadingIsPending'
  <2>1. event[r] = "absent" /\ UNCHANGED <<pc, reading, current, event>>
        /\ earlier' = [earlier EXCEPT ![r] = Acknowledged]
    BY <1>0, <1>4 DEF BeginPublish, KeysAnswered
  <2> QED
    BY <1>0, <1>1, <2>1, ReadingKept DEF ExpansionTypeOK
<1>5. ASSUME NEW r \in Requests, CommitPublish(r) PROVE ReadingIsPending'
  <2>1. event[r] = "absent" /\ UNCHANGED <<pc, reading, current, earlier>>
        /\ event' = [event EXCEPT ![r] = "pending_expansion"]
    BY <1>5 DEF CommitPublish, Conflicts, SameKey
  <2> QED
    BY <1>0, <1>1, <2>1, ReadingKept DEF ExpansionTypeOK
<1>6. ASSUME NEW w \in Workers, SelectTenants(w) \/ LockBusy(w) \/ InsertDeliveries(w)
      PROVE  ReadingIsPending'
  <2>1. UNCHANGED <<event, earlier, reading, current>>
    BY <1>6 DEF SelectTenants, LockBusy, InsertDeliveries
  <2>2. /\ pc'[w] \in {"insert", "commit"} => pc[w] = "insert"
        /\ \A v \in Workers : v # w => pc'[v] = pc[v]
    BY <1>0, <1>6 DEF ExpansionTypeOK, SelectTenants, LockBusy, InsertDeliveries
  <2> QED
    BY <1>3, <2>1, <2>2
<1>7. ASSUME NEW w \in Workers, TryLock(w) \/ NoEvent(w) PROVE ReadingIsPending'
  BY <1>0, <1>3, <1>7 DEF ExpansionTypeOK, TryLock, NoEvent
<1>8. ASSUME NEW w \in Workers, AbortExpansion(w) PROVE ReadingIsPending'
  BY <1>0, <1>3, <1>8 DEF ExpansionTypeOK, AbortExpansion, EndTransaction
<1>9. ASSUME NEW w \in Workers, ReadEvent(w) PROVE ReadingIsPending'
  <2>1. PICK r \in Requests : Oldest(current[w], r) /\ reading' = [reading EXCEPT ![w] = r]
    BY <1>9 DEF ReadEvent
  <2>2. pc[w] = "read" /\ pc' = [pc EXCEPT ![w] = "insert"] /\ UNCHANGED <<event, earlier, current>>
    BY <1>9 DEF ReadEvent
  <2>3. ASSUME NEW s \in earlier[r], Publishes[s].tenant = Publishes[r].tenant
        PROVE  event[s] = "expanded"
    <3>1. s \in Requests /\ event[s] # "absent" /\ seq[s] < seq[r]
          /\ seq[s] \in Nat /\ seq[r] \in Nat
      BY <1>0 DEF ExpansionTypeOK, EarlierIsThere
    <3>2. event[s] # "pending_expansion"
      BY <2>1, <2>3, <3>1 DEF Oldest, Pending
    <3> QED
      BY <1>0, <3>1, <3>2 DEF ExpansionTypeOK
  <2>4. event[r] = "pending_expansion" /\ Publishes[r].tenant = current[w]
    BY <2>1 DEF Oldest, Pending
  <2>5. reading'[w] = r /\ \A v \in Workers : v # w => pc'[v] = pc[v] /\ reading'[v] = reading[v]
    BY <1>0, <2>1, <2>2 DEF ExpansionTypeOK
  <2>6. ASSUME NEW v \in Workers, pc'[v] \in {"insert", "commit"}
        PROVE  /\ event'[reading'[v]] = "pending_expansion"
               /\ Publishes[reading'[v]].tenant = current'[v]
               /\ \A s \in earlier'[reading'[v]] :
                     Publishes[s].tenant = Publishes[reading'[v]].tenant => event'[s] = "expanded"
    <3>1. CASE v = w
      BY <2>2, <2>3, <2>4, <2>5, <3>1 DEF EarlierExpanded
    <3>2. CASE v # w
      BY <1>0, <2>2, <2>5, <2>6, <3>2 DEF ReadingIsPending, EarlierExpanded
    <3> QED
      BY <3>1, <3>2
  <2> QED
    BY <2>6 DEF ReadingIsPending, EarlierExpanded
<1>10. ASSUME NEW w \in Workers, CommitExpansion(w) PROVE ReadingIsPending'
  <2>1. /\ pc[w] = "commit" /\ UNCHANGED earlier
        /\ event' = [event EXCEPT ![reading[w]] = "expanded"]
        /\ pc' = [pc EXCEPT ![w] = "idle"]
        /\ current' = [current EXCEPT ![w] = None]
        /\ reading' = [reading EXCEPT ![w] = None]
    BY <1>10 DEF CommitExpansion, EndTransaction
  <2>2. \A v \in Workers : v # w /\ pc[v] \in {"insert", "commit"} => reading[v] # reading[w]
    BY <2>1, ReadersApart
  <2>3. \A r \in Requests : event'[r] = IF r = reading[w] THEN "expanded" ELSE event[r]
    BY <1>0, <2>1 DEF ExpansionTypeOK
  <2>4. ASSUME NEW v \in Workers, pc'[v] \in {"insert", "commit"}
        PROVE  /\ v # w /\ pc[v] \in {"insert", "commit"}
               /\ reading'[v] = reading[v] /\ current'[v] = current[v]
    BY <1>0, <2>1, <2>4 DEF ExpansionTypeOK
  <2> QED
    BY <1>1, <2>1, <2>2, <2>3, <2>4, ReadingKept
<1>11. ASSUME NEW r \in Requests, ConflictOnKey(r) \/ Acknowledge(r) \/ LoseRequest(r)
       PROVE  ReadingIsPending'
  BY <1>2, <1>11 DEF ConflictOnKey, Acknowledge, LoseRequest
<1>12. ASSUME NEW e \in Endpoints, RegisterEndpoint(e) PROVE ReadingIsPending'
  BY <1>2, <1>12 DEF RegisterEndpoint
<1>13. CASE UNCHANGED vars
  BY <1>2, <1>13 DEF vars
<1> QED
  BY <1>4, <1>5, <1>6, <1>7, <1>8, <1>9, <1>10, <1>11, <1>12, <1>13
  DEF Next, Publish, RunExpansionCycle

(* Which steps write the deliveries table: the COMMIT of an expansion.      *)
LEMMA CommitsDeliveries ==
    ASSUME ExpansionInvariant, [Next]_vars
    PROVE  \/ UNCHANGED deliveries
           \/ \E w \in Workers : CommitExpansion(w)
<1>1. ASSUME NEW r \in Requests, Publish(r) PROVE UNCHANGED deliveries
  BY <1>1 DEF Publish, BeginPublish, CommitPublish, ConflictOnKey, Acknowledge, LoseRequest
<1>2. ASSUME NEW w \in Workers,
             \/ SelectTenants(w) \/ TryLock(w) \/ LockBusy(w) \/ ReadEvent(w) \/ NoEvent(w)
             \/ InsertDeliveries(w) \/ AbortExpansion(w)
      PROVE  UNCHANGED deliveries
  BY <1>2 DEF SelectTenants, TryLock, LockBusy, ReadEvent, NoEvent, InsertDeliveries, AbortExpansion
<1>3. ASSUME NEW e \in Endpoints, RegisterEndpoint(e) PROVE UNCHANGED deliveries
  BY <1>3 DEF RegisterEndpoint
<1> QED
  BY <1>1, <1>2, <1>3 DEF Next, RunExpansionCycle, vars

(* The COMMIT of an expansion, as the invariant sees it.                    *)
LEMMA CommitFacts ==
    ASSUME ExpansionInvariant, NEW w \in Workers, CommitExpansion(w)
    PROVE  /\ pc[w] = "commit" /\ reading[w] \in Requests /\ current[w] \in Tenants
           /\ deliveries' = deliveries \cup rows[w]
           /\ rows[w] \subseteq Delivery /\ deliveries \subseteq Delivery
           /\ event[reading[w]] = "pending_expansion"
           /\ \A r \in Requests : event'[r] = IF r = reading[w] THEN "expanded" ELSE event[r]
           /\ UNCHANGED <<nextSeq, seq, known, earlier, registered, nextDelivery>>
           /\ \A d \in rows[w] : d.event = reading[w] /\ TenantOf[d.endpoint] = current[w]
           /\ Publishes[reading[w]].tenant = current[w]
<1>1. /\ pc[w] = "commit" /\ deliveries' = deliveries \cup rows[w]
      /\ event' = [event EXCEPT ![reading[w]] = "expanded"]
      /\ UNCHANGED <<nextSeq, seq, known, earlier, registered, nextDelivery>>
  BY DEF CommitExpansion
<1>2. /\ reading[w] \in Requests /\ current[w] \in Tenants
      /\ rows[w] \subseteq Delivery /\ deliveries \subseteq Delivery
  BY <1>1 DEF ExpansionInvariant, ExpansionTypeOK
<1>3. event[reading[w]] = "pending_expansion" /\ Publishes[reading[w]].tenant = current[w]
  BY <1>1 DEF ExpansionInvariant, ReadingIsPending
<1>4. \A d \in rows[w] : d.event = reading[w] /\ TenantOf[d.endpoint] = current[w]
  BY <1>1 DEF ExpansionInvariant, RowsAreNext
<1>5. \A r \in Requests : event'[r] = IF r = reading[w] THEN "expanded" ELSE event[r]
  BY <1>1 DEF ExpansionInvariant, ExpansionTypeOK
<1> QED
  BY <1>1, <1>2, <1>3, <1>4, <1>5

(* Rows not committed yet are untouched by a step that leaves alone their   *)
(* transaction and commits nothing of its tenant's.                         *)
LEMMA RowsKept ==
    ASSUME ExpansionInvariant, nextDelivery' \in Nat, nextDelivery <= nextDelivery',
           registered \subseteq registered',
           \A w \in Workers : pc'[w] = "commit" =>
              /\ pc[w] = "commit"
              /\ rows'[w] = rows[w] /\ reading'[w] = reading[w] /\ current'[w] = current[w]
              /\ known'[reading[w]] = known[reading[w]]
              /\ \A d \in deliveries' \ deliveries : TenantOf[d.endpoint] # current[w]
    PROVE  RowsAreNext'
<1>1. ASSUME NEW w \in Workers, pc'[w] = "commit"
      PROVE  /\ \A d \in rows'[w] :
                   /\ d.event = reading'[w] /\ TenantOf[d.endpoint] = current'[w]
                   /\ d.seq < nextDelivery'
                   /\ \A d0 \in deliveries' : d0.endpoint = d.endpoint => d0.seq < d.seq
             /\ \A d1, d2 \in rows'[w] : d1.endpoint = d2.endpoint => d1 = d2
             /\ \A e \in known'[reading'[w]] :
                   /\ e \in registered' /\ TenantOf[e] = Publishes[reading'[w]].tenant
                   /\ Publishes[reading'[w]].type \in Wants[e]
                   => \E d \in rows'[w] : d.endpoint = e
  <2>1. /\ pc[w] = "commit" /\ reading[w] \in Requests /\ rows[w] \subseteq Delivery
        /\ nextDelivery \in Nat /\ \A d \in rows[w] : d.seq \in Nat
    BY <1>1 DEF ExpansionInvariant, ExpansionTypeOK, Delivery
  <2>2. known[reading[w]] \subseteq registered
    BY <2>1 DEF ExpansionInvariant, EarlierIsThere
  <2> QED
    BY <1>1, <2>1, <2>2 DEF ExpansionInvariant, RowsAreNext, Subscribers
<1> QED
  BY <1>1 DEF RowsAreNext, Subscribers

(* The rows a transaction has inserted are the next of its endpoints'.      *)
LEMMA RowsNext ==
    ASSUME ExpansionInvariant, [Next]_vars PROVE RowsAreNext'
<1>0. /\ ExpansionTypeOK /\ ExpansionTypeOK' /\ KeysAnswered /\ EarlierIsThere
      /\ ReadingIsPending /\ RowsAreNext /\ ExpandedInOrder
  BY ExpansionTypeNext DEF ExpansionInvariant
<1>1. nextDelivery' \in Nat /\ nextDelivery \in Nat
  BY <1>0 DEF ExpansionTypeOK
<1>2. ASSUME UNCHANGED <<nextDelivery, pc, rows, reading, current, deliveries, known>>,
             registered \subseteq registered'
      PROVE  RowsAreNext'
  BY <1>1, <1>2, RowsKept
<1>3. ASSUME NEW e \in Endpoints, RegisterEndpoint(e) PROVE RowsAreNext'
  BY <1>2, <1>3 DEF RegisterEndpoint
<1>4. ASSUME NEW r \in Requests, CommitPublish(r) \/ ConflictOnKey(r) \/ Acknowledge(r) \/ LoseRequest(r)
      PROVE  RowsAreNext'
  BY <1>2, <1>4 DEF CommitPublish, ConflictOnKey, Acknowledge, LoseRequest
<1>5. ASSUME NEW r \in Requests, BeginPublish(r) PROVE RowsAreNext'
  <2>1. /\ event[r] = "absent" /\ known' = [known EXCEPT ![r] = registered]
        /\ UNCHANGED <<nextDelivery, pc, rows, reading, current, deliveries, registered>>
    BY <1>0, <1>5 DEF BeginPublish, KeysAnswered
  <2>2. \A w \in Workers : pc[w] = "commit" => known'[reading[w]] = known[reading[w]]
    BY <1>0, <2>1 DEF ReadingIsPending, ExpansionTypeOK
  <2> QED
    BY <1>1, <2>1, <2>2, RowsKept
<1>6. ASSUME NEW w \in Workers, UNCHANGED <<nextDelivery, deliveries, known, registered>>,
             pc'[w] # "commit",
             \A v \in Workers : v # w =>
                pc'[v] = pc[v] /\ rows'[v] = rows[v] /\ reading'[v] = reading[v] /\ current'[v] = current[v]
      PROVE  RowsAreNext'
  BY <1>1, <1>6, RowsKept
<1>7. ASSUME NEW w \in Workers, SelectTenants(w) \/ LockBusy(w) PROVE RowsAreNext'
  BY <1>0, <1>6, <1>7 DEF ExpansionTypeOK, SelectTenants, LockBusy
<1>8. ASSUME NEW w \in Workers, TryLock(w) \/ ReadEvent(w) \/ NoEvent(w) PROVE RowsAreNext'
  BY <1>0, <1>6, <1>8 DEF ExpansionTypeOK, TryLock, ReadEvent, NoEvent
<1>9. ASSUME NEW w \in Workers, AbortExpansion(w) PROVE RowsAreNext'
  BY <1>0, <1>6, <1>9 DEF ExpansionTypeOK, AbortExpansion, EndTransaction
<1>10. ASSUME NEW w \in Workers, CommitExpansion(w) PROVE RowsAreNext'
  <2>1. /\ pc[w] = "commit" /\ deliveries' = deliveries \cup rows[w]
        /\ UNCHANGED <<known, registered, nextDelivery>>
        /\ \A d \in rows[w] : TenantOf[d.endpoint] = current[w]
    BY <1>10, CommitFacts
  <2>2. ASSUME NEW v \in Workers, pc'[v] = "commit"
        PROVE  /\ v # w /\ pc[v] = "commit" /\ rows'[v] = rows[v]
               /\ reading'[v] = reading[v] /\ current'[v] = current[v]
    <3>1. v # w
      BY <1>0, <1>10, <2>2 DEF ExpansionTypeOK, CommitExpansion, EndTransaction
    <3> QED
      BY <1>0, <1>10, <2>2, <3>1 DEF ExpansionTypeOK, CommitExpansion, EndTransaction
  <2>3. ASSUME NEW v \in Workers, pc'[v] = "commit" PROVE current[v] # current[w]
    BY <2>1, <2>2, <2>3, ReadersApart
  <2> QED
    BY <1>1, <2>1, <2>2, <2>3, RowsKept
<1>11. ASSUME NEW w \in Workers, InsertDeliveries(w) PROVE RowsAreNext'
  <2>1. /\ pc[w] = "insert" /\ pc' = [pc EXCEPT ![w] = "commit"]
        /\ rows' = [rows EXCEPT ![w] =
                      {[seq |-> nextDelivery, event |-> reading[w], endpoint |-> e] :
                         e \in Subscribers(reading[w])}]
        /\ nextDelivery' = nextDelivery + 1
        /\ UNCHANGED <<deliveries, known, registered, reading, current>>
    BY <1>11 DEF InsertDeliveries
  <2>2. /\ reading[w] \in Requests /\ Publishes[reading[w]].tenant = current[w]
        /\ pc'[w] = "commit"
        /\ rows'[w] = {[seq |-> nextDelivery, event |-> reading[w], endpoint |-> e] :
                         e \in Subscribers(reading[w])}
        /\ \A v \in Workers : v # w => pc'[v] = pc[v] /\ rows'[v] = rows[v]
    BY <1>0, <2>1 DEF ExpansionTypeOK, ReadingIsPending
  <2>3. \A d \in deliveries : d.seq < nextDelivery
    BY <1>0 DEF ExpandedInOrder
  <2>4. /\ \A d \in rows'[w] :
              /\ d.event = reading[w] /\ TenantOf[d.endpoint] = current[w]
              /\ d.seq = nextDelivery
        /\ \A d1, d2 \in rows'[w] : d1.endpoint = d2.endpoint => d1 = d2
        /\ \A e \in Subscribers(reading[w]) : \E d \in rows'[w] : d.endpoint = e
    <3> DEFINE RowFor(e) == [seq |-> nextDelivery, event |-> reading[w], endpoint |-> e]
    <3>1. ASSUME NEW d \in rows'[w]
          PROVE  \E e \in Subscribers(reading[w]) : d = RowFor(e)
      BY <2>2
    <3>2. ASSUME NEW d \in rows'[w]
          PROVE  /\ d.event = reading[w] /\ TenantOf[d.endpoint] = current[w]
                 /\ d.seq = nextDelivery /\ d = RowFor(d.endpoint)
      <4>1. PICK e \in Subscribers(reading[w]) : d = RowFor(e)
        BY <3>1
      <4>2. d.event = reading[w] /\ d.seq = nextDelivery /\ d.endpoint = e
        BY <4>1
      <4>3. TenantOf[e] = current[w]
        BY <2>2 DEF Subscribers
      <4> QED
        BY <4>1, <4>2, <4>3
    <3>3. ASSUME NEW e \in Subscribers(reading[w])
          PROVE  RowFor(e) \in rows'[w] /\ RowFor(e).endpoint = e
      BY <2>2
    <3>4. ASSUME NEW d1 \in rows'[w], NEW d2 \in rows'[w], d1.endpoint = d2.endpoint
          PROVE  d1 = d2
      <4>1. d1 = RowFor(d1.endpoint) /\ d2 = RowFor(d2.endpoint)
        BY <3>2
      <4> QED
        BY <3>4, <4>1
    <3>5. \A e \in Subscribers(reading[w]) : \E d \in rows'[w] : d.endpoint = e
      BY <3>3
    <3> HIDE DEF RowFor
    <3> QED
      BY <3>2, <3>4, <3>5
  <2>5. ASSUME NEW v \in Workers, v # w, pc'[v] = "commit"
        PROVE  \A d \in rows[v] : d.seq \in Nat
    BY <1>0 DEF ExpansionTypeOK, Delivery
  <2>6. ASSUME NEW v \in Workers, pc'[v] = "commit"
        PROVE  /\ \A d \in rows'[v] :
                     /\ d.event = reading[v] /\ TenantOf[d.endpoint] = current[v]
                     /\ d.seq < nextDelivery'
                     /\ \A d0 \in deliveries : d0.endpoint = d.endpoint => d0.seq < d.seq
               /\ \A d1, d2 \in rows'[v] : d1.endpoint = d2.endpoint => d1 = d2
               /\ \A e \in known[reading[v]] \cap Subscribers(reading[v]) :
                     \E d \in rows'[v] : d.endpoint = e
    <3>1. CASE v = w
      BY <1>1, <2>1, <2>3, <2>4, <3>1
    <3>2. CASE v # w
      BY <1>0, <1>1, <2>1, <2>2, <2>5, <2>6, <3>2 DEF RowsAreNext
    <3> QED
      BY <3>1, <3>2
  <2> QED
    BY <2>1, <2>6 DEF RowsAreNext, Subscribers
<1>12. CASE UNCHANGED vars
  BY <1>2, <1>12 DEF vars
<1> QED
  BY <1>3, <1>4, <1>5, <1>7, <1>8, <1>9, <1>10, <1>11, <1>12 DEF Next, Publish, RunExpansionCycle

(* What is there stays there: numbers, endpoints, and how far an event got. *)
LEMMA NothingTakenBack ==
    ASSUME ExpansionInvariant, [Next]_vars
    PROVE  /\ nextDelivery <= nextDelivery' /\ nextDelivery' \in Nat
           /\ registered \subseteq registered'
           /\ \A r \in Requests : event[r] # "absent" =>
                 /\ seq'[r] = seq[r] /\ earlier'[r] = earlier[r] /\ known'[r] = known[r]
<1>0. ExpansionTypeOK /\ ExpansionTypeOK' /\ KeysAnswered /\ nextDelivery \in Nat /\ nextDelivery' \in Nat
  BY ExpansionTypeNext DEF ExpansionInvariant, ExpansionTypeOK
<1>1. ASSUME NEW r \in Requests, BeginPublish(r)
      PROVE  /\ UNCHANGED <<nextDelivery, registered>>
             /\ \A q \in Requests : event[q] # "absent" =>
                   /\ seq'[q] = seq[q] /\ earlier'[q] = earlier[q] /\ known'[q] = known[q]
  BY <1>0, <1>1 DEF BeginPublish, KeysAnswered, ExpansionTypeOK
<1>2. ASSUME NEW r \in Requests,
             CommitPublish(r) \/ ConflictOnKey(r) \/ Acknowledge(r) \/ LoseRequest(r)
      PROVE  UNCHANGED <<nextDelivery, registered, seq, earlier, known>>
  BY <1>2 DEF CommitPublish, ConflictOnKey, Acknowledge, LoseRequest
<1>3. ASSUME NEW w \in Workers,
             \/ SelectTenants(w) \/ TryLock(w) \/ LockBusy(w) \/ ReadEvent(w) \/ NoEvent(w)
             \/ CommitExpansion(w) \/ AbortExpansion(w)
      PROVE  UNCHANGED <<nextDelivery, registered, seq, earlier, known>>
  BY <1>3 DEF SelectTenants, TryLock, LockBusy, ReadEvent, NoEvent, CommitExpansion, AbortExpansion
<1>4. ASSUME NEW w \in Workers, InsertDeliveries(w)
      PROVE  nextDelivery' = nextDelivery + 1 /\ UNCHANGED <<registered, seq, earlier, known>>
  BY <1>4 DEF InsertDeliveries
<1>5. ASSUME NEW e \in Endpoints, RegisterEndpoint(e)
      PROVE  registered \subseteq registered' /\ UNCHANGED <<nextDelivery, seq, earlier, known>>
  BY <1>5 DEF RegisterEndpoint
<1> QED
  BY <1>0, <1>1, <1>2, <1>3, <1>4, <1>5 DEF Next, Publish, RunExpansionCycle, vars

(* An event becomes expanded in the COMMIT of its expansion, and stays so.  *)
LEMMA CommitsExpanded ==
    ASSUME ExpansionInvariant, [Next]_vars
    PROVE  \/ \E w \in Workers : CommitExpansion(w)
           \/ \A r \in Requests : event'[r] = "expanded" <=> event[r] = "expanded"
<1>0. ExpansionTypeOK
  BY DEF ExpansionInvariant
<1>1. ASSUME NEW r \in Requests, CommitPublish(r)
      PROVE  \A q \in Requests : event'[q] = "expanded" <=> event[q] = "expanded"
  <2>1. event' = [event EXCEPT ![r] = "pending_expansion"] /\ event[r] = "absent"
    BY <1>1 DEF CommitPublish, Conflicts, SameKey
  <2> QED
    BY <1>0, <2>1 DEF ExpansionTypeOK
<1>2. ASSUME NEW r \in Requests,
             BeginPublish(r) \/ ConflictOnKey(r) \/ Acknowledge(r) \/ LoseRequest(r)
      PROVE  UNCHANGED event
  BY <1>2 DEF BeginPublish, ConflictOnKey, Acknowledge, LoseRequest
<1>3. ASSUME NEW w \in Workers,
             \/ SelectTenants(w) \/ TryLock(w) \/ LockBusy(w) \/ ReadEvent(w) \/ NoEvent(w)
             \/ InsertDeliveries(w) \/ AbortExpansion(w)
      PROVE  UNCHANGED event
  BY <1>3 DEF SelectTenants, TryLock, LockBusy, ReadEvent, NoEvent, InsertDeliveries, AbortExpansion
<1>4. ASSUME NEW e \in Endpoints, RegisterEndpoint(e) PROVE UNCHANGED event
  BY <1>4 DEF RegisterEndpoint
<1> QED
  BY <1>1, <1>2, <1>3, <1>4 DEF Next, Publish, RunExpansionCycle, vars

(* Events are expanded behind those acknowledged before them.               *)
LEMMA ExpandedNext ==
    ASSUME ExpansionInvariant, [Next]_vars PROVE ExpandedInOrder'
<1>0. /\ ExpansionTypeOK /\ ExpandedInOrder /\ ReadingIsPending /\ RowsAreNext
      /\ nextDelivery \in Nat /\ nextDelivery' \in Nat /\ nextDelivery <= nextDelivery'
      /\ \A r \in Requests : event[r] # "absent" => earlier'[r] = earlier[r]
      /\ \A r \in Requests : earlier[r] \subseteq Requests
      /\ \A d \in deliveries : d.seq \in Nat
  BY NothingTakenBack DEF ExpansionInvariant, ExpansionTypeOK, Delivery
<1>1. ASSUME NEW w \in Workers, CommitExpansion(w) PROVE ExpandedInOrder'
  <2>0. /\ pc[w] = "commit" /\ reading[w] \in Requests
        /\ deliveries' = deliveries \cup rows[w] /\ nextDelivery' = nextDelivery
        /\ rows[w] \subseteq Delivery
        /\ \A r \in Requests : event'[r] = IF r = reading[w] THEN "expanded" ELSE event[r]
        /\ \A d \in rows[w] : d.event = reading[w] /\ TenantOf[d.endpoint] = current[w]
        /\ Publishes[reading[w]].tenant = current[w]
        /\ UNCHANGED earlier
    BY <1>1, CommitFacts
  <2>1. ASSUME NEW d \in deliveries'
        PROVE  d.seq < nextDelivery' /\ TenantOf[d.endpoint] = Publishes[d.event].tenant
    BY <1>0, <2>0 DEF ExpandedInOrder, RowsAreNext
  <2>2. EarlierExpanded(reading[w])
    BY <1>0, <2>0 DEF ReadingIsPending
  <2>3. ASSUME NEW r \in Requests, event'[r] = "expanded",
               NEW s \in earlier'[r], Publishes[s].tenant = Publishes[r].tenant
        PROVE  event'[s] = "expanded"
    <3>1. EarlierExpanded(r) /\ s \in Requests
      BY <1>0, <2>0, <2>2, <2>3 DEF ExpandedInOrder
    <3> QED
      BY <2>0, <2>3, <3>1 DEF EarlierExpanded
  <2> QED
    BY <2>1, <2>3 DEF ExpandedInOrder, EarlierExpanded
<1>2. ASSUME UNCHANGED deliveries,
             \A r \in Requests : event'[r] = "expanded" <=> event[r] = "expanded"
      PROVE  ExpandedInOrder'
  <2>1. ASSUME NEW r \in Requests, event'[r] = "expanded",
               NEW s \in earlier'[r], Publishes[s].tenant = Publishes[r].tenant
        PROVE  event'[s] = "expanded"
    BY <1>0, <1>2, <2>1 DEF ExpandedInOrder, EarlierExpanded
  <2>2. ASSUME NEW d \in deliveries
        PROVE  d.seq < nextDelivery' /\ TenantOf[d.endpoint] = Publishes[d.event].tenant
    BY <1>0 DEF ExpandedInOrder
  <2> QED
    BY <1>2, <2>1, <2>2 DEF ExpandedInOrder, EarlierExpanded
<1> QED
  BY <1>1, <1>2, CommitsDeliveries, CommitsExpanded

(* One COMMIT writes all of an event's deliveries and marks it.             *)
LEMMA FannedNext ==
    ASSUME ExpansionInvariant, [Next]_vars PROVE FannedOutOnce'
<1>0. /\ ExpansionTypeOK /\ FannedOutOnce /\ RowsAreNext
      /\ \A r \in Requests : event[r] # "absent" => known'[r] = known[r]
      /\ \A r \in Requests : known[r] \subseteq registered
      /\ registered \subseteq registered'
      /\ \A d \in deliveries : d.event \in Requests
  BY NothingTakenBack DEF ExpansionInvariant, EarlierIsThere, ExpansionTypeOK, Delivery
<1>1. ASSUME NEW w \in Workers, CommitExpansion(w) PROVE FannedOutOnce'
  <2>0. /\ pc[w] = "commit" /\ reading[w] \in Requests
        /\ deliveries' = deliveries \cup rows[w]
        /\ event[reading[w]] = "pending_expansion"
        /\ \A r \in Requests : event'[r] = IF r = reading[w] THEN "expanded" ELSE event[r]
        /\ UNCHANGED <<known, registered>>
        /\ \A d \in rows[w] : d.event = reading[w]
    BY <1>1, CommitFacts
  <2>1. \A d \in deliveries : d.event # reading[w] /\ event[d.event] = "expanded"
    BY <1>0, <2>0 DEF FannedOutOnce
  <2>2. \A d1, d2 \in rows[w] : d1.endpoint = d2.endpoint => d1 = d2
    BY <1>0, <2>0 DEF RowsAreNext
  <2>3. \A d1, d2 \in deliveries' : d1.event = d2.event /\ d1.endpoint = d2.endpoint => d1 = d2
    BY <1>0, <2>0, <2>1, <2>2 DEF FannedOutOnce
  <2>4. \A d \in deliveries' : event'[d.event] = "expanded"
    BY <1>0, <2>0, <2>1
  <2>5. ASSUME NEW r \in Requests, event'[r] = "expanded",
               NEW e \in known[r] \cap Subscribers(r)
        PROVE  \E d \in deliveries' : d.event = r /\ d.endpoint = e
    <3>1. CASE r = reading[w]
      <4>1. PICK d \in rows[w] : d.endpoint = e
        BY <1>0, <2>0, <3>1 DEF RowsAreNext
      <4> QED
        BY <2>0, <3>1, <4>1
    <3>2. CASE r # reading[w]
      <4>1. PICK d \in deliveries : d.event = r /\ d.endpoint = e
        BY <1>0, <2>0, <2>5, <3>2 DEF FannedOutOnce
      <4> QED
        BY <2>0, <4>1
    <3> QED
      BY <3>1, <3>2
  <2> QED
    BY <2>0, <2>3, <2>4, <2>5 DEF FannedOutOnce, Subscribers
<1>2. ASSUME UNCHANGED deliveries,
             \A r \in Requests : event'[r] = "expanded" <=> event[r] = "expanded"
      PROVE  FannedOutOnce'
  <2>1. ASSUME NEW r \in Requests, event'[r] = "expanded", NEW e \in known'[r],
               TenantOf[e] = Publishes[r].tenant, Publishes[r].type \in Wants[e]
        PROVE  \E d \in deliveries : d.event = r /\ d.endpoint = e
    <3>1. e \in known[r] /\ e \in registered /\ event[r] = "expanded"
      BY <1>0, <1>2, <2>1
    <3> QED
      BY <1>0, <2>1, <3>1 DEF FannedOutOnce, Subscribers
  <2>2. \A d \in deliveries : event'[d.event] = "expanded"
    BY <1>0, <1>2 DEF FannedOutOnce
  <2>3. \A d1, d2 \in deliveries : d1.event = d2.event /\ d1.endpoint = d2.endpoint => d1 = d2
    BY <1>0 DEF FannedOutOnce
  <2> QED
    BY <1>2, <2>1, <2>2, <2>3 DEF FannedOutOnce, Subscribers
<1> QED
  BY <1>1, <1>2, CommitsDeliveries, CommitsExpanded

(* The tenant's lock and its oldest-first order keep the publishers' order. *)
LEMMA AckNext ==
    ASSUME ExpansionInvariant, [Next]_vars PROVE AcknowledgedFirst'
<1>0. /\ ExpansionTypeOK /\ EarlierIsThere /\ AcknowledgedFirst /\ RowsAreNext /\ ExpandedInOrder
      /\ FannedOutOnce /\ ReadingIsPending
      /\ \A r \in Requests : event[r] # "absent" => earlier'[r] = earlier[r]
      /\ \A d \in deliveries : d.event \in Requests
  BY NothingTakenBack DEF ExpansionInvariant, ExpansionTypeOK, Delivery
<1>1. ASSUME NEW w \in Workers, CommitExpansion(w) PROVE AcknowledgedFirst'
  <2>0. /\ pc[w] = "commit" /\ reading[w] \in Requests
        /\ deliveries' = deliveries \cup rows[w]
        /\ event[reading[w]] = "pending_expansion"
        /\ UNCHANGED earlier
        /\ \A d \in rows[w] : d.event = reading[w] /\ TenantOf[d.endpoint] = current[w]
        /\ Publishes[reading[w]].tenant = current[w]
    BY <1>1, CommitFacts
  <2>1. reading[w] \notin earlier[reading[w]]
    BY <1>0, <2>0 DEF EarlierIsThere, ExpansionTypeOK
  <2>2. ASSUME NEW d1 \in deliveries', NEW d2 \in deliveries',
               d1.endpoint = d2.endpoint, d1.event \in earlier'[d2.event]
        PROVE  d1.seq < d2.seq
    <3>1. CASE d1 \in deliveries /\ d2 \in deliveries
      BY <1>0, <2>0, <2>2, <3>1 DEF AcknowledgedFirst
    <3>2. CASE d1 \in deliveries /\ d2 \in rows[w]
      BY <1>0, <2>0, <2>2, <3>2 DEF RowsAreNext
    <3>3. CASE d1 \in rows[w] /\ d2 \in rows[w]
      BY <2>0, <2>1, <2>2, <3>3
    <3>4. CASE d1 \in rows[w] /\ d2 \in deliveries
      <4>1. event[d2.event] = "expanded" /\ TenantOf[d2.endpoint] = Publishes[d2.event].tenant
        BY <1>0, <3>4 DEF FannedOutOnce, ExpandedInOrder
      <4>2. EarlierExpanded(d2.event)
        BY <1>0, <3>4, <4>1 DEF ExpandedInOrder
      <4>3. reading[w] \in earlier[d2.event] /\ Publishes[d2.event].tenant = current[w]
        BY <2>0, <2>2, <3>4, <4>1
      <4>4. event[reading[w]] = "expanded"
        BY <2>0, <4>2, <4>3 DEF EarlierExpanded
      <4> QED
        BY <2>0, <4>4
    <3> QED
      BY <2>0, <2>2, <3>1, <3>2, <3>3, <3>4
  <2> QED
    BY <2>2 DEF AcknowledgedFirst
<1>2. CASE UNCHANGED deliveries
  <2>1. \A d \in deliveries : earlier'[d.event] = earlier[d.event]
    BY <1>0 DEF FannedOutOnce
  <2> QED
    BY <1>0, <1>2, <2>1 DEF AcknowledgedFirst
<1> QED
  BY <1>1, <1>2, CommitsDeliveries

-----------------------------------------------------------------------------
(* A fresh start has no events, transactions or deliveries.                 *)
LEMMA ExpansionInit == Init => ExpansionInvariant
<1> SUFFICES ASSUME Init PROVE ExpansionInvariant
  OBVIOUS
<1>1. ExpansionTypeOK
  BY ExpansionTypeInit
<1>2. KeysAnswered /\ EarlierIsThere /\ TenantLocked
  BY DEF Init, KeysAnswered, EarlierIsThere, TenantLocked
<1>3. ReadingIsPending /\ RowsAreNext
  BY DEF Init, ReadingIsPending, RowsAreNext
<1>4. ExpandedInOrder /\ FannedOutOnce /\ AcknowledgedFirst
  BY DEF Init, ExpandedInOrder, FannedOutOnce, AcknowledgedFirst
<1> QED
  BY <1>1, <1>2, <1>3, <1>4 DEF ExpansionInvariant

(* Every step of every process keeps the whole of it.                       *)
LEMMA ExpansionNext == ExpansionInvariant /\ [Next]_vars => ExpansionInvariant'
<1> SUFFICES ASSUME ExpansionInvariant, [Next]_vars PROVE ExpansionInvariant'
  OBVIOUS
<1>1. ExpansionTypeOK' /\ KeysAnswered' /\ EarlierIsThere' /\ TenantLocked'
  BY ExpansionTypeNext, KeysNext, EarlierNext, LockedNext DEF ExpansionInvariant
<1>2. ReadingIsPending' /\ RowsAreNext' /\ ExpandedInOrder' /\ FannedOutOnce' /\ AcknowledgedFirst'
  BY ReadingNext, RowsNext, ExpandedNext, FannedNext, AckNext
<1> QED
  BY <1>1, <1>2 DEF ExpansionInvariant

-----------------------------------------------------------------------------
(* Publish requests, expansion transactions and crashes keep the tables and *)
(* locals well typed.                                                       *)
THEOREM ExpansionTypeCorrect == Spec => []ExpansionTypeOK
<1> QED
  BY ExpansionTypeInit, ExpansionTypeNext, PTL DEF Spec

(* The inductive invariant: what a publish request, an expansion            *)
(* transaction and the deliveries table know of one another.                *)
THEOREM ExpansionCorrect == Spec => []ExpansionInvariant
<1> QED
  BY ExpansionInit, ExpansionNext, PTL DEF Spec

(* POST /events: a key that is published concurrently, retried or lost makes *)
(* one event, and every 202 for the key names that event.                   *)
THEOREM OneEventPerKeyCorrect == Spec => []OneEventPerKey
<1>1. ExpansionInvariant => OneEventPerKey
  <2> SUFFICES ASSUME ExpansionInvariant, NEW r \in Requests, NEW s \in Requests, SameKey(r, s)
               PROVE  /\ event[r] # "absent" /\ event[s] # "absent" => r = s
                      /\ request[r] = "acked" /\ request[s] = "acked" => answer[r] = answer[s]
    BY DEF OneEventPerKey
  <2>0. KeysAnswered
    BY DEF ExpansionInvariant
  <2>1. ASSUME request[r] = "acked", request[s] = "acked"
        PROVE  answer[r] = answer[s]
    <3>1. answer[r] \in Requests /\ answer[s] \in Requests
      BY <2>1 DEF ExpansionInvariant, ExpansionTypeOK
    <3>2. /\ event[answer[r]] # "absent" /\ SameKey(r, answer[r])
          /\ event[answer[s]] # "absent" /\ SameKey(s, answer[s])
      BY <2>0, <2>1 DEF KeysAnswered
    <3>3. SameKey(answer[r], answer[s])
      BY <3>2 DEF SameKey
    <3> QED
      BY <2>0, <3>1, <3>2, <3>3 DEF KeysAnswered
  <2> QED
    BY <2>0, <2>1 DEF KeysAnswered
<1> QED
  BY <1>1, ExpansionCorrect, PTL

(* runExpansionCycle: whatever crashes and whoever else tries, an event gets *)
(* one delivery for each subscriber, all in the commit that marks it.       *)
THEOREM FannedOutOnceCorrect == Spec => []FannedOutOnce
<1>1. ExpansionInvariant => FannedOutOnce
  BY DEF ExpansionInvariant
<1> QED
  BY <1>1, ExpansionCorrect, PTL

(* An event acknowledged before another was published is ahead of it in     *)
(* every queue both are in, though requests and workers run concurrently.   *)
THEOREM AcknowledgedFirstCorrect == Spec => []AcknowledgedFirst
<1>1. ExpansionInvariant => AcknowledgedFirst
  BY DEF ExpansionInvariant
<1> QED
  BY <1>1, ExpansionCorrect, PTL

(* The advisory lock makes an endpoint's deliveries visible in the order of *)
(* their numbers, though the numbers are drawn before the commits.          *)
THEOREM AppendsAtTailCorrect == Spec => AppendsAtTail
<1> DEFINE Tail == \A d \in deliveries' \ deliveries : \A d0 \in deliveries :
                      d0.endpoint = d.endpoint => d0.seq < d.seq
<1>1. ASSUME ExpansionInvariant, [Next]_vars PROVE Tail
  <2>1. ASSUME NEW w \in Workers, CommitExpansion(w) PROVE Tail
    <3>1. pc[w] = "commit" /\ deliveries' = deliveries \cup rows[w]
      BY <1>1, <2>1, CommitFacts
    <3> QED
      BY <1>1, <3>1 DEF ExpansionInvariant, RowsAreNext
  <2> QED
    BY <1>1, <2>1, CommitsDeliveries
<1> HIDE DEF Tail
<1>2. Spec => [][Tail]_vars
  BY <1>1, ExpansionCorrect, PTL DEF Spec
<1> QED
  BY <1>2 DEF AppendsAtTail, Tail

=============================================================================
