------------------------------- MODULE ReadApi -------------------------------
(***************************************************************************)
(* The routes that show the queue to an operator, while the workers run:   *)
(* POST /endpoints/:id/resume with what it says about skipped deliveries,  *)
(* GET /endpoints/:id with its health, GET /endpoints/:id/deliveries,      *)
(* GET /deliveries/:id, GET /events and GET /events/:id (node/src/routes,  *)
(* node/src/lib/deliveryQueries.ts, pagination.ts).                        *)
(*                                                                         *)
(* The tables are EndpointQueue, the specification the workers implement.  *)
(* Every query of a handler is a step; a list is read page by page, each   *)
(* page a request of its own with the cursor the page before returned.     *)
(* There is one client at a time: its calls race with the workers, never   *)
(* with each other, since none of them writes what another reads.          *)
(*                                                                         *)
(* created_at is the start of the inserting transaction, in microseconds:  *)
(* BatchAt and EventAt.  Rows of one transaction share it, and it need not *)
(* follow seq.  The tenant condition of every query is left out: there is  *)
(* one tenant.                                                             *)
(***************************************************************************)
EXTENDS EndpointQueue, FiniteSets, SequencesExt

CONSTANTS
    BatchAt,        \* created_at of the deliveries a transaction inserts
    EventOf,        \* deliveries.event_id: the live transaction that expands it
    EventAt,        \* created_at of the event a live transaction expands
    EventId,        \* its id, as it compares with others
    Millisecond,    \* microseconds to the millisecond
    Limits,         \* what Number() makes of ?limit=, halves as 0
    AttemptsShown,  \* MAX_ATTEMPTS_IN_RESPONSE
    DeliveriesRated,    \* the LIMIT of HEALTH_SELECT
    MaxRecords,     \* bound: attempts of all deliveries
    None            \* NULL, no cursor, no call

ASSUME NoneAssumption ==
    None \notin Deliveries /\ None \notin LiveBatches

ASSUME TimesAssumption ==
    /\ BatchAt \in [Batches -> Nat]
    /\ EventOf \in [Deliveries -> LiveBatches]
    /\ EventAt \in [LiveBatches -> Nat]
    /\ EventId \in [LiveBatches -> Nat]
    /\ Millisecond \in Nat \ {0}
    /\ \A b1, b2 \in LiveBatches : EventId[b1] = EventId[b2] => b1 = b2    \* a key

ASSUME RowsAssumption ==
    /\ Deliveries \subseteq Nat /\ IsFiniteSet(Deliveries)
    /\ EndpointOf \in [Deliveries -> Endpoints]
    /\ BatchOf \in [Deliveries -> Batches] /\ LiveBatches \subseteq Batches
    /\ Limits \subseteq Nat
    /\ {AttemptsShown, DeliveriesRated} \subseteq Nat \ {0} /\ MaxRecords \in Nat

VARIABLES
    call,       \* the request being served, with its locals
    reply,      \* the answer the last step gave
    told,       \* deliveries some resume reply named as skipped
    unsaid      \* endpoints resumed by a request that never answered

vars == <<queueVars, call, reply, told, unsaid>>

Visible(e)    == {d \in On(e) : state[d] # "absent"}
Unresolved(e) == {d \in On(e) : state[d] \in {"pending", "in_flight"}}
CreatedAt(d)  == BatchAt[BatchOf[d]]

ReadInit ==
    /\ Init
    /\ call = None /\ reply = None
    /\ told = {} /\ unsaid = {}

(* The workers and the other operators go on.                               *)
Work ==
    /\ \/ \E b \in Batches : Publish(b)
       \/ \E e \in Endpoints : Pause(e) \/ Claim(e) \/ Release(e)
       \/ \E d \in Deliveries :
             /\ Deliver(d)
             /\ FoldFunction(LAMBDA a, n : Len(a) + n, 0, attempts') <= MaxRecords
    /\ reply' = None
    /\ UNCHANGED <<call, told, unsaid>>

-----------------------------------------------------------------------------
(* POST /endpoints/:id/resume: the UPDATE, then two queries.               *)

ResumeUpdate(e) ==
    /\ call = None
    /\ Resume(e)
    /\ call' = [op |-> "resume", ep |-> e, counted |-> FALSE]
    /\ reply' = None
    /\ UNCHANGED <<told, unsaid>>

(* pending_delivery_count, a number of its own moment.                      *)
ResumeCount ==
    /\ call # None /\ call.op = "resume" /\ ~call.counted
    /\ call' = [call EXCEPT !.counted = TRUE]
    /\ reply' = None
    /\ UNCHANGED <<queueVars, told, unsaid>>

SkippedFailed_NoCoalesce(e) ==              \* slip: < NULL when nothing is left
    {d \in On(e) :
        /\ state[d] = "failed"
        /\ Unresolved(e) # {}
        /\ \A d0 \in Unresolved(e) : CreatedAt(d) < CreatedAt(d0)}

(* Failed, and created before the oldest unresolved delivery was.           *)
SkippedFailed(e) ==
    {d \in On(e) :
        /\ state[d] = "failed"
        /\ \A d0 \in Unresolved(e) : CreatedAt(d) < CreatedAt(d0)}

ResumeReply ==
    /\ call # None /\ call.op = "resume" /\ call.counted
    /\ reply' = [op |-> "resume", ep |-> call.ep, skipped |-> SkippedFailed(call.ep)]
    /\ told' = told \cup SkippedFailed(call.ep)
    /\ call' = None
    /\ UNCHANGED <<queueVars, unsaid>>

(* A query fails, or the server goes down: the UPDATE has been committed.   *)
ResumeLost ==
    /\ call # None /\ call.op = "resume"
    /\ call' = None
    /\ unsaid' = unsaid \cup {call.ep}
    /\ reply' = None
    /\ UNCHANGED <<queueVars, told>>

-----------------------------------------------------------------------------
(* GET /endpoints/:id: one query, HEALTH_SELECT.                           *)

Resolved(e) == {d \in On(e) : Terminal(d)}

RatedBefore_Oldest(d1, d2) == CreatedAt(d1) < CreatedAt(d2)     \* slip: ASC

RatedBefore(d1, d2) == CreatedAt(d1) > CreatedAt(d2)

(* ORDER BY created_at DESC LIMIT n; rows of one transaction come in any    *)
(* order.                                                                   *)
RecentlyResolved(e) ==
    {r \in SUBSET Resolved(e) :
        /\ Cardinality(r) = Min({DeliveriesRated, Cardinality(Resolved(e))})
        /\ \A d1 \in r, d2 \in Resolved(e) \ r : ~RatedBefore(d2, d1)}

(* oldest_pending_at, null when nothing is left to deliver.                 *)
OldestPending(e) ==
    IF Unresolved(e) = {} THEN None ELSE Min({CreatedAt(d) : d \in Unresolved(e)})

(* recent_success_rate is succeeded out of rated, null when rated is 0.     *)
serializeEndpointWithHealth(e, rated) ==
    [op |-> "health", ep |-> e, status |-> status[e],
     depth |-> Cardinality(Unresolved(e)), oldest |-> OldestPending(e),
     succeeded |-> Cardinality({d \in rated : state[d] = "succeeded"}),
     rated |-> Cardinality(rated)]

ReadHealth(e) ==
    /\ call = None
    /\ \E rated \in RecentlyResolved(e) : reply' = serializeEndpointWithHealth(e, rated)
    /\ UNCHANGED <<queueVars, call, told, unsaid>>

-----------------------------------------------------------------------------
(* deliveryQueries.ts.                                                     *)

HeadDelivery_Newest(e) ==                   \* slip: ORDER BY h.seq DESC
    CHOOSE h \in Unresolved(e) : \A d \in Unresolved(e) : h >= d

(* HEAD_DELIVERY_SELECT: the unresolved delivery of lowest seq.             *)
HeadDelivery(e) == CHOOSE h \in Unresolved(e) : \A d \in Unresolved(e) : h <= d

computeBlockedOnDeliveryId(d) ==
    IF state[d] = "pending" /\ HeadDelivery(EndpointOf[d]) # d
    THEN HeadDelivery(EndpointOf[d])
    ELSE None

-----------------------------------------------------------------------------
(* GET /deliveries/:id: the row, then its latest attempts.                 *)

ReadDelivery(d) ==
    /\ call = None
    /\ state[d] # "absent"
    /\ call' = [op |-> "detail", id |-> d, state |-> state[d],
                blocked |-> computeBlockedOnDeliveryId(d)]
    /\ reply' = None
    /\ UNCHANGED <<queueVars, told, unsaid>>

NewestFirst_Oldest(a1, a2) == a1.number < a2.number     \* slip: ASC

NewestFirst(a1, a2) == a1.number > a2.number

(* ORDER BY attempt_number DESC LIMIT n: an order that attempts of the same *)
(* number, one of them left by a crash, may come in either way.             *)
LatestAttempts(d, n) ==
    {SubSeq(s, 1, IF n < Len(s) THEN n ELSE Len(s)) :
        s \in {p \in {[i \in DOMAIN attempts[d] |-> attempts[d][q[i]]] :
                         q \in SetToSeqs(DOMAIN attempts[d])} :
                 \A i, j \in DOMAIN p : i < j => ~NewestFirst(p[j], p[i])}}

ReadAttempts ==
    /\ call # None /\ call.op = "detail"
    /\ \E latest \in LatestAttempts(call.id, AttemptsShown) :
          reply' = [op |-> "detail", id |-> call.id, state |-> call.state,
                    blocked |-> call.blocked, attempts |-> Reverse(latest)]
    /\ call' = None
    /\ UNCHANGED <<queueVars, told, unsaid>>

-----------------------------------------------------------------------------
(* pagination.ts and the lists.                                            *)

(* A Date holds milliseconds.                                               *)
toISOString(t) == (t \div Millisecond) * Millisecond

(* The fan-out of an event, the copies made by replays included.            *)
Fanout(b) == {d \in Deliveries : EventOf[d] = b /\ state[d] # "absent"}

(* Which rows a list holds, which row comes before another, and which rows  *)
(* the cursor made of row r leaves to come.                                 *)
Rows(list) ==
    CASE list.of = "queue"  -> Visible(list.ep)
      [] list.of = "fanout" -> Fanout(list.event)
      [] list.of = "events" -> {EventOf[d] : d \in Visible(list.ep)}   \* ?endpoint_id=

Precedes(list, r1, r2) ==
    IF list.of # "events"
    THEN r1 < r2                                            \* ORDER BY seq
    ELSE \/ EventAt[r1] > EventAt[r2]                       \* created_at DESC, id DESC
         \/ EventAt[r1] = EventAt[r2] /\ EventId[r1] > EventId[r2]

Beyond_Inclusive(list, r, r0) ==            \* slip: >= and <= for > and <
    IF list.of # "events"
    THEN r >= r0
    ELSE LET at == toISOString(EventAt[r0]) IN
         \/ EventAt[r] < at
         \/ EventAt[r] = at /\ EventId[r] <= EventId[r0]

(* encodeCursor takes created_at through toISOString, which drops the       *)
(* microseconds; seq goes through whole.                                    *)
Beyond(list, r, r0) ==
    IF list.of # "events"
    THEN r > r0
    ELSE LET at == toISOString(EventAt[r0]) IN
         \/ EventAt[r] < at
         \/ EventAt[r] = at /\ EventId[r] < EventId[r0]

BeginList(list, limit) ==
    /\ call = None
    /\ call' = [op |-> "list", list |-> list, limit |-> limit, after |-> None,
                seen |-> <<>>, atStart |-> Rows(list)]
    /\ reply' = None
    /\ UNCHANGED <<queueVars, told, unsaid>>

(* GET /events/:id: the event, then all of its deliveries.                  *)
ReadEvent(b) == BeginList([of |-> "fanout", event |-> b], Cardinality(Deliveries))

(* Rows of the list as the query sorts them.                                *)
OrderBy(list, rows) ==
    CHOOSE s \in SetToSeqs(rows) :
        \A i, j \in DOMAIN s : i < j => Precedes(list, s[i], s[j])

(* One page: LIMIT limit + 1 to see whether more follow; next_cursor is     *)
(* made from the last row of the page, and is null when there is none.      *)
NextCursor_Peeked(found, limit) == found[limit + 1]     \* slip: the peeked row

NextCursor(found, limit) == found[limit]

ReadPage ==
    /\ call # None /\ call.op = "list"
    /\ LET list  == call.list
           limit == call.limit
           left  == {r \in Rows(list) : call.after = None \/ Beyond(list, r, call.after)}
           found == OrderBy(list, left)
           more  == Len(found) > limit
           page  == IF more THEN SubSeq(found, 1, limit) ELSE found
           seen  == call.seen \o page IN
          IF more /\ page # <<>>
          THEN /\ call' = [call EXCEPT !.after = NextCursor(found, limit), !.seen = seen]
               /\ reply' = None
          ELSE /\ reply' = [op |-> "list", list |-> list, limit |-> limit, seen |-> seen,
                            atStart |-> call.atStart]
               /\ call' = None
    /\ UNCHANGED <<queueVars, told, unsaid>>

-----------------------------------------------------------------------------
Lists == [of : {"queue", "events"}, ep : Endpoints]

Serve ==
    \/ \E e \in Endpoints : ResumeUpdate(e)
    \/ ResumeCount \/ ResumeReply \/ ResumeLost
    \/ \E e \in Endpoints : ReadHealth(e)
    \/ \E d \in Deliveries : ReadDelivery(d)
    \/ ReadAttempts
    \/ \E list \in Lists, limit \in Limits : BeginList(list, limit)
    \/ \E b \in LiveBatches : ReadEvent(b)
    \/ ReadPage

ReadNext == Work \/ Serve

ReadSpec == ReadInit /\ [][ReadNext]_vars

-----------------------------------------------------------------------------
(* Properties.                                                             *)

(* The console's "blocked" tells what the worker will do: a delivery shown  *)
(* as blocked on an earlier one of its stream is not attempted before that  *)
(* one is resolved.                                                         *)
BlockedWaits ==
    [][\A d \in Deliveries :
         LET h == computeBlockedOnDeliveryId(d) IN
         h # None /\ SameStream(h, d) => attempts'[d] = attempts[d] /\ state'[d] = state[d]]_vars

(* GET /deliveries/:id reads the row and the attempts at two moments and    *)
(* cuts the attempts off; a delivery it reports as resolved still comes     *)
(* with the answer that resolved it, in chronological order, as long as     *)
(* fewer workers than the cap died between recording its last attempt and   *)
(* marking it in flight.                                                    *)
SameNumber(d) ==
    {i \in DOMAIN attempts[d] : attempts[d][i].number = attemptCount[d]}

ResolvedShowsAnswer ==
    reply # None /\ reply.op = "detail" /\ Cardinality(SameNumber(reply.id)) <= AttemptsShown =>
        /\ \A i, j \in DOMAIN reply.attempts :
              i < j => reply.attempts[i].number <= reply.attempts[j].number
        /\ reply.state = "succeeded" =>
              \E i \in DOMAIN reply.attempts : reply.attempts[i].outcome = "2xx"
        /\ reply.state = "failed" =>
              \E i \in DOMAIN reply.attempts : reply.attempts[i].outcome = "failed"

(* A failed delivery that a later one of its stream has overtaken.          *)
Overtaken(f, d) ==
    /\ SameStream(f, d) /\ f < d
    /\ state[f] = "failed" /\ attempts[d] # <<>>

(* Nothing was replayed to e, and its events were expanded in the order of  *)
(* their created_at: what the WHERE of the resume takes for granted.        *)
InCreationOrder(e) ==
    /\ \A d \in Visible(e) : Live(d)
    /\ \A d1, d2 \in Visible(e) : d1 < d2 => CreatedAt(d1) < CreatedAt(d2)

Resuming(e) == call # None /\ call.op = "resume" /\ call.ep = e

(* R-14: an endpoint gets past a failed delivery only by a resume, and the  *)
(* reply to it names that delivery, whatever status it resumed from and     *)
(* whatever the workers did between the queries - on an endpoint nothing    *)
(* was replayed to, with events expanded in the order of created_at, and    *)
(* unless the reply itself was lost.                                        *)
LiveSkipsAreTold ==
    \A f, d \in Deliveries :
        LET e == EndpointOf[f] IN
        (Overtaken(f, d) /\ InCreationOrder(e) /\ ~Resuming(e) /\ e \notin unsaid)
            => f \in told

(* The last delivery of its stream to be resolved, and it failed: what      *)
(* halts an endpoint.                                                       *)
LastFailed(f) ==
    /\ state[f] = "failed"
    /\ \A d \in Deliveries : SameStream(f, d) /\ f < d => ~Terminal(d)

(* Succeeded and, though f ended last, created no earlier than f.           *)
Hides(d, f) == d # f /\ state[d] = "succeeded" /\ CreatedAt(d) >= CreatedAt(f)

(* R-25: an endpoint is shown as halted with a perfect recent success rate  *)
(* only if the failure that halted it is hidden by as many succeeded        *)
(* deliveries as are rated: the newest by created_at, which are not the     *)
(* last to end (endpoints.ts:63).  That takes rows delivered before the     *)
(* failure, or in the other stream, and created no earlier: rows of one     *)
(* replay tie, live and replayed rows end in any order, and events may be   *)
(* expanded out of the order of created_at.  With live rows in that order   *)
(* there are none, and the rate shown is below one.                         *)
HaltedShowsFailure ==
    (/\ reply # None /\ reply.op = "health"
     /\ reply.status = "halted" /\ reply.succeeded = reply.rated) =>
        \E f \in On(reply.ep) :
            /\ LastFailed(f)
            /\ DeliveriesRated <= Cardinality({d \in On(reply.ep) : Hides(d, f)})

Listing(r) == r # None /\ r.op = "list"

(* The pages of a list, put together, hold no row twice and none out of     *)
(* order, whatever is inserted between them ...                             *)
InOrderOnce ==
    \A r \in {call, reply} : Listing(r) =>
        \A i, j \in DOMAIN r.seen : i < j => Precedes(r.list, r.seen[i], r.seen[j])

Missed == reply.atStart \ ToSet(reply.seen)

(* ... and, at its end, every row that was there at the start: exactly so   *)
(* for a queue and a fan-out; for events short of those that share a        *)
(* millisecond with a row shown.  A limit below one ends the list at once.  *)
MissesOnlyTies ==
    Listing(reply) /\ reply.limit > 0 =>
        IF reply.list.of # "events"
        THEN Missed = {}
        ELSE \A b \in Missed : \E s \in ToSet(reply.seen) :
                EventAt[b] \div Millisecond = EventAt[s] \div Millisecond

-----------------------------------------------------------------------------
(* The types of the variables.                                              *)

Attempt == [number : Nat, outcome : {"open", "2xx", "failed", "worker_lease_expired"}]

Row  == Deliveries \cup LiveBatches
List == Lists \cup [of : {"fanout"}, event : LiveBatches]

ResumeCall == [op : {"resume"}, ep : Endpoints, counted : BOOLEAN]
DetailCall ==
    [op : {"detail"}, id : Deliveries,
     state : {"pending", "in_flight", "succeeded", "failed"}, blocked : Deliveries \cup {None}]
ListCall ==
    [op : {"list"}, list : List, limit : Nat, after : Row \cup {None}, seen : Seq(Row),
     atStart : SUBSET Row]

ASSUME CallsAssumption == None \notin ResumeCall \cup DetailCall \cup ListCall

ReadTypeOK ==
    /\ status \in [Endpoints -> {"active", "paused", "halted"}]
    /\ busy \subseteq Endpoints
    /\ state \in [Deliveries -> {"absent", "pending", "in_flight", "succeeded", "failed"}]
    /\ attemptCount \in [Deliveries -> Nat]
    /\ attempts \in [Deliveries -> Seq(Attempt)]
    /\ call \in ResumeCall \cup DetailCall \cup ListCall \cup {None}
    /\ told \subseteq Deliveries /\ unsaid \subseteq Endpoints

=============================================================================
