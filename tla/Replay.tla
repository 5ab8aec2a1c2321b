-------------------------------- MODULE Replay --------------------------------
(***************************************************************************)
(* From a replay request to rows in the delivery queue:                    *)
(* node/src/routes/replays.ts and node/src/worker/replayExpansion.ts, and  *)
(* their Go counterparts.                                                  *)
(*                                                                         *)
(* A request inserts one replays row under an idempotency key and is       *)
(* acknowledged.  Later some worker locks the row, skipping it when        *)
(* another worker has it, and in the same transaction copies the finished  *)
(* deliveries of the window to the end of the endpoint's queue and marks   *)
(* the replay expanded.  Live deliveries arrive and finish all the while.  *)
(*                                                                         *)
(* A replay is named by the request whose INSERT created it.               *)
(***************************************************************************)
EXTENDS Naturals, FiniteSets

CONSTANTS
    Workers,
    Endpoints,
    Requests,       \* POST /endpoints/:id/replays
    Asks,           \* a request's endpoint, idempotency key, range_start, range_end
    CandidateLimit, \* the candidates query's LIMIT
    MaxLive,        \* bound: live deliveries
    MaxClock,       \* bound: instants told apart by created_at
    MaxAborts,      \* bound: crashes of a worker
    None

ASSUME ReplayAssumption ==
    /\ \A r \in Requests :
          /\ Asks[r].endpoint \in Endpoints
          /\ Asks[r].start \in Nat /\ Asks[r].end \in Nat
    /\ None \notin Requests

ASSUME ReplayBounds ==
    /\ CandidateLimit \in Nat \ {0}
    /\ MaxLive \in Nat /\ MaxClock \in Nat /\ MaxAborts \in Nat

VARIABLES
    clock,        \* now()
    nextSeq,      \* the sequence behind deliveries.seq
    deliveries,   \* the deliveries rows; `replay' and `source' are history:
                  \*   the replay that made the row and the row it copies
    live,         \* how many live deliveries there have been
    request,      \* how far a replay request has got
    answer,       \* the replay id of its 202
    replay,       \* replays.status; "absent" when there is no such row
    createdAt,    \* replays.created_at
    pc,           \* a worker's next statement
    candidates,   \* the replays it has still to try
    locked,       \* the replay whose row its transaction has locked
    started,      \* that transaction's now()
    rows,         \* the deliveries it has inserted and not committed
    aborts,
    finished      \* history: what a replay could already see when requested

queueVars   == <<clock, nextSeq, deliveries, live>>
requestVars == <<request, answer, createdAt, finished>>
workerVars  == <<pc, candidates, locked, started, rows>>

vars == <<queueVars, requestVars, replay, workerVars, aborts>>

Delivery ==
    [seq : Nat, event : Nat, endpoint : Endpoints, created : Nat,
     state : {"unresolved", "terminal"}, replay : Requests \cup {None}, source : Nat]

(* The tables and locals have their types, and a transaction that inserts   *)
(* or commits has a replay locked that is still pending.                    *)
ReplayTypeOK ==
    /\ clock \in Nat \ {0} /\ nextSeq \in Nat /\ live \in Nat /\ aborts \in Nat
    /\ deliveries \subseteq Delivery /\ IsFiniteSet(deliveries)
    /\ request \in [Requests -> {"new", "inserting", "inserted", "conflict", "acked", "lost"}]
    /\ answer \in [Requests -> Requests \cup {None}]
    /\ replay \in [Requests -> {"absent", "pending_expansion", "expanded"}]
    /\ createdAt \in [Requests -> Nat]
    /\ pc \in [Workers -> {"idle", "lock", "insert", "commit"}]
    /\ candidates \in [Workers -> SUBSET Requests]
    /\ locked \in [Workers -> Requests \cup {None}]
    /\ started \in [Workers -> Nat]
    /\ rows \in [Workers -> SUBSET Delivery] /\ \A w \in Workers : IsFiniteSet(rows[w])
    /\ finished \in [Requests -> SUBSET Nat]
    /\ \A w \in Workers :
          IF pc[w] \in {"insert", "commit"}
          THEN locked[w] \in Requests /\ replay[locked[w]] = "pending_expansion"
          ELSE locked[w] = None

Init ==
    /\ clock = 1 /\ nextSeq = 1 /\ live = 0
    /\ deliveries = {}
    /\ request = [r \in Requests |-> "new"]
    /\ answer = [r \in Requests |-> None]
    /\ replay = [r \in Requests |-> "absent"]
    /\ createdAt = [r \in Requests |-> 0]
    /\ pc = [w \in Workers |-> "idle"]
    /\ candidates = [w \in Workers |-> {}]
    /\ locked = [w \in Workers |-> None]
    /\ started = [w \in Workers |-> 0]
    /\ rows = [w \in Workers |-> {}]
    /\ aborts = 0
    /\ finished = [r \in Requests |-> {}]

-----------------------------------------------------------------------------
(* What goes on around a replay.                                           *)

Tick ==
    /\ clock < MaxClock
    /\ clock' = clock + 1
    /\ UNCHANGED <<nextSeq, deliveries, live, requestVars, replay, workerVars, aborts>>

(* Event expansion commits a delivery: created_at is its transaction's      *)
(* start, which may lie behind.                                             *)
ExpandLive(e) ==
    /\ live < MaxLive
    /\ live' = live + 1
    /\ \E c \in {clock - 1, clock} :
          deliveries' = deliveries \cup
              {[seq |-> nextSeq, event |-> nextSeq, endpoint |-> e, created |-> c,
                state |-> "unresolved", replay |-> None, source |-> 0]}
    /\ nextSeq' = nextSeq + 1
    /\ UNCHANGED <<clock, requestVars, replay, workerVars, aborts>>

(* The delivery worker finishes with a delivery.                            *)
Resolve(d) ==
    /\ d.state = "unresolved"
    /\ deliveries' = (deliveries \ {d}) \cup {[d EXCEPT !.state = "terminal"]}
    /\ UNCHANGED <<clock, nextSeq, live, requestVars, replay, workerVars, aborts>>

-----------------------------------------------------------------------------
(* POST /endpoints/:id/replays.                                            *)

SameKey(r, s) ==
    /\ Asks[r].endpoint = Asks[s].endpoint
    /\ Asks[r].key = Asks[s].key

Window_AnyState(r) ==                       \* slip: no filter on state
    {d \in deliveries :
        /\ d.endpoint = Asks[r].endpoint
        /\ Asks[r].start <= d.created /\ d.created <= Asks[r].end}

(* WHERE endpoint_id = $1 AND created_at BETWEEN ... AND state NOT IN       *)
(* ('pending', 'in_flight').                                                *)
Window(r) ==
    {d \in deliveries :
        /\ d.endpoint = Asks[r].endpoint
        /\ Asks[r].start <= d.created /\ d.created <= Asks[r].end
        /\ d.state # "unresolved"}

(* The range is not empty, and the INSERT starts.                           *)
BeginRequest(r) ==
    /\ request[r] = "new"
    /\ Asks[r].start <= Asks[r].end
    /\ request' = [request EXCEPT ![r] = "inserting"]
    /\ createdAt' = [createdAt EXCEPT ![r] = clock]
    /\ UNCHANGED <<queueVars, answer, finished, replay, workerVars, aborts>>

Conflicts_Never(r) == FALSE                 \* slip: no unique index

(* UNIQUE (endpoint_id, idempotency_key).                                   *)
Conflicts(r) == \E s \in Requests : replay[s] # "absent" /\ SameKey(r, s)

CommitRequest(r) ==
    /\ request[r] = "inserting"
    /\ ~Conflicts(r)
    /\ replay' = [replay EXCEPT ![r] = "pending_expansion"]
    /\ request' = [request EXCEPT ![r] = "inserted"]
    /\ finished' = [finished EXCEPT ![r] = {d.seq : d \in Window(r)}]
    /\ UNCHANGED <<queueVars, answer, createdAt, workerVars, aborts>>

ConflictOnKey(r) ==
    /\ request[r] = "inserting"
    /\ Conflicts(r)
    /\ request' = [request EXCEPT ![r] = "conflict"]
    /\ UNCHANGED <<queueVars, answer, createdAt, finished, replay, workerVars, aborts>>

(* The replay a 202 names.                                                  *)
ReplayOf(r, s) ==
    \/ request[r] = "inserted" /\ s = r
    \/ request[r] = "conflict" /\ replay[s] # "absent" /\ SameKey(r, s)

Acknowledge(r) ==
    /\ \E s \in Requests : ReplayOf(r, s) /\ answer' = [answer EXCEPT ![r] = s]
    /\ request' = [request EXCEPT ![r] = "acked"]
    /\ UNCHANGED <<queueVars, createdAt, finished, replay, workerVars, aborts>>

(* The connection or the API process dies before the 202.                   *)
LoseRequest(r) ==
    /\ request[r] \in {"inserting", "inserted", "conflict"}
    /\ request' = [request EXCEPT ![r] = "lost"]
    /\ UNCHANGED <<queueVars, answer, createdAt, finished, replay, workerVars, aborts>>

-----------------------------------------------------------------------------
(* runReplayExpansionCycle.                                                *)

Pending == {r \in Requests : replay[r] = "pending_expansion"}

(* ORDER BY created_at LIMIT 20; ties are in no particular order.           *)
ReplayQuery ==
    {S \in SUBSET Pending :
        /\ Cardinality(S) <= CandidateLimit
        /\ Cardinality(S) = CandidateLimit \/ S = Pending
        /\ \A r \in S, s \in Pending \ S : createdAt[r] <= createdAt[s]}

SelectReplays(w) ==
    /\ pc[w] = "idle"
    /\ \E S \in ReplayQuery :
          /\ candidates' = [candidates EXCEPT ![w] = S]
          /\ pc' = [pc EXCEPT ![w] = IF S = {} THEN "idle" ELSE "lock"]
    /\ UNCHANGED <<queueVars, requestVars, replay, locked, started, rows, aborts>>

First(w, r) ==
    /\ r \in candidates[w]
    /\ \A s \in candidates[w] : createdAt[r] <= createdAt[s]

Lockable_NoLock(r) ==                       \* slip: no FOR UPDATE
    replay[r] = "pending_expansion"

(* WHERE id = $1 AND status = 'pending_expansion' FOR UPDATE SKIP LOCKED.   *)
Lockable(r) ==
    /\ replay[r] = "pending_expansion"
    /\ \A v \in Workers : locked[v] # r

LockReplay(w) ==
    /\ pc[w] = "lock"
    /\ \E r \in candidates[w] :
          /\ First(w, r)
          /\ Lockable(r)
          /\ candidates' = [candidates EXCEPT ![w] = @ \ {r}]
          /\ locked' = [locked EXCEPT ![w] = r]
    /\ started' = [started EXCEPT ![w] = clock]
    /\ pc' = [pc EXCEPT ![w] = "insert"]
    /\ UNCHANGED <<queueVars, requestVars, replay, rows, aborts>>

SkipReplay(w) ==
    /\ pc[w] = "lock"
    /\ \E r \in candidates[w] :
          /\ First(w, r)
          /\ ~Lockable(r)
          /\ candidates' = [candidates EXCEPT ![w] = @ \ {r}]
          /\ pc' = [pc EXCEPT ![w] = IF candidates[w] = {r} THEN "idle" ELSE "lock"]
    /\ UNCHANGED <<queueVars, requestVars, replay, locked, started, rows, aborts>>

(* The row's place in the SELECT, and so the number it draws.               *)
Rank_Reversed(r, d) == Cardinality({o \in Window(r) : o.seq > d.seq})  \* slip: DESC

(* ORDER BY d.seq.                                                          *)
Rank(r, d) == Cardinality({o \in Window(r) : o.seq < d.seq})

(* INSERT INTO deliveries ... SELECT, on what is committed now.             *)
InsertReplayed(w) ==
    LET r == locked[w] IN
    /\ pc[w] = "insert"
    /\ rows' = [rows EXCEPT ![w] =
                  {[seq |-> nextSeq + Rank(r, d), event |-> d.event,
                    endpoint |-> Asks[r].endpoint, created |-> started[w],
                    state |-> "unresolved", replay |-> r, source |-> d.seq] : d \in Window(r)}]
    /\ nextSeq' = nextSeq + Cardinality(Window(r))
    /\ pc' = [pc EXCEPT ![w] = "commit"]
    /\ UNCHANGED <<clock, deliveries, live, requestVars, replay, candidates, locked,
                   started, aborts>>

EndTransaction_KeepsLock(w) ==              \* slip: the connection is never released
    /\ pc' = [pc EXCEPT ![w] = "idle"]
    /\ candidates' = [candidates EXCEPT ![w] = {}]
    /\ started' = [started EXCEPT ![w] = 0]
    /\ rows' = [rows EXCEPT ![w] = {}]
    /\ UNCHANGED locked

EndTransaction(w) ==
    /\ pc' = [pc EXCEPT ![w] = "idle"]
    /\ candidates' = [candidates EXCEPT ![w] = {}]
    /\ locked' = [locked EXCEPT ![w] = None]
    /\ started' = [started EXCEPT ![w] = 0]
    /\ rows' = [rows EXCEPT ![w] = {}]

(* UPDATE replays SET status = 'expanded', and COMMIT.                      *)
CommitReplay(w) ==
    /\ pc[w] = "commit"
    /\ deliveries' = deliveries \cup rows[w]
    /\ replay' = [replay EXCEPT ![locked[w]] = "expanded"]
    /\ EndTransaction(w)
    /\ UNCHANGED <<clock, nextSeq, live, requestVars, aborts>>

AbortReplay_StatusStays(w) ==               \* slip: the status set outside the transaction
    /\ pc[w] # "idle"
    /\ aborts < MaxAborts
    /\ aborts' = aborts + 1
    /\ replay' = IF pc[w] = "commit" THEN [replay EXCEPT ![locked[w]] = "expanded"] ELSE replay
    /\ EndTransaction(w)
    /\ UNCHANGED <<queueVars, requestVars>>

(* The worker dies, or a query throws: the transaction rolls back.          *)
AbortReplay(w) ==
    /\ pc[w] # "idle"
    /\ aborts < MaxAborts
    /\ aborts' = aborts + 1
    /\ EndTransaction(w)
    /\ UNCHANGED <<queueVars, requestVars, replay>>

-----------------------------------------------------------------------------
Request(r) ==
    \/ BeginRequest(r) \/ CommitRequest(r) \/ ConflictOnKey(r) \/ Acknowledge(r)
    \/ LoseRequest(r)

RunReplayExpansionCycle(w) ==
    \/ SelectReplays(w) \/ LockReplay(w) \/ SkipReplay(w)
    \/ InsertReplayed(w) \/ CommitReplay(w)

Next ==
    \/ Tick
    \/ \E e \in Endpoints : ExpandLive(e)
    \/ \E d \in deliveries : Resolve(d)
    \/ \E r \in Requests : Request(r)
    \/ \E w \in Workers : RunReplayExpansionCycle(w) \/ AbortReplay(w)

Spec == Init /\ [][Next]_vars

(* The worker loop never stops and its transactions never wait on a lock.   *)
FairSpec == Spec /\ \A w \in Workers : WF_vars(RunReplayExpansionCycle(w))

-----------------------------------------------------------------------------
(* Properties.                                                             *)

Made(r) == {d \in deliveries : d.replay = r}

(* R-21: a key repeated, concurrently or after a lost response, makes one   *)
(* replay, and every 202 names that replay.                                 *)
OneReplayPerKey ==
    \A r, s \in Requests : SameKey(r, s) =>
        /\ replay[r] # "absent" /\ replay[s] # "absent" => r = s
        /\ request[r] = "acked" /\ request[s] = "acked" => answer[r] = answer[s]

(* PRD section 8: through crashes and competing workers a replay's rows are *)
(* made exactly once, all together, and in the order of what they copy.     *)
ReplayedOnceInOrder ==
    /\ \A d \in deliveries : d.replay # None => replay[d.replay] = "expanded"
    /\ \A r \in Requests : \A d1, d2 \in Made(r) :
          /\ d1.source = d2.source => d1 = d2
          /\ d1.source < d2.source => d1.seq < d2.seq

(* ADR-0005, no "empty replay that looks successful": an expanded replay    *)
(* has copied everything in its window that had finished when its request   *)
(* was stored, however long afterwards it was expanded.                     *)
ReplayIsComplete ==
    \A r \in Requests : replay[r] = "expanded" =>
        finished[r] \subseteq {d.source : d \in Made(r)}

(* ADR-0005: nothing still waiting for its own delivery is duplicated: what *)
(* a replay copied was finished, and stays so.                              *)
Copies(d, o) ==
    /\ o.seq = d.source /\ o.event = d.event /\ o.endpoint = d.endpoint
    /\ o.state = "terminal"

NoPendingDuplicated ==
    \A d \in deliveries : d.replay # None => \E o \in deliveries : Copies(d, o)

(* A replay acknowledged is expanded sooner or later, even if the worker    *)
(* that has it locked dies.                                                 *)
EventuallyReplayed ==
    \A r \in Requests : replay[r] = "pending_expansion" ~> replay[r] = "expanded"

=============================================================================
