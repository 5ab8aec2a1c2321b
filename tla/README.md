# Webhook delivery: a TLA+ model of the queue, its workers and its console

This directory specifies the part of the webhook service that is hard to test: the PostgreSQL tables
used as a queue, the API handlers that put work into it, the worker processes that expand events and
replays into deliveries, claim endpoints, send requests and write results back while other workers
do the same and any of them may die or stall, the routes that read the queue meanwhile, and the web
console that polls them and acts on what it shows. The service exists twice, in TypeScript (`node/`)
and in Go (`go/`). Both run the same SQL statements in the same order, so one model of the queue
stands for both; `PROJECT.json` maps definitions to the lines of the TypeScript one. The outbound
call is the TypeScript client's only. In Go (`httpclient.go:161`) a request on a reused connection
never sees `ConnectDone`, so its slow answer is classified as a connect timeout, and a reset in the
middle of a body counts as a completed response.

## The system

| Component | State | Operations | Interacts with |
| --- | --- | --- | --- |
| Publish API | `events` (unique tenant and key) | `POST /events` | writes what expansion reads |
| Event expansion | `events.status`, `deliveries` | `runExpansionCycle` | advisory lock per tenant; reads `endpoints` |
| Replay API | `replays` (unique endpoint and key) | `POST /endpoints/:id/replays` | writes what replay expansion reads |
| Replay expansion | `replays.status`, `deliveries` | `runReplayExpansionCycle` | row lock, skip locked; reads finished deliveries |
| Delivery worker | `endpoints` lease columns, `deliveries`, `attempts`, `tenants.last_served_at` | `claimDelivery`, `tryClaimEndpoint`, `runDeliveryCycle`, `completeDelivery` | other workers, the receiver, pause and resume |
| Endpoint API | `endpoints` | register, pause, resume, rotate, list, health | the lease holder, when the status changes under it |
| Read APIs | none | search, detail, queue | read whatever is committed, query by query |
| Outbound client | timers and a socket | `resolveAndPin`, `sendOutboundRequest` | the resolver and the receiver; its duration decides whether a lease survives |
| Signing secrets | `signing_secret`, `secondary_secret` and its expiry | rotate, sign | the claim reads them, the receiver installs them |
| Web console | API key, backend, query cache, revealed secret | sign in and out, switch, navigate, poll, act | the API of either backend, through requests that may be late or fail |

Workers and handlers are coordinated by the database alone. A worker process (Node) or goroutine
(Go) loops for ever over the three cycles; a query error is logged and the loop goes on. Three
mechanisms carry correctness:

* an advisory lock per tenant, held for the expansion transaction (ADR-0001);
* a lease per endpoint (`busy`, `busy_since`, `lease_id`), reclaimed by the next claim once older
  than the lease duration (ADR-002, ADR-003);
* a fence: the write-back re-reads `lease_id` under the row lock and is dropped if it has changed
  (ADR-0002).

What is hard: the statements of a claim are autocommit queries, so anything can happen between two
of them; a crash leaves a lease and half-written rows; a slow receiver lets the lease lapse under a
live worker, whose answer then arrives late; sequence numbers are drawn before they are visible;
requests are repeated after a lost response; a handler's queries see different moments; an answer to
the console arrives after the operator has moved on. `PROJECT.json` lists these hazards line by
line.

## Modules

| Module | Models | Checked by |
| --- | --- | --- |
| `DeliveryWorker` | `worker/delivery.ts`, `delivery.go`, pause and resume | `MCDeliveryWorker` |
| `EndpointQueue` | what the delivery worker promises: an abstract specification | `DeliveryWorker` implements it, `ReadApi` extends it |
| `Expansion` | `routes/events.ts`, `worker/expansion.ts` | `MCExpansion` |
| `Replay` | `routes/replays.ts`, `worker/replayExpansion.ts` | `MCReplay` |
| `OutboundRequest` | `worker/httpClient.ts`, `validation/url.ts`, `lib/signing.ts`, registration's check, secret rotation, the lease arithmetic of `config.ts` | `MCOutboundRequest` |
| `ReadApi` | the reads of `routes/endpoints.ts`, `deliveries.ts`, `events.ts`, with `lib/deliveryQueries.ts` and `pagination.ts` | `MCReadApi` |
| `Console` | `frontend/src`: `api/`, `lib/`, `main.tsx`, `pages/console/` | `MCConsole` |

Proofs are kept apart from what they are about:

| Module | Proves |
| --- | --- |
| `DeliveryWorkerProofs` | types, the lease discipline and what follows from it |
| `DeliveryHistoryProofs` | the attempts table: what no stall can undo, and its agreement with the deliveries |
| `DeliveryRefinementProofs` | that `DeliveryWorker` implements `EndpointQueue` |
| `ExpansionProofs`, `ReplayProofs` | idempotency, atomicity and order of fan-out and of replays |
| `OutboundRequestProofs` | the address checks, the timers against the lease, the signing secrets |
| `ReadApiProofs` | what the routes tell an operator |
| `ConsoleProofs` | what the page shows after switches, late answers and actions |

A type invariant stands with its specification. The inductive invariant stands at the head of the
proof module, except `LeaseInvariant`, which a run checks too.

Operators whose names carry a suffix (`Claimable_FreshCutoff`, `Conflicts_Never`) and a comment
`slip:` are not used by any specification. Each is a plausible mistake in the definition after it,
kept to show that some property notices it.

### DeliveryWorker

Every autocommit statement of `tryClaimEndpoint` is an action: `ClaimEndpoint` (the conditional
UPDATE) or `LoseRace`, `TouchTenant`, `CloseOrphanedAttempt`, `RequeueOrphan`, `FetchHead` or
`HeadNotReady`, `ReleaseClaim`, `InsertAttempt`, `MarkInFlight`. `SelectCandidates` is the claim
query. `Send` is everything from resolving the host to the end of the HTTP call. The write-back is
one transaction under the endpoint's row lock, so it is one action: `CompleteSucceeded`,
`CompleteHalted`, `CompleteRetrying` or `LeaseLost`. `Abort` ends a worker's cycle anywhere, which
covers a crash and a query that throws: in both cases the lease stays behind with an id that
nobody holds, written `Orphan`. `CloseOrphanedAttemptFails` is the one query that throws by itself,
when its scalar subquery finds two deliveries in flight.

`lease[e]` is the worker whose running cycle drew the `lease_id`; since a worker has one lease at a
time this is as good as a fresh uuid. `busy` and `busy_since` are always written with `lease_id`,
so `lease[e] = None` stands for `busy = false`. Time is kept as the comparisons the code makes:

* `stale`: the leases older than the lease duration. They become so in `OrphanLapses` and
  `HolderLapses`. `cutoff[w]` is the set of leases that were stale when `w` computed its cutoff,
  less those written since, because a `busy_since` written later is never behind it.
* `cooling`: the deliveries with `next_attempt_at` ahead. The length of the backoff is not modelled.
* `later`: the order of `tenants.last_served_at`.

Deliveries are named by their `seq`. They become visible by transaction (`Enqueue`): one event at a
time in order, as `Expansion` establishes (`AppendsAtTail`), and a replay's rows together at any
moment. `SameStream` says which deliveries are ordered with respect to each other.

**How long may a worker stall?** The lease is `timeout + max(timeout, 30 s)`
(`node/src/config.ts:51`), sized for the HTTP call. With `ClaimStall = FALSE` a lease lapses only
under a worker that is sending or about to write back; with `ClaimStall = TRUE` also in the middle
of a claim, between two queries, as after a long pause of the process or of the database. The
difference is the subject of the first finding below.

### Expansion

Publishing is two steps, `BeginPublish` (the INSERT draws `seq`) and `CommitPublish` or
`ConflictOnKey`, because `seq` exists before the row is visible; then `Acknowledge`, or
`LoseRequest` at any point. A worker's cycle is `SelectTenants`, `TryLock` or `LockBusy`,
`ReadEvent` or `NoEvent`, `InsertDeliveries`, `CommitExpansion`; `AbortExpansion` rolls back. Rows
inserted and not committed are in `rows[w]`, invisible to everybody else. `LockKey` is `hashtext`,
under which tenants may collide. One number stands for the sequence numbers drawn by one INSERT:
its rows go to different endpoints, and only rows of one endpoint are ever compared. `earlier` and
`known` record, for the properties only, what had been acknowledged and registered before a
request began.

### Replay

The same shape with `replays`: `BeginRequest`, `CommitRequest` or `ConflictOnKey`, `Acknowledge`,
`LoseRequest`; `SelectReplays`, `LockReplay` or `SkipReplay`, `InsertReplayed`, `CommitReplay`,
`AbortReplay`. `Window` is the WHERE clause, evaluated on what is committed when the INSERT runs,
and `Rank` its ORDER BY. `Tick`, `ExpandLive` and `Resolve` are the clock and the live traffic;
`created_at` is a transaction's start, so a new live row may be dated one instant back.
`pending` and `in_flight` are one state, `unresolved`, and `succeeded` and `failed` another,
`terminal`: the window tells only these two apart. `replay` and `source` in a row record, for the
properties only, where it came from; `ReplayedOnceInOrder` uses them to say that a replay copies
each delivery at most once and in the order of what it copies.

### EndpointQueue and the refinement

`EndpointQueue` says what remains when leases, claims, candidates and processes are forgotten: an
active endpoint may become busy; on a busy one, with nothing in flight, the first unresolved
delivery of a stream may be recorded (`Record`), started (`Start`) and answered (`Succeed`,
`Retry`, `Fail`), or given up (`Expire`, `Requeue`); only an answer resolves a delivery, and what
has an outcome keeps it. `Expire` and `Requeue` are two steps because the reclaim does them in two
statements, and `Record` may be repeated because a worker may die right after it.
`DeliveryWorker!ImplementsQueue` is `EndpointQueue`'s specification with `busy` read off the
leases; every other variable is the same table. It is checked with `ClaimStall = FALSE`; with
stalled claims the worker does not implement it.

### ReadApi

`ReadApi` extends `EndpointQueue` with the routes an operator looks at it through. Every query is a
step, so the workers go on between `ResumeUpdate`, `ResumeCount` and `ResumeReply`, between
`ReadDelivery` and `ReadAttempts`, between the event of `ReadEvent` and its fan-out, and between
the pages of a list (`BeginList`, then `ReadPage` until there is no cursor). `ReadHealth` is one
query and one step. `created_at` is kept in microseconds and goes through `toISOString` where the
code puts it into a cursor. `OrderBy` is the query's ORDER BY: the one sequence of the rows found
that is sorted. `told`, `unsaid` and `atStart` record, for the properties only, what
the operator has been told and what there was to list. `GET /endpoints` is not a list of its own
here: it pages with the cursor code of `GET /events`, and its rows are those of `ReadHealth`.

### OutboundRequest

One delivery's call from the claim to `completeDelivery`, which `DeliveryWorker` has as its action
`Send`. Every event that can settle the promise of `sendOutboundRequest` is an action: both timers,
an error of the request, the body growing past its limit, the end or an error of the response.
`finish` is the guard against a second one. Time is a clock of ticks; a timer that is due stops the
clock until it has run, since the event loop runs it before it waits again. The resolver may answer
differently at registration and at every lookup; `pinnedLookup` is what `net.connect` is given. An
address is as much of one as the checks look at: the first two octets of an IPv4 address, also when
mapped into IPv6, and of another IPv6 address the first group and whether the rest is that of `::1`.
Every address is some element of `Address`. `MCOutboundRequest` has addresses at both ends of every
reserved block. Meanwhile secrets are rotated, the overlap ends and the receiver installs the new
secret, in any order.

### Console

The state of the single-page application: key, backend, page, the query cache with its requests in
flight, pending mutations, the revealed secret. What a query returns is abstracted to who asked
which backend and how many changes that backend had seen. The rules of TanStack Query are external;
the module's header lists those the pages rely on (one request per key, requests and mutations that
outlive their page, invalidation by prefix that drops a request in flight, `staleTime`,
`refetchInterval`, no retries). Two pieces of history serve `ReadYourWrites`: `written` is, per query
key, the last change an action that names the key was said to have made, and `missed` marks an answer
that was on its way at that moment and let pass (`LetPass`). From one endpoint's page to another
the component stays (`Navigate`): its mutations and its revealed secret go on, with the other
endpoint's keys.

## Runs

Passing runs:

| Run | Question | Instance |
| --- | --- | --- |
| `delivery_safety` | Do lease and fence keep order, history and terminal states right? | 2 workers, 1 endpoint, 2 live deliveries with a replayed one between, 2 attempts, one crash, one stall, one pause |
| `delivery_liveness` | Is a delivery ever stranded? Does the inductive invariant of the theorems hold? | 2 workers, 1 endpoint, 2 deliveries, 2 attempts, one crash, one stall, one pause |
| `delivery_stall` | What survives a stall inside a claim, with a list of candidates to walk? | 2 workers, 2 tenants with an endpoint each, 3 deliveries, 1 attempt, two stalls anywhere |
| `expansion_safety` | Idempotent publish, atomic fan-out, order of queues | 2 workers, 1 tenant, 3 requests of which 2 share a key, one endpoint registered late, one crash |
| `expansion_liveness` | Is every stored event expanded? | 2 workers, 2 tenants with colliding lock keys, one crash |
| `replay_safety` | Is a replay made once, completely and in order? | 2 workers, 2 requests with one key and different ranges, 2 live deliveries on 2 endpoints, one crash |
| `replay_liveness` | Is every stored replay expanded? | 2 workers, 2 replays of overlapping ranges, a candidates query that returns one, one crash |
| `outbound` | Is a call settled once, within its lease, having dialed only what was checked, and signed so that its receiver can verify it? | 5 URLs, 28 DNS answers, connect timeout 1, total timeout 2 and lookup 2 ticks, a body limit of 2, two rotations |
| `read_api` | Does what an operator is told agree with what happened? | 1 endpoint, 2 live deliveries and a replayed one, 2 attempts, 3 attempt records, pages of 1 and a limit of 0, 2 attempts shown, 1 delivery rated |
| `console` | Does the screen belong to the backend chosen, include what the operator did, and heal? | 1 tenant, 2 backends, 3 pages, 4 kinds of action, 2 clicks, 2 failures or outside changes |

Why these bounds. Two workers are the least that race; the endpoint lease and the tenant lock have
one owner at a time, so a third worker can only repeat what the second does. Two deliveries give a
head and something behind it, and a third lets a replay sit between two live ones. Two attempts give
a retry and a ceiling. One crash together with one stall covers a reclaim from a dead worker and
from a live one; `lapses`, `aborts` and `pauses` are bounded because each makes a new round of
attempts possible. The theorems below hold for every value of the bounds. Workers are
interchangeable, so the safety runs use symmetry over them; the liveness runs do not.

In `outbound` the lookup is as long as the lease's slack allows, one tick short of breaking
`WithinLease`: the lease is `2 * timeout`, the call takes `timeout` from when the lookup ends. Two
rotations are the least that overwrite a secondary secret in use. In `read_api` limits and caps are
one or two so that three rows and three attempts exceed them; the two events share a millisecond,
which is when a cursor loses one. The replayed row may succeed before a live one fails and then
hides the failure from a rate over one delivery, the exception in `HaltedShowsFailure`. Ties within a
replay, which a fourth row would bring, are left to the theorem. In `console` two clicks are the least for an action that
interferes with another or with a change of page or backend, and two surprises for a failed fetch
together with a change by someone else; `Followed` leaves out queries that only repeat the
behaviour of another key. With one endpoint the run does not go from one endpoint's page to another;
the theorems are for any number of them.

Main properties, by the requirement they stand for:

* R-11 and ADR-002: `OneInFlight`, `StrictOrder`, `AcknowledgedFirst`, `AppendsAtTail`.
* ADR-0002: `HistoryAgrees`, `ImplementsQueue`, `TerminalIsFinal`, `AnswersAreKept`,
  `SucceededIsWitnessed`.
* R-13, R-14: `FailedAtCeiling`, `HaltedIsQuiescent`.
* R-17, "no acknowledged event is ever lost": `Delivered`, `EventuallyExpanded`,
  `EventuallyReplayed`.
* R-6, R-10, R-21: `OneEventPerKey`, `FannedOutOnce`, `OneReplayPerKey`, `ReplayedOnceInOrder`.
* ADR-0005: `ReplayIsComplete`, `NoPendingDuplicated`.
* R-2, ADR-0006: `DialedIsPublic`. R-3, ADR-0003: `HolderVerifies`, `SecretKept`.
* ADR-003, the lease covers the call: `WithinLease`, `Settles`, `ConnectTimeoutIsConnect`.
* R-14, what a resume skips is disclosed: `LiveSkipsAreTold`. R-25: `HaltedShowsFailure`.
* ADR-0007 and section 7 of the PRD, the queue as it is shown: `BlockedWaits`,
  `ResolvedShowsAnswer`, `InOrderOnce`, `MissesOnlyTies`.
* ADR-008, polling: `ReadYourWrites`, `ShownForBackend`, `ActionsInOrder`, `EventuallyFresh`.

**Fairness.** `FairSpec` of the three worker modules assumes weak fairness of every worker's cycle:
the loop has no exit, a failing query only ends one cycle, the transactions try locks and never wait
for them, and the HTTP call is bounded by its timeouts. `DeliveryWorker` also assumes that time
passes: an abandoned lease becomes stale and a backoff ends. Nothing is assumed of publishers, of
pause and resume, of live leases lapsing, or of crashes. `Delivered` holds without strong fairness
because a claim that is released leaves the endpoint claimable again for the same worker.
`OutboundRequest` assumes that the event loop runs what is due and that time passes, and nothing of
the network: a receiver may never answer. `Console` assumes that the timer of a page on the screen
keeps firing and that a request is answered or fails, and nothing of the operator. `ReadApi` states
safety only.

## Where documents and code disagree

Each of these runs is expected to end in a counterexample.

| Run | Shows |
| --- | --- |
| `stall_stranded` | After the claiming UPDATE no statement of the claim checks `lease_id`. A worker stalled there past its lease marks its delivery `in_flight` after the new owner's requeue; once the new owner has released, the endpoint is not busy, the requeue depends on `candidate.busy`, and no later claim ever repairs it. |
| `console_tenant` | `useApiClient.ts:7` asks for query keys that fold in the backend and the API key; the pages fold in the backend only, and signing out clears nothing. Who signs in next on the same page is shown the first tenant's rows, or a late answer to its request. |

The first needs a stall of a whole lease duration (40 s by default) between two queries. With
`ClaimStall = TRUE` the same stall also breaks `OneInFlight` (two deliveries of an endpoint in
flight) and `TerminalIsFinal` (a completed delivery goes back in flight). All three would go away if
the statements of the claim ran in one transaction or repeated the test on `lease_id`.

Further divergences met while modelling, which have no run of their own. The models have this
behaviour; where a property would state the document's side, it states what holds instead.

Delivery:

* A reclaim requeues without comparing with the ceiling, so a lease that expires at the last
  attempt earns one more (`PRD.md:71`, "to a configured attempt ceiling"). `FailedAtCeiling`
  therefore says `>=`.
* A crash between inserting the attempt and marking the delivery leaves an attempt that no reclaim
  closes (`001_init.sql:127`, "rather than leaving it dangling"), and the next attempt repeats its
  number; `EndpointQueue!Record` may be repeated for this reason. With more such crashes than the
  cap the detail of a delivery may cut off the attempt that resolved it (`ResolvedShowsAnswer`).
* A publish that draws the lower `events.seq` and commits later is expanded later (`PRD.md:134`).
  `AcknowledgedFirst` is what holds.
* The window of a replay includes rows made by earlier replays, so one replay can enqueue an event
  twice (`adr/0005:17`); hence also `events.ts:77`, "at most one delivery per endpoint", is not so.
* A secret that no longer decrypts throws after the delivery is in flight; each retry waits for the
  lease and the ceiling never stops it, because no answer is ever recorded.
* The write-back sets `halted` whatever the status is, so an endpoint paused during its last
  attempt goes from paused to halted, an arrow the diagram of `ARCHITECTURE.md` does not have.
* `httpClient.ts:94` says an error class is "set only when no response ever arrived"; the total
  timer and a reset set one, and drop the status, after headers have arrived.

Reads:

* The ids a resume discloses are found by `created_at`: a failed delivery of a replay shares it
  with the replay's pending ones and is not named. `LiveSkipsAreTold` is about endpoints without
  replays.
* The success rate is over the newest 50 resolved deliveries by `created_at` (`endpoints.ts:63`), not
  the last 50 to end. Rows of one replay share it, so a replay of more than 50 rows whose last one
  fails may halt an endpoint that is then shown at 100 %; a replay that succeeds before a live
  delivery fails does the same. `HaltedShowsFailure` says what it takes: as many succeeded deliveries
  as are rated, created no earlier than the failure although it ended last in its stream.
* Cursors carry milliseconds where the column has microseconds (`pagination.ts:1`), so
  `MissesOnlyTies` excepts rows of one millisecond. A limit such as 0.5 passes the test for positive
  numbers, is floored to 0, and returns an empty page without a cursor.
* The queue route returns deliveries of every state in the order of `seq`, and the endpoint page
  calls the first one "head of queue" and highlights it when halted: after the first success that is
  no longer the head.

Console:

* On the endpoints list one `busyEndpointId` stands for three mutations: with actions on two
  endpoints under way the other row is enabled, actions on it may overtake each other, and a second
  secret may replace the first. `ActionsInOrder` and `SecretKept` are about an endpoint's own page.
  Both are about mutations the page still waits for: one that fails at the client and is carried out
  later is a `Progress`, which may come in any order.
* `ReadYourWrites` covers the keys an action names. The list is not fetched anew after an action on an
  endpoint's page (`EndpointDetail.tsx:43`), nor an endpoint's queue after one on the list: both show
  the state before it, as fresh, until their next poll.
* Nor does it cover, until the next answer, a key whose answer was already on its way and that
  `invalidateQueries` does not fetch anew. An endpoint registered while the list is loading for the
  first time (`Endpoints.tsx:66` shows the button) is missing from the list that then appears, and
  nothing says so: the fetch in flight is joined and clears the mark. The same happens to a request
  that outlived its page.
* Leaving the page during a rotation loses the secret it returns. Going from one endpoint's page to
  another through the history does not: the secret of the first stays on display over the second.
* After a switch of backend, or from one endpoint's page to another, an outstanding action
  invalidates the new keys and not those it changed.
* An expanded event without subscribers is shown as "Not expanded yet", and a failed delivery as
  the reason that its endpoint "is now halted" also after a resume.

## Theorems

Every invariant and action property of the passing runs is proved, for any number of workers,
tenants, endpoints, deliveries, requests, attempts and failures. The only hypotheses are the named
assumptions of the modules and the two stated below, `~ClaimStall` and a bound on lookups. Apart
from types none of the properties is inductive as it stands. Each part below is an operator of that
name; TLC checked every one of these inductive invariants on the runs' instances before it was
proved, and still checks `LeaseInvariant` in `delivery_liveness`. One lemma per part shows that
every step preserves it, with one proof step per action that can disturb it.

### Leases, attempts and the queue

`TypeCorrect` needs no hypothesis on stalls. Its content beyond types is that each statement finds
what an earlier one put into its locals: a head on the claimed endpoint, an attempt row that
exists, a result.

*With stalls anywhere*, `AnswerInvariant` holds: `RowIsOurs` says that the attempts row a worker
inserted is open, or closed as expired, until that worker writes to it, and no one else's. It gives
`SucceededIsWitnessed` and `AnswersAreKept`: a late answer never overwrites another.

*Under `~ClaimStall`* also `OneInFlight`, `StrictOrder`, `HaltedIsQuiescent`, `TerminalIsFinal`,
`HistoryAgrees`, `FailedAtCeiling` and `ImplementsQueue`. The hypothesis is necessary: with stalled
claims TLC refutes `OneInFlight` and `TerminalIsFinal`. Why two deliveries are never in flight
depends on who may mark one, which depends on who holds the lease and on whether what was read
when claiming still holds. `LeaseInvariant` collects this:

* `LeaseOwned`: a lease names a worker busy with that endpoint; a worker still claiming holds its
  lease.
* `StaleIsReclaimable`: a cutoff covers only leases that are stale now; a stale lease is never that
  of a worker still claiming; a candidate whose stale lease may be taken over was read as busy, so
  its orphan will be requeued. This is where the age of `cutoff` and `candidate.busy` matters.
* `InFlightOwned`: a delivery in flight is under a lease, of a worker gone, of the worker sending
  it, or of one that is about to requeue it.
* `HeadIsOurs`: the head fetched is still pending and first until it is marked, and what the
  holder of the lease sends is still in flight.
* `VisibleInOrder`: rows of a stream become visible in order.

`HistoryInvariant` adds what the attempts table knows: `AttemptIsLast` (what the holder of a lease
sends is its delivery's last attempt, still open and counted) and `ClosedBeforeRequeue` (an orphan
is put back only after its attempt has been closed). Without the first an answer could resolve a
delivery from a row that is not its last; without the second a requeued delivery could keep an open
attempt behind it.

`ImplementsQueueCorrect` is the refinement, action by action: `TouchTenant`, `SelectCandidates`,
`LoseRace`, a lapse and a crash are stutters; `ClaimEndpoint` is `Claim`, or a stutter when it takes
a lease over; `CloseOrphanedAttempt` is `Expire`, and each other statement of a claim or of a
write-back is the step of the queue with its effect on the tables. `HistoryInvariant` supplies the
guards the queue has and the code does not test.

### Expansion and replay

`ExpansionInvariant`: `KeysAnswered` (one event per key, and a 202 names it), `EarlierIsThere` (what
a request found when it began drew its `seq` before), `TenantLocked` (the advisory lock excludes,
also between tenants whose keys collide), `ReadingIsPending` (an event read under the lock stays
pending, and all that was acknowledged before it has been expanded), `RowsAreNext` (uncommitted
rows are one per subscriber and behind all their endpoints have), `ExpandedInOrder`. The chain from
lock to order runs through `EarlierExpanded`: the reader takes the least `seq` of what is visible,
and what was acknowledged earlier is visible. No assumption is made about when publishers commit.

`ReplayInvariant`: `KeysAnswered`, `LockedOnce` (a row lock has one holder), `NumbersDrawn` (no
number is drawn twice, also not by two open transactions), `WindowKept` (what was finished in a
stored replay's range stays in its window, however late it is expanded), `RowsCopyWindow` (the
uncommitted rows are the window, in its order). `RankFacts` shows that the ORDER BY numbers the
rows of any finite window without gaps or repetition.

### The outbound call

`CheckIpv4Exact` and `CheckIpv6Covers` compare the checks of `url.ts` with the CIDR blocks: the
first agrees with them on every address, the second, which tests prefixes of a printed group,
refuses at least what is reserved. Reserved is what R-2 and `url.ts` list, which leaves out `::`.
`HexFull` is why printing without leading zeros loses nothing there. With `PinnedIsChecked`,
`DialedIsPublic` follows for any URL, at any answer of the resolver.

`WithinTimers` and `TimerIsCleared` bound the phases of a call and give `ConnectTimeoutIsConnect`.
`WithinLeaseCorrect` has a hypothesis, `MaxLookup <= TotalTimeout \/ MaxLookup <= LeaseFloor`: a
lookup has no timeout of its own and must fit the slack that `config.ts` leaves in the lease. It is
the weakest one, since the slack is the larger of the two. `SignersCurrent` relates the secrets a
claim has read to the receiver's, through any number of rotations, and gives `HolderVerifies`.

### What is read

`ReadInvariant` is about `ReadSpec`, the reads over `EndpointQueue`; as `DeliveryWorker` implements
that queue, what is proved here is true of the reads of its tables under `~ClaimStall`. Its parts
about the queue are `AttemptedInOrder`, `OneInFlight`, `LastAnswers` (a resolved delivery's last
attempt is the one that was answered) and `HaltedByLast`; those about the calls are `SkipsTold` (a
failed delivery holds its endpoint up, or a resume is telling or has told of it), `DetailHolds` (a
delivery read as resolved stays so until the attempts are read) and `ListHolds` (a row there at the
start is seen, still ahead of the cursor, or an event of a millisecond already seen). `Sortable`
shows that any finite set of rows has the sorted sequence `OrderBy` chooses, which needs event ids
to be a key, `LatestFacts` that the capped attempts keep the last one, and `RatedHasFailure` that
the failure which halted an endpoint is rated, or else everything rated was created no earlier. They give
`ResolvedShowsAnswer`, `LiveSkipsAreTold`, `HaltedShowsFailure`, `InOrderOnce`, `MissesOnlyTies` and
`BlockedWaits` for any page size, caps and times of creation.

### The console

`ConsoleInvariant`: `KeyedByBackend` (data and requests are of the backend their key names),
`AnswersBringWrites` (an answer brings the last change told of, or was let pass then), `WritesRead`
(so does the data, on the screen or off it, or it is marked as old), `InvalidIsFetched` (what is so
marked on the screen is being fetched, or its fetch failed), `OneAtATime` (who may be pending on an
endpoint's page) and `SecretIsLast`. They give `ShownForBackend`, `ReadYourWrites`,
`ActionsInOrder` and `SecretKept`.

### Assumptions

Each module names its own. Most give constants their types, keep `None` apart from values, or say
that endpoints, tenants or rows are finitely many. Three say more: `DeliveryWorker` and `ReadApi`
take deliveries to be named by numbers, which is the column `seq`; `TimesAssumption` of `ReadApi`
makes event ids a key; `NamesAssumption` of `Console` keeps an endpoint's page apart from the
others. TLC evaluates all of them in every run of the module.

### Model-checked only

`Delivered`, `EventuallyExpanded`, `EventuallyReplayed`, `Settles` and `EventuallyFresh`: they rest
on fairness, which is outside the prover's reach. The two runs that end in a counterexample refute
what they check and need no proof. What `delivery_stall` checks is proved in full, its properties
being those that need no `~ClaimStall`.

## Not modelled

* Payloads, cryptography, JSON, routing, the lookup of an API key, parsing of addresses and URLs,
  the agents' limit of sockets per host.
* The length of backoffs; clocks that disagree. The cutoff is computed from the worker's
  clock and compared with the database's; skew below the slack of the lease has no effect, skew
  above it amounts to a lapse under a live worker, as with `ClaimStall`.
* Connection pooling, statement timeouts, loss of committed data.
* Deleting endpoints or changing their subscriptions: the code has no such operation.
* The filters of `GET /events` other than the endpoint, which only narrow the rows, and the tenant
  condition of queries outside `Console`.
* Rendering and formatting in the console, the event page's filters, the landing page (static), the
  seed scripts, and the chaos, load and property harnesses, which are drivers of the behaviours
  modelled here.

## Plan

Modelled and proved is what the earlier plan listed. What is left, in this order:

1. `EndpointQueue` on its own: `AttemptedInOrder`, `OneInFlight` and `LastAnswers` are proved inside
   `ReadApi`'s invariant, over its constants. Stated as theorems of the queue they carry over to
   `DeliveryWorker` by the refinement, a second way to `StrictOrder` and `OneInFlight`.
2. `Expansion` and `Replay` as the environment of `DeliveryWorker`: `AppendsAtTail` is what the
   guard of `Enqueue` assumes of live rows; a mapping of deliveries by `seq` would make this a
   theorem.
3. What a stalled claim cannot break beyond `AnswerInvariant`: how many deliveries of an endpoint
   can be in flight at most, as a function of the number of stalled workers.
4. Shorter proofs where parts repeat: the row facts of `ReadApiProofs` and `ReplayProofs`.

Not planned: a bound on how often a tenant is passed over (ADR-0004), which the code's order of
candidates makes likely and does not guarantee.
