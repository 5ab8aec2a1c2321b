------------------------------- MODULE Console -------------------------------
(***************************************************************************)
(* The web console (frontend/src): an operator signs in with a tenant's    *)
(* API key, chooses a backend, moves between pages that poll the REST API, *)
(* and acts on endpoints.  Requests, answers and the operator's clicks     *)
(* interleave; a request may fail, and one that fails may have been served.*)
(*                                                                         *)
(* What a query returns is abstracted to who asked which backend and to    *)
(* how many changes that backend had seen when it answered.  The caching   *)
(* rules are those of TanStack Query, which the pages configure and call:  *)
(*   - one request per key at a time; a mount fetches unless the data is   *)
(*     younger than staleTime, a poll always does, both join a request in  *)
(*     flight;                                                             *)
(*   - a request outlives the page that sent it;                           *)
(*   - invalidateQueries marks every key with the given prefix, and those  *)
(*     on the screen are fetched anew, dropping a request in flight when   *)
(*     there is data;                                                      *)
(*   - a mutation outlives its page too, and calls the onSuccess of the    *)
(*     last render that knew it as the hook's current one.                 *)
(***************************************************************************)
EXTENDS Integers, FiniteSets, SequencesExt

CONSTANTS
    Tenants,        \* holders of an API key
    Backends,       \* BACKENDS of lib/backend.tsx
    Endpoints,      \* endpoints of the tenant, each with a page of its own
    Views,          \* the other pages; an event and a delivery have one each
    Followed,       \* first words of the query keys an instance follows
    Actions,        \* the buttons that change something
    MaxClicks,      \* bound: what the operator does
    MaxSurprises,   \* bound: failed requests, and changes made by others
    None            \* null, undefined, nothing yet

ASSUME ConsoleAssumption ==
    /\ Views \subseteq {"overview", "endpoints", "events", "event", "delivery"}
    /\ "endpoints" \in Followed
    /\ Actions \subseteq {"pause", "resume", "rotate", "replay", "register"}
    /\ {MaxClicks, MaxSurprises} \subseteq Nat

(* A request in flight, then what it brought: changes its backend had seen. *)
(* "missed" is history, for the properties: the change whose success came   *)
(* with this answer on its way and let it pass.                             *)
Answer == [tenant : Tenants, base : Backends, answer : Nat \cup {None},
           missed : Nat]

(* A secret on display: the action that revealed it, the clicks by then.    *)
Secret == [id : Nat, after : Nat]

(* An endpoint's page is none of the others, and nothing is no thing.       *)
ASSUME NamesAssumption ==
    /\ Endpoints \cap {"overview", "endpoints", "events", "event", "delivery"} = {}
    /\ None \notin Tenants /\ None \notin Nat
    /\ None \notin Answer /\ None \notin Secret

VARIABLES
    apiKey,     \* the tenant signed in, or None
    backend,    \* the selected backend
    page,       \* the page the URL names
    cache,      \* per query key: data, isInvalidated, isError
    request,    \* per query key: the request in flight, or None
    pending,    \* the mutations not settled yet
    secret,     \* revealedSecret of the page on the screen
    changes,    \* per backend: changes it has seen
    written,    \* per query key: the last change an action told of it
    clicks, surprises

vars == <<apiKey, backend, page, cache, request, pending, secret, changes,
          written, clicks, surprises>>

-----------------------------------------------------------------------------
EndpointsKey_NoBackend(b) == <<"endpoints">>     \* slip: backend.id left out

(* Query keys, as the pages spell them.                                     *)
EndpointsKey(b)     == <<"endpoints", b>>
EndpointKey(b, e)   == <<"endpoints", b, e>>
OverviewQueries(b)  == {EndpointsKey(b), <<"events", b, "recent">>,
                        <<"events", b, "since-1h">>}
EventsQueries(b)    == {<<"events", b, "", None>>}
EventQueries(b)     == {<<"event", b, "event">>}
DeliveryQueries(b)  == {<<"delivery", b, "delivery">>}
DetailQueries(b, e) == {EndpointKey(b, e), <<"endpoint-deliveries", b, e>>}

(* The queries of a page poll, fail and settle each on its own, so that an  *)
(* instance may follow some of them only.                                   *)
Queries(p, b) ==
    LET all == CASE p = "overview"  -> OverviewQueries(b)
                 [] p = "endpoints" -> {EndpointsKey(b)}
                 [] p = "events"    -> EventsQueries(b)
                 [] p = "event"     -> EventQueries(b)
                 [] p = "delivery"  -> DeliveryQueries(b)
                 [] OTHER           -> DetailQueries(b, p)
    IN  {k \in all : Head(k) \in Followed}

Pages == Views \cup Endpoints
Keys  == UNION {Queries(p, b) : p \in Pages, b \in Backends}

(* Keys with an enabled observer: none before the operator signs in.        *)
OnScreen == IF apiKey = None THEN {} ELSE Queries(page, backend)

(* The client of useApiClient: the request carries this key to this base.   *)
createApiClient(t, b) == [tenant |-> t, base |-> b, answer |-> None, missed |-> 0]

-----------------------------------------------------------------------------
Fetching(K, t, b) ==
    [k \in Keys |-> IF k \in K /\ request[k] = None
                    THEN createApiClient(t, b) ELSE request[k]]

(* A page appears, for tenant t on backend b: keys with no data, or with    *)
(* invalidated data, are fetched; the others when staleTime has passed.     *)
Mount(t, b, p) ==
    LET mine   == Queries(p, b)
        forced == {k \in mine : cache[k].data = None \/ cache[k].invalid}
    IN  \E young \in SUBSET (mine \ forced) :
           request' = Fetching(mine \ young, t, b)

(* A page disappears with its state: answers to its actions find no one.    *)
Unmount ==
    /\ pending' = {[m EXCEPT !.hook = "gone"] : m \in pending}
    /\ secret' = None

Click    == clicks < MaxClicks /\ clicks' = clicks + 1
Surprise == surprises < MaxSurprises /\ surprises' = surprises + 1

signIn(t) ==
    /\ Click /\ apiKey = None
    /\ apiKey' = t
    /\ Mount(t, backend, page)
    /\ UNCHANGED <<backend, page, cache, pending, secret, changes, written,
                   surprises>>

signOut ==
    /\ Click /\ apiKey # None
    /\ apiKey' = None
    /\ Unmount
    /\ UNCHANGED <<backend, page, cache, request, changes, written,
                   surprises>>

(* What an action of this page invalidates.                                 *)
Invalidates(p, b) == IF p \in Endpoints THEN DetailQueries(b, p)
                     ELSE {EndpointsKey(b)}

(* The component stays with its state, and its next render hands other keys *)
(* to the mutations its hooks watch.                                        *)
Rerender(p, b) ==
    pending' = {IF m.hook = "current"
                THEN [m EXCEPT !.keys = Invalidates(p, b)] ELSE m
                : m \in pending}

(* Signed out, no page is there to fetch.                                   *)
Appear(b, p) ==
    IF apiKey = None THEN UNCHANGED request ELSE Mount(apiKey, b, p)

setBackendId(b) ==
    /\ Click /\ b # backend
    /\ backend' = b
    /\ Rerender(page, b)
    /\ Appear(b, page)
    /\ UNCHANGED <<apiKey, page, cache, secret, changes, written,
                   surprises>>

(* A link, or the history.  One Route serves every endpoint's page: from    *)
(* one to another its component stays.                                      *)
Navigate(p) ==
    /\ Click /\ p # page
    /\ page' = p
    /\ IF {page, p} \subseteq Endpoints
       THEN Rerender(p, backend) /\ UNCHANGED secret
       ELSE Unmount
    /\ Appear(backend, p)
    /\ UNCHANGED <<apiKey, backend, cache, changes, written, surprises>>

-----------------------------------------------------------------------------
Poll_Never(k) == FALSE /\ UNCHANGED vars         \* slip: no refetchInterval

(* refetchInterval.                                                         *)
Poll(k) ==
    /\ k \in OnScreen /\ request[k] = None
    /\ request' = Fetching({k}, apiKey, backend)
    /\ UNCHANGED <<apiKey, backend, page, cache, pending, secret, changes,
                   written, clicks, surprises>>

(* The backend serves the query.                                            *)
Serve(k) ==
    /\ request[k] # None /\ request[k].answer = None
    /\ request' = [request EXCEPT ![k].answer = changes[request[k].base]]
    /\ UNCHANGED <<apiKey, backend, page, cache, pending, secret, changes,
                   written, clicks, surprises>>

(* Its answer arrives.                                                      *)
Settle(k) ==
    /\ request[k] # None /\ request[k].answer # None
    /\ cache' = [cache EXCEPT ![k] = [data |-> request[k], invalid |-> FALSE,
                                      error |-> FALSE]]
    /\ request' = [request EXCEPT ![k] = None]
    /\ UNCHANGED <<apiKey, backend, page, pending, secret, changes, written,
                   clicks, surprises>>

(* It fails: ApiError or a network error, and retry is off.  Data stays.    *)
Reject(k) ==
    /\ Surprise /\ request[k] # None
    /\ cache' = [cache EXCEPT ![k].invalid = TRUE, ![k].error = TRUE]
    /\ request' = [request EXCEPT ![k] = None]
    /\ UNCHANGED <<apiKey, backend, page, pending, secret, changes, written,
                   clicks>>

(* Workers, publishers and other operators change what a backend shows.     *)
Progress(b) ==
    /\ Surprise
    /\ changes' = [changes EXCEPT ![b] = @ + 1]
    /\ UNCHANGED <<apiKey, backend, page, cache, request, pending, secret,
                   written, clicks>>

-----------------------------------------------------------------------------
(* isPending of a hook: it knows only the last mutation it started.         *)
Current(action) == {m \in pending : m.action = action /\ m.hook = "current"}

(* The endpoint whose row the list disables: the first pending hook's.      *)
busyEndpointId ==
    LET busy == SelectSeq(<<"pause", "resume", "rotate">>,
                          LAMBDA a : Current(a) # {})
    IN  IF busy = <<>> THEN None
        ELSE (CHOOSE m \in Current(Head(busy)) : TRUE).endpoint

RowBusy(e) == \/ busyEndpointId = e
              \/ \E m \in Current("replay") : m.endpoint = e

DetailBusy_NoRotate ==                      \* slip: rotate is not in busy
    \E a \in {"pause", "resume", "replay"} : Current(a) # {}

DetailBusy == \E a \in {"pause", "resume", "rotate", "replay"} : Current(a) # {}

(* The page on the screen shows endpoint e.                                 *)
Shown(e) ==
    /\ e # None /\ page \in {"endpoints", e}
    /\ cache[IF page = e THEN EndpointKey(backend, e)
             ELSE EndpointsKey(backend)].data # None

(* Where a button is enabled.  A form may have been opened before the page  *)
(* became busy: only its own submission in progress disables it.  Whether   *)
(* Pause or Resume is offered depends on the status shown, which is data:   *)
(* either may be pressed.                                                   *)
RegisterForm(e)   == page = "endpoints" /\ e = None /\ Current("register") = {}
ReplayForm(e)     == Shown(e) /\ Current("replay") = {}
EndpointRow(e)    == Shown(e) /\ page = "endpoints" /\ ~RowBusy(e)
EndpointDetail(e) == Shown(e) /\ page = e /\ ~DetailBusy

Pressable(action, e) ==
    /\ apiKey # None
    /\ CASE action = "register" -> RegisterForm(e)
         [] action = "replay"   -> ReplayForm(e)
         [] OTHER -> EndpointRow(e) \/ EndpointDetail(e)

Press(action, e) ==
    /\ Click /\ Pressable(action, e)
    /\ pending' =
          {IF m \in Current(action) THEN [m EXCEPT !.hook = "mounted"] ELSE m
           : m \in pending}
          \cup {[id |-> clicks + 1, action |-> action, endpoint |-> e,
                 page |-> page, base |-> backend, hook |-> "current",
                 keys |-> Invalidates(page, backend), change |-> None]}
    /\ UNCHANGED <<apiKey, backend, page, cache, request, secret, changes,
                   written, surprises>>

(* The backend carries the action out.                                      *)
Perform(m) ==
    /\ m.change = None
    /\ changes' = [changes EXCEPT ![m.base] = @ + 1]
    /\ pending' = (pending \ {m})
                  \cup {[m EXCEPT !.change = changes[m.base] + 1]}
    /\ UNCHANGED <<apiKey, backend, page, cache, request, secret, written,
                   clicks, surprises>>

Matches(m) == {k \in Keys : \E q \in m.keys : IsPrefix(q, k)}

Refetched_JoinsPoll(m) ==                   \* slip: a poll in flight will do
    {k \in Matches(m) \cap OnScreen : request[k] = None}

(* Keys on the screen are fetched anew; with no data yet, the fetch in      *)
(* flight is joined (cancelRefetch).                                        *)
Refetched(m) == {k \in Matches(m) \cap OnScreen :
                    cache[k].data # None \/ request[k] = None}

(* The keys the operator may expect to show what m did.                     *)
Promised(m) == {k \in Matches(m) : k[2] = m.base /\ m.change > written[k]}

(* Of these, the ones left alone with an answer from before m on its way.   *)
LetPass(m) == {k \in Promised(m) :
                  /\ k \notin OnScreen \/ cache[k].data = None
                  /\ request[k] # None
                  /\ request[k].answer # None /\ request[k].answer < m.change}

(* invalidateQueries for each key of the mutation.                          *)
invalidate(m) ==
    /\ cache' = [k \in Keys |-> IF k \in Matches(m)
                                THEN [cache[k] EXCEPT !.invalid = TRUE]
                                ELSE cache[k]]
    /\ request' = [k \in Keys |->
          IF k \in Refetched(m) THEN createApiClient(apiKey, backend)
          ELSE IF k \in LetPass(m) THEN [request[k] EXCEPT !.missed = m.change]
          ELSE request[k]]

(* onSuccess.  A secret is revealed if the page is still there.             *)
onSuccess(m) ==
    /\ m.change # None
    /\ pending' = pending \ {m}
    /\ invalidate(m)
    /\ secret' = IF m.action \in {"rotate", "register"} /\ m.hook # "gone"
                 THEN [id |-> m.id, after |-> clicks] ELSE secret
    /\ written' = [k \in Keys |-> IF k \in Promised(m) THEN m.change
                                  ELSE written[k]]
    /\ UNCHANGED <<apiKey, backend, page, changes, clicks, surprises>>

(* onError: the banner.  The backend may have carried the action out; if it *)
(* is yet to, that is a Progress.                                           *)
onActionError(m) ==
    /\ Surprise
    /\ pending' = pending \ {m}
    /\ UNCHANGED <<apiKey, backend, page, cache, request, secret, changes,
                   written, clicks>>

CloseSecret ==
    /\ secret # None
    /\ secret' = None
    /\ UNCHANGED <<apiKey, backend, page, cache, request, pending, changes,
                   written, clicks, surprises>>

-----------------------------------------------------------------------------
(* The page is opened with nothing cached; localStorage may hold a key and  *)
(* a backend.                                                               *)
Init ==
    /\ apiKey \in Tenants \cup {None}
    /\ backend \in Backends
    /\ page \in Pages
    /\ cache = [k \in Keys |-> [data |-> None, invalid |-> FALSE,
                                error |-> FALSE]]
    /\ request = [k \in Keys |-> IF k \in OnScreen
                                 THEN createApiClient(apiKey, backend)
                                 ELSE None]
    /\ pending = {} /\ secret = None
    /\ changes = [b \in Backends |-> 0]
    /\ written = [k \in Keys |-> 0]
    /\ clicks = 0 /\ surprises = 0

Next ==
    \/ \E t \in Tenants : signIn(t)
    \/ signOut
    \/ \E b \in Backends : setBackendId(b) \/ Progress(b)
    \/ \E p \in Pages : Navigate(p)
    \/ \E k \in Keys : Poll(k) \/ Serve(k) \/ Settle(k) \/ Reject(k)
    \/ \E a \in Actions, e \in Endpoints \cup {None} : Press(a, e)
    \/ \E m \in pending : Perform(m) \/ onSuccess(m) \/ onActionError(m)
    \/ CloseSecret

Spec == Init /\ [][Next]_vars

(* The interval timer of a page on the screen keeps firing, and a request   *)
(* is answered or fails.  Nothing is assumed of the operator.               *)
FairSpec ==
    /\ Spec
    /\ \A k \in Keys : /\ WF_vars(Poll(k))
                       /\ WF_vars(Serve(k))
                       /\ WF_vars(Settle(k) \/ Reject(k))

-----------------------------------------------------------------------------
(* What a page shows came from the backend the operator selected: switching *)
(* never leaves the other backend's data, nor a request sent to it, under   *)
(* the keys of the page (lib/backend.tsx, the queryKey of every page).      *)
ShownForBackend ==
    \A k \in OnScreen : /\ cache[k].data # None => cache[k].data.base = backend
                        /\ request[k] # None => request[k].base = backend

(* Under every query key of its backend that an action names, once the      *)
(* operator was told it succeeded, the page shows what it did, or knows its *)
(* data is out of date and is fetching it, or says it failed to             *)
(* (useEndpointActions.ts, useReplayAction.ts).  There is one exception:    *)
(* an answer from before the action that is already on its way, to a key    *)
(* invalidateQueries does not fetch anew, is shown as fresh until the next  *)
(* one.  That is the page's first load, e.g. an endpoint registered while   *)
(* the list is still loading (Endpoints.tsx:66), or a key that was off the  *)
(* screen.  Keys the action does not name are promised nothing: the list    *)
(* after an action on an endpoint's page (EndpointDetail.tsx:43), the queue *)
(* after one on the list, the old backend's after a switch.                 *)
ReadYourWrites ==
    \A k \in OnScreen : cache[k].data # None =>
        \/ cache[k].data.answer >= written[k]
        \/ cache[k].invalid /\ (request[k] # None \/ cache[k].error)
        \/ cache[k].data.missed = written[k]

(* During one visit to an endpoint's page the pause, resume and rotate it   *)
(* still waits for take effect in the order they were clicked (busy in      *)
(* EndpointDetail.tsx).  One whose request failed is waited for no longer,  *)
(* and nothing is said of when the backend carries it out.                  *)
ActionsInOrder ==
    \A m, n \in pending :
        (/\ {m.hook, n.hook} \subseteq {"current", "mounted"}
         /\ {m.page, n.page} \subseteq Endpoints
         /\ {m.action, n.action} \subseteq {"pause", "resume", "rotate"}
         /\ m.id < n.id /\ n.change # None) => m.change # None

(* On an endpoint's page the secret on display, which cannot be asked for   *)
(* again, is only replaced by one the operator asked for while it was on    *)
(* display: a late answer never takes its place (revealedSecret).           *)
SecretKept ==
    [][(page \in Endpoints /\ secret # None /\ secret' # None
        /\ secret' # secret) => secret'.id > secret.after]_vars

(* "A failed fetch just shows its error immediately, and self-heals on the  *)
(* next poll tick" (main.tsx): once operator, backend and network are quiet *)
(* the page ends up with everything that happened, and no error.            *)
EventuallyFresh ==
    <>[](\A k \in OnScreen : /\ cache[k].data # None /\ ~ cache[k].error
                             /\ cache[k].data.answer = changes[backend])

(* What useApiClient.ts asks of every query key, "fold backend.id/apiKey    *)
(* into their TanStack Query keys too": no one sees what another tenant's   *)
(* key fetched.                                                             *)
ShownForTenant ==
    \A k \in OnScreen : cache[k].data # None => cache[k].data.tenant = apiKey

-----------------------------------------------------------------------------
(* The types of the variables.                                              *)

Mutation ==
    [id : Nat, action : Actions, endpoint : Endpoints \cup {None}, page : Pages,
     base : Backends, hook : {"current", "mounted", "gone"},
     keys : {Invalidates(p, b) : p \in Pages, b \in Backends}, change : Nat \cup {None}]

ConsoleTypeOK ==
    /\ apiKey \in Tenants \cup {None} /\ backend \in Backends /\ page \in Pages
    /\ cache \in [Keys -> [data : Answer \cup {None}, invalid : BOOLEAN, error : BOOLEAN]]
    /\ request \in [Keys -> Answer \cup {None}]
    /\ pending \subseteq Mutation
    /\ secret \in Secret \cup {None}
    /\ changes \in [Backends -> Nat] /\ written \in [Keys -> Nat]
    /\ clicks \in Nat /\ surprises \in Nat

=============================================================================
