----------------------------- MODULE ConsoleProofs -----------------------------
(***************************************************************************)
(* Proofs about Console, for any number of tenants, backends, endpoints    *)
(* and clicks, whichever queries and buttons an instance follows.          *)
(***************************************************************************)
EXTENDS Console, TLAPS

(* The inductive invariant, whose parts ConsoleInvariant puts together.     *)

(* Data and requests are of the backend their key names.                    *)
KeyedByBackend ==
    \A k \in Keys : /\ cache[k].data # None => cache[k].data.base = k[2]
                    /\ request[k] # None => request[k].base = k[2]

(* What an answer brings: the last change told of, or it was let pass then. *)
Brings(a, w) == a.answer >= w \/ a.missed = w

(* No one has seen a change that has not happened, and a request answered   *)
(* brings every change an action was said to have made, or was let pass.    *)
AnswersBringWrites ==
    /\ \A k \in Keys :
          /\ written[k] <= changes[k[2]]
          /\ request[k] # None /\ request[k].answer # None => Brings(request[k], written[k])
    /\ \A m \in pending : m.change # None => m.change <= changes[m.base]

(* So does the data, on the screen or off it, or it is marked as old.       *)
WritesRead ==
    \A k \in Keys : cache[k].data # None =>
        Brings(cache[k].data, written[k]) \/ cache[k].invalid

(* Old data on the screen is being fetched anew, or could not be.           *)
Attended(k) == cache[k].data # None /\ cache[k].invalid => request[k] # None \/ cache[k].error

InvalidIsFetched == \A k \in OnScreen : Attended(k)

(* A mutation whose page is still there was started on the page shown, or   *)
(* on another endpoint's, and an endpoint's page has one pause, resume or   *)
(* rotate at a time.                                                        *)
Watched(m)  == m.hook # "gone"
Guarded(m) == Watched(m) /\ m.action \in {"pause", "resume", "rotate"}

OneAtATime ==
    /\ \A m \in pending : Watched(m) => m.page = page \/ {m.page, page} \subseteq Endpoints
    /\ page \in Endpoints =>
          /\ \A m \in pending : Guarded(m) => m.hook = "current"
          /\ \A m, n \in pending : Guarded(m) /\ Guarded(n) => m = n
    /\ \A m \in pending : m.action = "register" => m.page = "endpoints"

(* No one but the operator's later clicks can replace the secret displayed. *)
SecretIsLast ==
    /\ secret # None => secret.after <= clicks
    /\ page \in Endpoints /\ secret # None =>
          \A m \in pending : Watched(m) /\ m.action \in {"rotate", "register"} =>
              m.id > secret.after

ConsoleInvariant ==
    /\ ConsoleTypeOK
    /\ KeyedByBackend
    /\ AnswersBringWrites
    /\ WritesRead
    /\ InvalidIsFetched
    /\ OneAtATime
    /\ SecretIsLast

-----------------------------------------------------------------------------

(* The keys of a page name the selected backend.                            *)
LEMMA QueriesFacts ==
    ASSUME NEW p \in Pages, NEW b \in Backends
    PROVE  Queries(p, b) \subseteq Keys /\ \A k \in Queries(p, b) : k[2] = b
<1>1. Queries(p, b) \subseteq Keys
  BY DEF Keys
<1>2. \A k \in OverviewQueries(b) : k[2] = b
  BY DEF OverviewQueries, EndpointsKey
<1>3. /\ \A k \in EventsQueries(b) : k[2] = b
      /\ \A k \in EventQueries(b) : k[2] = b
      /\ \A k \in DeliveryQueries(b) : k[2] = b
  <2>1. <<"events", b, "", None>>[2] = b
    OBVIOUS
  <2>2. <<"event", b, "event">>[2] = b /\ <<"delivery", b, "delivery">>[2] = b
    OBVIOUS
  <2> QED
    BY <2>1, <2>2 DEF EventsQueries, EventQueries, DeliveryQueries
<1>4. \A k \in DetailQueries(b, p) \cup {EndpointsKey(b)} : k[2] = b
  BY DEF DetailQueries, EndpointKey, EndpointsKey
<1>5. \A k \in Queries(p, b) :
         \/ k \in OverviewQueries(b)
         \/ k \in EventsQueries(b) \cup EventQueries(b) \cup DeliveryQueries(b)
         \/ k \in DetailQueries(b, p) \cup {EndpointsKey(b)}
  BY DEF Queries
<1> QED
  BY <1>1, <1>2, <1>3, <1>4, <1>5

(* The keys on the screen.                                                  *)
LEMMA OnScreenFacts ==
    ASSUME ConsoleTypeOK
    PROVE  /\ OnScreen \subseteq Keys
           /\ \A k \in OnScreen : k[2] = backend /\ apiKey \in Tenants
  BY QueriesFacts DEF OnScreen, ConsoleTypeOK

(* A request just sent.                                                     *)
LEMMA ClientFacts ==
    ASSUME NEW t \in Tenants, NEW b \in Backends
    PROVE  /\ createApiClient(t, b) \in Answer /\ createApiClient(t, b) # None
           /\ createApiClient(t, b).base = b /\ createApiClient(t, b).answer = None
  BY NamesAssumption DEF createApiClient, Answer

(* The fields of an answer.                                                 *)
LEMMA AnswerFields ==
    ASSUME NEW a \in Answer
    PROVE  /\ a.tenant \in Tenants /\ a.base \in Backends /\ a.answer \in Nat \cup {None}
           /\ a.missed \in Nat
  BY DEF Answer

(* Sending requests, each to its key's backend, where none is in flight.    *)
Sends ==
    /\ request' \in [Keys -> Answer \cup {None}]
    /\ \A k \in Keys :
          \/ request'[k] = request[k]
          \/ /\ request[k] = None /\ request'[k] # None
             /\ request'[k].base = k[2] /\ request'[k].answer = None

LEMMA FetchFacts ==
    ASSUME ConsoleTypeOK, NEW t \in Tenants, NEW b \in Backends, NEW K \in SUBSET Keys,
           \A k \in K : k[2] = b, request' = Fetching(K, t, b)
    PROVE  Sends
<1>1. \A k \in Keys : request'[k] = IF k \in K /\ request[k] = None
                                    THEN createApiClient(t, b) ELSE request[k]
  BY DEF Fetching
<1>2. request' \in [Keys -> Answer \cup {None}]
  BY ClientFacts DEF Fetching, ConsoleTypeOK
<1> QED
  BY <1>1, <1>2, ClientFacts DEF Sends

LEMMA MountFacts ==
    ASSUME ConsoleTypeOK, NEW t \in Tenants, NEW b \in Backends, NEW p \in Pages,
           Mount(t, b, p)
    PROVE  Sends /\ \A k \in Queries(p, b) : cache[k].invalid => request'[k] # None
<1> DEFINE forced == {k \in Queries(p, b) : cache[k].data = None \/ cache[k].invalid}
<1>1. PICK young \in SUBSET (Queries(p, b) \ forced) :
        request' = Fetching(Queries(p, b) \ young, t, b)
  BY DEF Mount
<1>2. Sends
  BY <1>1, FetchFacts, QueriesFacts
<1>3. ASSUME NEW k \in Queries(p, b), cache[k].invalid PROVE request'[k] # None
  <2>1. k \in Keys /\ k \in Queries(p, b) \ young
    BY <1>1, <1>3, QueriesFacts
  <2>2. request'[k] = IF request[k] = None THEN createApiClient(t, b) ELSE request[k]
    BY <1>1, <2>1 DEF Fetching
  <2> QED
    BY <2>2, ClientFacts
<1> QED
  BY <1>2, <1>3

(* The same, signed in or out.                                              *)
LEMMA AppearFacts ==
    ASSUME ConsoleTypeOK, NEW b \in Backends, NEW p \in Pages, Appear(b, p)
    PROVE  /\ Sends \/ UNCHANGED request
           /\ apiKey # None => \A k \in Queries(p, b) : cache[k].invalid => request'[k] # None
  BY MountFacts DEF Appear, ConsoleTypeOK

(* A mutation, whatever became of its hook, its keys and its outcome.       *)
Same(m, x) ==
    x.id = m.id /\ x.action = m.action /\ x.page = m.page /\ x.base = m.base

LEMMA MutationFields ==
    ASSUME NEW m \in Mutation
    PROVE  /\ m.id \in Nat /\ m.action \in Actions /\ m.page \in Pages /\ m.base \in Backends
           /\ m.hook \in {"current", "mounted", "gone"} /\ m.change \in Nat \cup {None}
  BY DEF Mutation

LEMMA HookFacts ==
    ASSUME NEW m \in Mutation, NEW h \in {"current", "mounted", "gone"}
    PROVE  /\ [m EXCEPT !.hook = h] \in Mutation /\ [m EXCEPT !.hook = h].hook = h
           /\ Same(m, [m EXCEPT !.hook = h]) /\ [m EXCEPT !.hook = h].change = m.change
  BY DEF Mutation, Same

LEMMA KeysFacts ==
    ASSUME NEW m \in Mutation, NEW p \in Pages, NEW b \in Backends
    PROVE  LET x == [m EXCEPT !.keys = Invalidates(p, b)]
           IN  x \in Mutation /\ x.hook = m.hook /\ Same(m, x) /\ x.change = m.change
  BY DEF Mutation, Same

LEMMA ChangeFacts ==
    ASSUME NEW m \in Mutation, NEW c \in Nat
    PROVE  LET x == [m EXCEPT !.change = c]
           IN  x \in Mutation /\ x.hook = m.hook /\ Same(m, x) /\ x.change = c
  BY DEF Mutation, Same

(* A page that disappears leaves its mutations to themselves.               *)
LEMMA UnmountFacts ==
    ASSUME ConsoleTypeOK, Unmount
    PROVE  /\ pending' \subseteq Mutation /\ secret' = None
           /\ \A x \in pending' : \E m \in pending :
                 Same(m, x) /\ x.hook = "gone" /\ x.change = m.change
<1>1. pending' = {[m EXCEPT !.hook = "gone"] : m \in pending} /\ secret' = None
  BY DEF Unmount
<1>2. \A m \in pending : m \in Mutation
  BY DEF ConsoleTypeOK
<1> DEFINE Gone(m) == [m EXCEPT !.hook = "gone"]
<1>3. \A m \in pending :
         Gone(m) \in Mutation /\ Same(m, Gone(m)) /\ Gone(m).hook = "gone"
         /\ Gone(m).change = m.change
  BY <1>2, HookFacts
<1>4. pending' = {Gone(m) : m \in pending}
  BY <1>1
<1> HIDE DEF Gone
<1> QED
  BY <1>1, <1>3, <1>4

(* The next render's keys.                                                  *)
Rekeyed(p, b, m) ==
    IF m.hook = "current" THEN [m EXCEPT !.keys = Invalidates(p, b)] ELSE m

LEMMA RekeyedFacts ==
    ASSUME ConsoleTypeOK, NEW p \in Pages, NEW b \in Backends, Rerender(p, b)
    PROVE  /\ pending' \subseteq Mutation
           /\ pending' = {Rekeyed(p, b, m) : m \in pending}
           /\ \A m \in pending : LET x == Rekeyed(p, b, m)
                                 IN  Same(m, x) /\ x.hook = m.hook /\ x.change = m.change
<1>1. pending' = {Rekeyed(p, b, m) : m \in pending}
  BY DEF Rerender, Rekeyed
<1>2. ASSUME NEW m \in pending
      PROVE  /\ Rekeyed(p, b, m) \in Mutation
             /\ LET x == Rekeyed(p, b, m)
                IN  Same(m, x) /\ x.hook = m.hook /\ x.change = m.change
  <2>1. m \in Mutation
    BY DEF ConsoleTypeOK
  <2>2. CASE m.hook = "current"
    BY <2>1, <2>2, KeysFacts DEF Rekeyed
  <2>3. CASE m.hook # "current"
    BY <2>1, <2>3 DEF Rekeyed, Same
  <2> QED
    BY <2>2, <2>3
<1> QED
  BY <1>1, <1>2

(* A click starts a mutation; its hook forgets the one before.              *)
Started(action, e, n) ==
    /\ n.id = clicks + 1 /\ n.action = action /\ n.page = page /\ n.base = backend
    /\ n.hook = "current" /\ n.change = None

LEMMA PressFacts ==
    ASSUME ConsoleTypeOK, NEW action \in Actions, NEW e \in Endpoints \cup {None},
           Press(action, e)
    PROVE  \E n \in Mutation :
              /\ Started(action, e, n)
              /\ pending' \subseteq Mutation
              /\ \A x \in pending' :
                    \/ x = n
                    \/ x \in pending /\ x \notin Current(action)
                    \/ \E m \in Current(action) :
                          Same(m, x) /\ x.hook = "mounted" /\ x.change = m.change
<1> DEFINE n == [id |-> clicks + 1, action |-> action, endpoint |-> e,
                 page |-> page, base |-> backend, hook |-> "current",
                 keys |-> Invalidates(page, backend), change |-> None]
           F(m) == IF m \in Current(action) THEN [m EXCEPT !.hook = "mounted"] ELSE m
<1>1. pending' = {F(m) : m \in pending} \cup {n}
  BY DEF Press
<1>2. n \in Mutation
  <2>1. clicks + 1 \in Nat
    BY DEF ConsoleTypeOK
  <2> QED
    BY <2>1 DEF ConsoleTypeOK, Mutation
<1>3. Started(action, e, n)
  BY DEF Started
<1>4. ASSUME NEW m \in pending
      PROVE  /\ F(m) \in Mutation
             /\ \/ F(m) = m /\ m \notin Current(action)
                \/ /\ m \in Current(action)
                   /\ Same(m, F(m)) /\ F(m).hook = "mounted" /\ F(m).change = m.change
  <2>1. m \in Mutation
    BY DEF ConsoleTypeOK
  <2> QED
    BY <2>1, HookFacts
<1> HIDE DEF n, F
<1>5. pending' \subseteq Mutation
  BY <1>1, <1>2, <1>4
<1> QED
  BY <1>1, <1>2, <1>3, <1>4, <1>5

(* The backend carries an action out.                                       *)
LEMMA PerformFacts ==
    ASSUME ConsoleTypeOK, NEW m \in pending, Perform(m)
    PROVE  /\ m.change = None /\ m.base \in Backends /\ changes' \in [Backends -> Nat]
           /\ changes'[m.base] = changes[m.base] + 1
           /\ \A b \in Backends : b # m.base => changes'[b] = changes[b]
           /\ \E x \in Mutation :
                 /\ pending' = (pending \ {m}) \cup {x}
                 /\ Same(m, x) /\ x.hook = m.hook /\ x.change = changes'[m.base]
<1>1. /\ m.change = None /\ changes' = [changes EXCEPT ![m.base] = @ + 1]
      /\ pending' = (pending \ {m}) \cup {[m EXCEPT !.change = changes[m.base] + 1]}
  BY DEF Perform
<1>2. m \in Mutation /\ m.base \in Backends /\ changes \in [Backends -> Nat]
  BY MutationFields DEF ConsoleTypeOK
<1>3. /\ changes'[m.base] = changes[m.base] + 1 /\ changes' \in [Backends -> Nat]
      /\ \A b \in Backends : b # m.base => changes'[b] = changes[b]
  BY <1>1, <1>2
<1>4. changes[m.base] + 1 \in Nat
  BY <1>2
<1>5. PICK x \in Mutation :
        /\ x = [m EXCEPT !.change = changes[m.base] + 1]
        /\ Same(m, x) /\ x.hook = m.hook /\ x.change = changes[m.base] + 1
  BY <1>2, <1>4, ChangeFacts
<1> QED
  BY <1>1, <1>2, <1>3, <1>5

(* invalidateQueries, key by key.                                           *)
LEMMA InvalidateFacts ==
    ASSUME ConsoleTypeOK, NEW m \in pending, m.change # None, invalidate(m)
    PROVE  /\ cache' \in [Keys -> [data : Answer \cup {None}, invalid : BOOLEAN, error : BOOLEAN]]
           /\ request' \in [Keys -> Answer \cup {None}]
           /\ \A k \in Keys :
                 /\ cache'[k].data = cache[k].data /\ cache'[k].error = cache[k].error
                 /\ cache'[k].invalid = IF k \in Matches(m) THEN TRUE ELSE cache[k].invalid
                 /\ \/ request'[k] = request[k] /\ k \notin LetPass(m)
                    \/ /\ request'[k] # None
                       /\ request'[k].base = k[2] /\ request'[k].answer = None
                    \/ /\ k \in LetPass(m) /\ request[k] # None /\ request'[k] # None
                       /\ request'[k].base = request[k].base
                       /\ request'[k].answer = request[k].answer
                       /\ request'[k].missed = m.change
                 /\ k \in Matches(m) \cap OnScreen /\ cache[k].data # None =>
                       request'[k] # None /\ request'[k].answer = None
<1> DEFINE anew == Refetched(m)
<1>1. /\ cache' = [k \in Keys |-> IF k \in Matches(m)
                                  THEN [cache[k] EXCEPT !.invalid = TRUE] ELSE cache[k]]
      /\ request' = [k \in Keys |->
            IF k \in anew THEN createApiClient(apiKey, backend)
            ELSE IF k \in LetPass(m) THEN [request[k] EXCEPT !.missed = m.change]
            ELSE request[k]]
  BY DEF invalidate
<1>2. ASSUME NEW k \in Keys
      PROVE  /\ cache'[k] \in [data : Answer \cup {None}, invalid : BOOLEAN, error : BOOLEAN]
             /\ cache'[k].data = cache[k].data /\ cache'[k].error = cache[k].error
             /\ cache'[k].invalid = IF k \in Matches(m) THEN TRUE ELSE cache[k].invalid
  <2>1. cache[k] \in [data : Answer \cup {None}, invalid : BOOLEAN, error : BOOLEAN]
    BY DEF ConsoleTypeOK
  <2>2. cache'[k] = IF k \in Matches(m) THEN [cache[k] EXCEPT !.invalid = TRUE] ELSE cache[k]
    BY <1>1
  <2> QED
    BY <2>1, <2>2
<1>3. ASSUME NEW k \in Keys
      PROVE  /\ request'[k] \in Answer \cup {None}
             /\ \/ request'[k] = request[k] /\ k \notin LetPass(m)
                \/ /\ request'[k] # None
                   /\ request'[k].base = k[2] /\ request'[k].answer = None
                \/ /\ k \in LetPass(m) /\ request[k] # None /\ request'[k] # None
                   /\ request'[k].base = request[k].base
                   /\ request'[k].answer = request[k].answer
                   /\ request'[k].missed = m.change
             /\ k \in anew => request'[k] # None /\ request'[k].answer = None
  <2>1. CASE k \in anew
    <3>1. k \in OnScreen /\ request'[k] = createApiClient(apiKey, backend)
      BY <1>1, <2>1 DEF Refetched
    <3>2. backend = k[2] /\ apiKey \in Tenants /\ backend \in Backends
      BY <3>1, OnScreenFacts DEF ConsoleTypeOK
    <3> HIDE DEF anew
    <3> QED
      BY <3>1, <3>2, ClientFacts
  <2>2. CASE k \notin anew /\ k \in LetPass(m)
    <3>1. request[k] # None /\ m.change > written[k]
      BY <2>2 DEF LetPass, Promised
    <3>2. request'[k] = [request[k] EXCEPT !.missed = m.change]
      BY <1>1, <2>2
    <3>3. request[k] \in Answer /\ m.change \in Nat
      BY <3>1, MutationFields DEF ConsoleTypeOK, onSuccess
    <3>4. /\ request'[k] \in Answer /\ request'[k].base = request[k].base
          /\ request'[k].answer = request[k].answer /\ request'[k].missed = m.change
      BY <3>2, <3>3 DEF Answer
    <3> QED
      BY <2>2, <3>1, <3>4, NamesAssumption
  <2>3. CASE k \notin anew /\ k \notin LetPass(m)
    BY <1>1, <2>3 DEF ConsoleTypeOK
  <2> QED
    BY <2>1, <2>2, <2>3
<1>4. cache' \in [Keys -> [data : Answer \cup {None}, invalid : BOOLEAN, error : BOOLEAN]]
  <2>1. cache' = [k \in Keys |-> cache'[k]]
    BY <1>1
  <2> QED
    BY <1>2, <2>1
<1>5. request' \in [Keys -> Answer \cup {None}]
  <2>1. request' = [k \in Keys |-> request'[k]]
    BY <1>1
  <2> QED
    BY <1>3, <2>1
<1>6. \A k \in Matches(m) \cap OnScreen : cache[k].data # None => k \in anew
  BY DEF Refetched
<1> HIDE DEF anew
<1> QED
  BY <1>2, <1>3, <1>4, <1>5, <1>6

-----------------------------------------------------------------------------
(* Types.                                                                  *)

(* Every step keeps the types.                                              *)
LEMMA ConsoleTypeNext ==
    ASSUME ConsoleTypeOK, [Next]_vars PROVE ConsoleTypeOK'
<1>1. ASSUME NEW t \in Tenants, signIn(t) PROVE ConsoleTypeOK'
  <2>1. request' \in [Keys -> Answer \cup {None}]
    BY <1>1, MountFacts DEF ConsoleTypeOK, signIn, Sends
  <2> QED
    BY <1>1, <2>1 DEF ConsoleTypeOK, signIn, Click
<1>2. CASE signOut
  BY <1>2, UnmountFacts DEF ConsoleTypeOK, signOut, Click
<1>3. ASSUME NEW b \in Backends, setBackendId(b) PROVE ConsoleTypeOK'
  <2>1. request' \in [Keys -> Answer \cup {None}]
    BY <1>3, AppearFacts DEF ConsoleTypeOK, setBackendId, Sends
  <2>2. pending' \subseteq Mutation
    BY <1>3, RekeyedFacts DEF setBackendId, ConsoleTypeOK
  <2> QED
    BY <1>3, <2>1, <2>2 DEF ConsoleTypeOK, setBackendId, Click
<1>4. ASSUME NEW b \in Backends, Progress(b) PROVE ConsoleTypeOK'
  BY <1>4 DEF ConsoleTypeOK, Progress, Surprise
<1>5. ASSUME NEW p \in Pages, Navigate(p) PROVE ConsoleTypeOK'
  <2>1. request' \in [Keys -> Answer \cup {None}]
    BY <1>5, AppearFacts DEF ConsoleTypeOK, Navigate, Sends
  <2>2. pending' \subseteq Mutation /\ secret' \in {secret, None}
    BY <1>5, UnmountFacts, RekeyedFacts DEF Navigate, ConsoleTypeOK
  <2> QED
    BY <1>5, <2>1, <2>2 DEF ConsoleTypeOK, Navigate, Click
<1>6. ASSUME NEW k \in Keys, Poll(k) PROVE ConsoleTypeOK'
  <2>1. Sends
    <3>1. k[2] = backend /\ apiKey \in Tenants /\ {k} \in SUBSET Keys /\ backend \in Backends
      BY <1>6, OnScreenFacts DEF Poll, ConsoleTypeOK
    <3>2. request' = Fetching({k}, apiKey, backend) /\ \A q \in {k} : q[2] = backend
      BY <1>6, <3>1 DEF Poll
    <3> QED
      BY <3>1, <3>2, FetchFacts
  <2> QED
    BY <1>6, <2>1 DEF ConsoleTypeOK, Poll, Sends
<1>7. ASSUME NEW k \in Keys, Serve(k) PROVE ConsoleTypeOK'
  <2>1. request[k] \in Answer /\ changes[request[k].base] \in Nat
    BY <1>7, AnswerFields DEF ConsoleTypeOK, Serve
  <2>2. [request[k] EXCEPT !.answer = changes[request[k].base]] \in Answer
    BY <2>1 DEF Answer
  <2>3. request' \in [Keys -> Answer \cup {None}]
    BY <1>7, <2>2 DEF ConsoleTypeOK, Serve
  <2> QED
    BY <1>7, <2>3 DEF ConsoleTypeOK, Serve
<1>8. ASSUME NEW k \in Keys, Settle(k) PROVE ConsoleTypeOK'
  <2>1. cache' \in [Keys -> [data : Answer \cup {None}, invalid : BOOLEAN, error : BOOLEAN]]
    BY <1>8 DEF ConsoleTypeOK, Settle
  <2> QED
    BY <1>8, <2>1 DEF ConsoleTypeOK, Settle
<1>9. ASSUME NEW k \in Keys, Reject(k) PROVE ConsoleTypeOK'
  <2>1. cache' \in [Keys -> [data : Answer \cup {None}, invalid : BOOLEAN, error : BOOLEAN]]
    BY <1>9 DEF ConsoleTypeOK, Reject
  <2> QED
    BY <1>9, <2>1 DEF ConsoleTypeOK, Reject, Surprise
<1>10. ASSUME NEW a \in Actions, NEW e \in Endpoints \cup {None}, Press(a, e)
       PROVE  ConsoleTypeOK'
  <2>1. pending' \subseteq Mutation
    BY <1>10, PressFacts
  <2> QED
    BY <1>10, <2>1 DEF ConsoleTypeOK, Press, Click
<1>11. ASSUME NEW m \in pending, Perform(m) PROVE ConsoleTypeOK'
  <2>1. pending' \subseteq Mutation /\ changes' \in [Backends -> Nat]
    BY <1>11, PerformFacts DEF ConsoleTypeOK
  <2> QED
    BY <1>11, <2>1 DEF ConsoleTypeOK, Perform
<1>12. ASSUME NEW m \in pending, onSuccess(m) PROVE ConsoleTypeOK'
  <2>1. /\ cache' \in [Keys -> [data : Answer \cup {None}, invalid : BOOLEAN, error : BOOLEAN]]
        /\ request' \in [Keys -> Answer \cup {None}]
    BY <1>12, InvalidateFacts DEF onSuccess
  <2>2. m \in Mutation /\ m.id \in Nat /\ m.change \in Nat
    BY <1>12, MutationFields DEF ConsoleTypeOK, onSuccess
  <2>3. secret' \in Secret \cup {None}
    <3>1. [id |-> m.id, after |-> clicks] \in Secret
      BY <2>2 DEF ConsoleTypeOK, Secret
    <3> QED
      BY <1>12, <3>1 DEF ConsoleTypeOK, onSuccess
  <2>4. written' \in [Keys -> Nat]
    BY <1>12, <2>2 DEF ConsoleTypeOK, onSuccess
  <2> QED
    BY <1>12, <2>1, <2>3, <2>4 DEF ConsoleTypeOK, onSuccess
<1>13. ASSUME NEW m \in pending, onActionError(m) PROVE ConsoleTypeOK'
  BY <1>13 DEF ConsoleTypeOK, onActionError, Surprise
<1>14. CASE CloseSecret \/ UNCHANGED vars
  BY <1>14 DEF ConsoleTypeOK, CloseSecret, vars
<1> QED
  BY <1>1, <1>2, <1>3, <1>4, <1>5, <1>6, <1>7, <1>8, <1>9, <1>10, <1>11, <1>12, <1>13, <1>14
  DEF Next

-----------------------------------------------------------------------------
(* What a step does to the keys and to the mutations.                      *)

(* Steps that send requests, and the four others that a key can see.        *)
LEMMA KeyStep ==
    ASSUME ConsoleTypeOK, [Next]_vars
    PROVE  \/ Sends /\ UNCHANGED <<cache, written, changes>>
           \/ \E k \in Keys : Serve(k) \/ Settle(k) \/ Reject(k)
           \/ \E m \in pending : onSuccess(m)
           \/ UNCHANGED <<cache, request, written>>
<1> DEFINE Kept == UNCHANGED <<cache, request, written>>
           Sent == Sends /\ UNCHANGED <<cache, written, changes>>
<1>1. ASSUME NEW t \in Tenants, signIn(t) PROVE Sent
  BY <1>1, MountFacts DEF ConsoleTypeOK, signIn
<1>2. ASSUME NEW b \in Backends, setBackendId(b) PROVE Sent \/ Kept
  BY <1>2, AppearFacts DEF ConsoleTypeOK, setBackendId
<1>3. ASSUME NEW p \in Pages, Navigate(p) PROVE Sent \/ Kept
  BY <1>3, AppearFacts DEF ConsoleTypeOK, Navigate
<1>4. ASSUME NEW k \in Keys, Poll(k) PROVE Sent
  <2>1. k[2] = backend /\ apiKey \in Tenants /\ {k} \in SUBSET Keys /\ backend \in Backends
    BY <1>4, OnScreenFacts DEF Poll, ConsoleTypeOK
  <2>2. request' = Fetching({k}, apiKey, backend) /\ \A q \in {k} : q[2] = backend
    BY <1>4, <2>1 DEF Poll
  <2>3. Sends
    BY <2>1, <2>2, FetchFacts
  <2> QED
    BY <1>4, <2>3 DEF Poll
<1>5. ASSUME signOut \/ CloseSecret \/ UNCHANGED vars PROVE Kept
  BY <1>5 DEF signOut, CloseSecret, vars
<1>6. ASSUME NEW b \in Backends, Progress(b) PROVE Kept
  BY <1>6 DEF Progress
<1>7. ASSUME NEW a \in Actions, NEW e \in Endpoints \cup {None}, Press(a, e) PROVE Kept
  BY <1>7 DEF Press
<1>8. ASSUME NEW m \in pending, Perform(m) \/ onActionError(m) PROVE Kept
  BY <1>8 DEF Perform, onActionError
<1> HIDE DEF Kept, Sent
<1>9. \/ Sent \/ Kept
      \/ \E k \in Keys : Serve(k) \/ Settle(k) \/ Reject(k)
      \/ \E m \in pending : onSuccess(m)
  BY <1>1, <1>2, <1>3, <1>4, <1>5, <1>6, <1>7, <1>8 DEF Next
<1> QED
  BY <1>9 DEF Kept, Sent

(* The answer to a request, and what becomes of a key when it comes.        *)
LEMMA ServeFacts ==
    ASSUME ConsoleTypeOK, NEW k \in Keys, Serve(k)
    PROVE  /\ request[k] # None /\ request[k].base \in Backends
           /\ request'[k] # None /\ request'[k].base = request[k].base
           /\ request'[k].answer = changes[request[k].base]
           /\ \A q \in Keys : q # k => request'[q] = request[q]
           /\ UNCHANGED <<cache, written, changes, pending>>
<1>1. request[k] # None /\ request[k] \in Answer /\ request[k].base \in Backends
  BY AnswerFields DEF Serve, ConsoleTypeOK
<1>2. request' = [request EXCEPT ![k].answer = changes[request[k].base]]
  BY DEF Serve
<1>3. request'[k] = [request[k] EXCEPT !.answer = changes[request[k].base]]
  BY <1>2 DEF ConsoleTypeOK
<1>4. changes[request[k].base] \in Nat
  BY <1>1 DEF ConsoleTypeOK
<1>5. /\ request'[k] \in Answer /\ request'[k].base = request[k].base
      /\ request'[k].answer = changes[request[k].base]
  BY <1>1, <1>3, <1>4 DEF Answer
<1>6. \A q \in Keys : q # k => request'[q] = request[q]
  BY <1>2 DEF ConsoleTypeOK
<1> QED
  BY <1>1, <1>5, <1>6, NamesAssumption DEF Serve

LEMMA SettleFacts ==
    ASSUME ConsoleTypeOK, NEW k \in Keys, Settle(k)
    PROVE  /\ request[k] # None /\ request[k].answer # None
           /\ cache'[k].data = request[k] /\ cache'[k].invalid = FALSE
           /\ request'[k] = None
           /\ \A q \in Keys : q # k => request'[q] = request[q] /\ cache'[q] = cache[q]
           /\ UNCHANGED <<written, changes, pending>>
  BY DEF ConsoleTypeOK, Settle

LEMMA RejectFacts ==
    ASSUME ConsoleTypeOK, NEW k \in Keys, Reject(k)
    PROVE  /\ cache'[k].data = cache[k].data /\ request'[k] = None
           /\ cache'[k].invalid = TRUE /\ cache'[k].error = TRUE
           /\ \A q \in Keys : q # k => request'[q] = request[q] /\ cache'[q] = cache[q]
           /\ UNCHANGED <<written, changes, pending>>
<1>1. /\ cache' = [cache EXCEPT ![k].invalid = TRUE, ![k].error = TRUE]
      /\ request' = [request EXCEPT ![k] = None]
      /\ UNCHANGED <<written, changes, pending>>
  BY DEF Reject
<1>2. cache[k] \in [data : Answer \cup {None}, invalid : BOOLEAN, error : BOOLEAN]
  BY DEF ConsoleTypeOK
<1>3. /\ cache'[k].data = cache[k].data
      /\ cache'[k].invalid = TRUE /\ cache'[k].error = TRUE
  BY <1>1, <1>2 DEF ConsoleTypeOK
<1>4. \A q \in Keys : q # k => request'[q] = request[q] /\ cache'[q] = cache[q]
  BY <1>1 DEF ConsoleTypeOK
<1> QED
  BY <1>1, <1>3, <1>4 DEF ConsoleTypeOK

(* Which keys an action's success is shown for, and as what.                *)
LEMMA SuccessFacts ==
    ASSUME ConsoleTypeOK, NEW m \in pending, onSuccess(m)
    PROVE  /\ m.change \in Nat /\ m.change # None /\ m.base \in Backends
           /\ invalidate(m)
           /\ pending' \subseteq pending /\ m \notin pending'
           /\ UNCHANGED <<page, backend, changes, clicks>>
           /\ \A k \in Keys :
                 \/ written'[k] = written[k] /\ k \notin Promised(m)
                 \/ /\ k \in Promised(m) /\ k \in Matches(m) /\ m.base = k[2]
                    /\ written'[k] = m.change
<1>1. m.change \in Nat /\ m.change # None /\ m.base \in Backends
  BY MutationFields DEF ConsoleTypeOK, onSuccess
<1>2. \A k \in Keys :
         \/ written'[k] = written[k] /\ k \notin Promised(m)
         \/ /\ k \in Promised(m) /\ k \in Matches(m) /\ m.base = k[2]
            /\ written'[k] = m.change
  BY DEF onSuccess, Promised
<1> QED
  BY <1>1, <1>2 DEF onSuccess

(* What a backend has seen it has seen.                                     *)
LEMMA ChangesGrow ==
    ASSUME ConsoleTypeOK, [Next]_vars
    PROVE  \A b \in Backends : changes'[b] >= changes[b]
<1>1. ASSUME NEW b \in Backends, Progress(b)
      PROVE  \A c \in Backends : changes'[c] >= changes[c]
  BY <1>1 DEF ConsoleTypeOK, Progress
<1>2. ASSUME NEW m \in pending, Perform(m)
      PROVE  \A c \in Backends : changes'[c] >= changes[c]
  <2>1. /\ m.base \in Backends /\ changes'[m.base] = changes[m.base] + 1
        /\ \A b \in Backends : b # m.base => changes'[b] = changes[b]
    BY <1>2, PerformFacts
  <2> QED
    BY <2>1 DEF ConsoleTypeOK
<1>3. CASE UNCHANGED changes
  BY <1>3 DEF ConsoleTypeOK
<1>4. \/ UNCHANGED changes
      \/ \E b \in Backends : Progress(b)
      \/ \E m \in pending : Perform(m)
  <2>1. ASSUME NEW t \in Tenants, signIn(t) PROVE UNCHANGED changes
    BY <2>1 DEF signIn
  <2>2. ASSUME NEW b \in Backends, setBackendId(b) PROVE UNCHANGED changes
    BY <2>2 DEF setBackendId
  <2>3. ASSUME NEW p \in Pages, Navigate(p) PROVE UNCHANGED changes
    BY <2>3 DEF Navigate
  <2>4. ASSUME NEW k \in Keys, Poll(k) \/ Serve(k) \/ Settle(k) \/ Reject(k)
        PROVE  UNCHANGED changes
    BY <2>4 DEF Poll, Serve, Settle, Reject
  <2>5. ASSUME NEW a \in Actions, NEW e \in Endpoints \cup {None}, Press(a, e)
        PROVE  UNCHANGED changes
    BY <2>5 DEF Press
  <2>6. ASSUME NEW m \in pending, onSuccess(m) \/ onActionError(m) PROVE UNCHANGED changes
    BY <2>6 DEF onSuccess, onActionError
  <2>7. ASSUME signOut \/ CloseSecret \/ UNCHANGED vars PROVE UNCHANGED changes
    BY <2>7 DEF signOut, CloseSecret, vars
  <2> QED
    BY <2>1, <2>2, <2>3, <2>4, <2>5, <2>6, <2>7 DEF Next
<1> QED
  BY <1>1, <1>2, <1>3, <1>4

(* A mutation keeps its outcome, or gets the latest, or has just started.   *)
LEMMA OutcomeStep ==
    ASSUME ConsoleTypeOK, [Next]_vars, NEW x \in pending'
    PROVE  \/ \E m \in pending : x.change = m.change /\ x.base = m.base
           \/ x.change = changes'[x.base]
           \/ x.change = None
<1> DEFINE Goal == \/ \E m \in pending : x.change = m.change /\ x.base = m.base
                   \/ x.change = changes'[x.base]
                   \/ x.change = None
<1>1. CASE x \in pending
  BY <1>1
<1>2. ASSUME NEW t \in Tenants, signIn(t) PROVE x \in pending
  BY <1>2 DEF signIn
<1>3. ASSUME Unmount PROVE Goal
  BY <1>3, UnmountFacts DEF Same
<1>4. ASSUME NEW p \in Pages, NEW b \in Backends, Rerender(p, b) PROVE Goal
  BY <1>4, RekeyedFacts DEF Same
<1>5. ASSUME NEW b \in Backends, Progress(b) PROVE x \in pending
  BY <1>5 DEF Progress
<1>6. ASSUME NEW k \in Keys, Poll(k) \/ Serve(k) \/ Settle(k) \/ Reject(k)
      PROVE  x \in pending
  BY <1>6 DEF Poll, Serve, Settle, Reject
<1>7. ASSUME NEW a \in Actions, NEW e \in Endpoints \cup {None}, Press(a, e) PROVE Goal
  BY <1>7, PressFacts DEF Same, Started, Current
<1>8. ASSUME NEW m \in pending, Perform(m) PROVE Goal
  BY <1>8, PerformFacts DEF Same
<1>9. ASSUME NEW m \in pending, onSuccess(m) \/ onActionError(m) PROVE x \in pending
  BY <1>9 DEF onSuccess, onActionError
<1>10. ASSUME CloseSecret \/ UNCHANGED vars PROVE x \in pending
  BY <1>10 DEF CloseSecret, vars
<1> HIDE DEF Goal
<1>11. ASSUME signOut \/ (\E b \in Backends : setBackendId(b)) \/ \E p \in Pages : Navigate(p)
       PROVE  Goal
  BY <1>3, <1>4, <1>11 DEF signOut, setBackendId, Navigate, ConsoleTypeOK
<1>12. Goal \/ x \in pending
  BY <1>2, <1>5, <1>6, <1>7, <1>8, <1>9, <1>10, <1>11 DEF Next
<1> QED
  BY <1>1, <1>12 DEF Goal

-----------------------------------------------------------------------------
(* The parts of the invariant, one by one.                                 *)

(* Requests go to the backend their key names, and data comes from them.    *)
LEMMA KeyedNext ==
    ASSUME ConsoleInvariant, [Next]_vars PROVE KeyedByBackend'
<1>0. ConsoleTypeOK /\ KeyedByBackend
  BY DEF ConsoleInvariant
<1>1. CASE Sends /\ UNCHANGED <<cache, written, changes>>
  BY <1>0, <1>1 DEF KeyedByBackend, Sends
<1>2. ASSUME NEW k \in Keys, Serve(k) PROVE KeyedByBackend'
  <2>1. request[k] # None /\ request'[k].base = request[k].base
    BY <1>0, <1>2, ServeFacts
  <2>2. (\A q \in Keys : q # k => request'[q] = request[q]) /\ UNCHANGED cache
    BY <1>0, <1>2, ServeFacts
  <2> QED
    BY <1>0, <2>1, <2>2 DEF KeyedByBackend
<1>3. ASSUME NEW k \in Keys, Settle(k) PROVE KeyedByBackend'
  <2>1. request[k] # None /\ cache'[k].data = request[k] /\ request'[k] = None
    BY <1>0, <1>3, SettleFacts
  <2>2. \A q \in Keys : q # k => request'[q] = request[q] /\ cache'[q] = cache[q]
    BY <1>0, <1>3, SettleFacts
  <2> QED
    BY <1>0, <2>1, <2>2 DEF KeyedByBackend
<1>4. ASSUME NEW k \in Keys, Reject(k) PROVE KeyedByBackend'
  <2>1. cache'[k].data = cache[k].data /\ request'[k] = None
    BY <1>0, <1>4, RejectFacts
  <2>2. \A q \in Keys : q # k => request'[q] = request[q] /\ cache'[q] = cache[q]
    BY <1>0, <1>4, RejectFacts
  <2> QED
    BY <1>0, <2>1, <2>2 DEF KeyedByBackend
<1>5. ASSUME NEW m \in pending, onSuccess(m) PROVE KeyedByBackend'
  <2>1. \A k \in Keys : /\ cache'[k].data = cache[k].data
                        /\ \/ request'[k] = request[k]
                           \/ request'[k].base = k[2]
                           \/ request[k] # None /\ request'[k].base = request[k].base
    BY <1>0, <1>5, SuccessFacts, InvalidateFacts
  <2> QED
    BY <1>0, <2>1 DEF KeyedByBackend
<1>6. CASE UNCHANGED <<cache, request, written>>
  BY <1>0, <1>6 DEF KeyedByBackend
<1> QED
  BY <1>0, <1>1, <1>2, <1>3, <1>4, <1>5, <1>6, KeyStep

(* A request answered after an action was said to have succeeded was sent   *)
(* or served after it, or let pass.                                         *)
LEMMA AnswersNext ==
    ASSUME ConsoleInvariant, [Next]_vars PROVE AnswersBringWrites'
<1>0. /\ ConsoleTypeOK /\ KeyedByBackend /\ AnswersBringWrites
      /\ ConsoleTypeOK'
  BY ConsoleTypeNext DEF ConsoleInvariant
<1>1. ASSUME NEW x \in pending', x.change # None PROVE x.change <= changes'[x.base]
  <2>1. x.base \in Backends /\ x.change \in Nat /\ changes'[x.base] \in Nat
    BY <1>0, <1>1, MutationFields DEF ConsoleTypeOK
  <2>2. CASE \E m \in pending : x.change = m.change /\ x.base = m.base
    <3>1. x.change <= changes[x.base] /\ changes[x.base] \in Nat
      BY <1>0, <1>1, <2>1, <2>2 DEF AnswersBringWrites, ConsoleTypeOK
    <3> QED
      BY <1>0, <2>1, <3>1, ChangesGrow
  <2> QED
    BY <1>0, <1>1, <2>1, <2>2, OutcomeStep
<1> DEFINE Key(k) ==
      /\ written[k] <= changes[k[2]]
      /\ request[k] # None /\ request[k].answer # None => Brings(request[k], written[k])
<1> SUFFICES ASSUME NEW k \in Keys
             PROVE  /\ written'[k] <= changes'[k[2]]
                    /\ request'[k] # None /\ request'[k].answer # None =>
                          Brings(request'[k], written'[k])
  BY <1>1 DEF AnswersBringWrites
<1>2. Key(k)
  BY <1>0 DEF AnswersBringWrites
<1>3. /\ k[2] \in Backends
      /\ written[k] \in Nat /\ changes[k[2]] \in Nat /\ changes'[k[2]] \in Nat
      /\ changes'[k[2]] >= changes[k[2]]
  <2>1. k[2] \in Backends
    BY QueriesFacts DEF Keys
  <2> QED
    BY <1>0, <2>1, ChangesGrow DEF ConsoleTypeOK
<1>4. ASSUME written'[k] = written[k] PROVE written'[k] <= changes'[k[2]]
  BY <1>2, <1>3, <1>4
<1>5. CASE Sends /\ UNCHANGED <<cache, written, changes>>
  BY <1>2, <1>4, <1>5 DEF Sends
<1>6. CASE \E q \in Keys : Serve(q)
  <2>1. PICK q \in Keys : Serve(q)
    BY <1>6
  <2>2. UNCHANGED <<cache, written, changes>>
    BY <1>0, <2>1, ServeFacts
  <2>3. CASE q = k
    <3>1. request'[k].answer = changes[k[2]]
      BY <1>0, <2>1, <2>3, ServeFacts DEF KeyedByBackend
    <3> QED
      BY <1>2, <1>3, <2>2, <3>1 DEF Brings
  <2>4. CASE q # k
    <3>1. request'[k] = request[k]
      BY <1>0, <2>1, <2>4, ServeFacts
    <3> QED
      BY <1>2, <1>4, <2>2, <3>1
  <2> QED
    BY <2>3, <2>4
<1>7. CASE \E q \in Keys : Settle(q)
  <2>1. PICK q \in Keys : Settle(q)
    BY <1>7
  <2>2. UNCHANGED <<written, changes>>
    BY <1>0, <2>1, SettleFacts
  <2>3. request'[k] = request[k] \/ request'[k] = None
    BY <1>0, <2>1, SettleFacts
  <2> QED
    BY <1>2, <1>4, <2>2, <2>3
<1>8. CASE \E q \in Keys : Reject(q)
  <2>1. PICK q \in Keys : Reject(q)
    BY <1>8
  <2>2. UNCHANGED <<written, changes>>
    BY <1>0, <2>1, RejectFacts
  <2>3. request'[k] = request[k] \/ request'[k] = None
    BY <1>0, <2>1, RejectFacts
  <2> QED
    BY <1>2, <1>4, <2>2, <2>3
<1>9. CASE \E m \in pending : onSuccess(m)
  <2>1. PICK m \in pending : onSuccess(m)
    BY <1>9
  <2>2. m.change <= changes[m.base] /\ changes' = changes
    BY <1>0, <2>1, SuccessFacts DEF AnswersBringWrites
  <2>3. /\ \/ request'[k] = request[k] /\ k \notin LetPass(m)
           \/ request'[k].answer = None
           \/ k \in LetPass(m) /\ request'[k].missed = m.change
        /\ k \in Matches(m) \cap OnScreen /\ cache[k].data # None => request'[k].answer = None
    BY <1>0, <2>1, SuccessFacts, InvalidateFacts
  <2>4. \/ written'[k] = written[k] /\ k \notin Promised(m)
        \/ k \in Promised(m) /\ k \in Matches(m) /\ m.base = k[2] /\ written'[k] = m.change
    BY <1>0, <2>1, SuccessFacts
  <2>5. written'[k] <= changes'[k[2]]
    BY <1>4, <2>2, <2>4
  <2>6. ASSUME request'[k] # None, request'[k].answer # None
        PROVE  Brings(request'[k], written'[k])
    <3>1. CASE k \in LetPass(m) /\ request'[k].missed = m.change
      BY <2>4, <3>1 DEF LetPass, Brings
    <3>2. CASE request'[k] = request[k] /\ k \notin Promised(m)
      BY <1>2, <2>4, <2>6, <3>2
    <3>3. CASE request'[k] = request[k] /\ k \notin LetPass(m) /\ k \in Promised(m)
      <4>1. request[k].answer \in Nat /\ m.change \in Nat
        BY <1>0, <2>1, <2>6, <3>3, AnswerFields, SuccessFacts DEF ConsoleTypeOK
      <4>2. ~(request[k].answer < m.change)
        BY <2>3, <2>4, <2>6, <3>3 DEF LetPass
      <4> QED
        BY <2>4, <3>3, <4>1, <4>2 DEF Brings
    <3> QED
      BY <2>3, <2>6, <3>1, <3>2, <3>3
  <2> QED
    BY <2>5, <2>6
<1>10. CASE UNCHANGED <<cache, request, written>>
  BY <1>2, <1>4, <1>10
<1> QED
  BY <1>0, <1>5, <1>6, <1>7, <1>8, <1>9, <1>10, KeyStep

(* An answer that brings what was told is stored as fresh; what was told    *)
(* since marks the data as old.                                             *)
LEMMA WritesNext ==
    ASSUME ConsoleInvariant, [Next]_vars PROVE WritesRead'
<1>0. ConsoleTypeOK /\ AnswersBringWrites /\ WritesRead
  BY DEF ConsoleInvariant
<1> SUFFICES ASSUME NEW k \in Keys, cache'[k].data # None
             PROVE  Brings(cache'[k].data, written'[k]) \/ cache'[k].invalid
  BY DEF WritesRead
<1>1. ASSUME cache'[k] = cache[k], written'[k] = written[k]
      PROVE  Brings(cache'[k].data, written'[k]) \/ cache'[k].invalid
  BY <1>0, <1>1 DEF WritesRead
<1>2. ASSUME NEW q \in Keys, Serve(q) PROVE UNCHANGED <<cache, written>>
  BY <1>2 DEF Serve
<1>3. ASSUME NEW q \in Keys, Settle(q)
      PROVE  Brings(cache'[k].data, written'[k]) \/ cache'[k].invalid
  <2>1. CASE q = k
    <3>1. /\ request[k] # None /\ request[k].answer # None
          /\ cache'[k].data = request[k] /\ UNCHANGED written
      BY <1>0, <1>3, <2>1, SettleFacts
    <3> QED
      BY <1>0, <3>1 DEF AnswersBringWrites
  <2>2. CASE q # k
    BY <1>0, <1>1, <1>3, <2>2, SettleFacts
  <2> QED
    BY <2>1, <2>2
<1>4. ASSUME NEW q \in Keys, Reject(q)
      PROVE  Brings(cache'[k].data, written'[k]) \/ cache'[k].invalid
  BY <1>0, <1>1, <1>4, RejectFacts
<1>5. ASSUME NEW m \in pending, onSuccess(m)
      PROVE  Brings(cache'[k].data, written'[k]) \/ cache'[k].invalid
  <2>1. /\ cache'[k].data = cache[k].data
        /\ cache'[k].invalid = IF k \in Matches(m) THEN TRUE ELSE cache[k].invalid
    BY <1>0, <1>5, SuccessFacts, InvalidateFacts
  <2>2. k \notin Matches(m) => written'[k] = written[k]
    BY <1>0, <1>5, SuccessFacts
  <2> QED
    BY <1>0, <2>1, <2>2 DEF WritesRead
<1> QED
  BY <1>0, <1>1, <1>2, <1>3, <1>4, <1>5, KeyStep

(* invalidateQueries, and a page that appears, fetch what is marked as old; *)
(* a fetch that fails says so.                                              *)
LEMMA FetchedNext ==
    ASSUME ConsoleInvariant, [Next]_vars PROVE InvalidIsFetched'
<1>0. ConsoleTypeOK /\ InvalidIsFetched
  BY DEF ConsoleInvariant
<1>1. ASSUME NEW t \in Tenants, signIn(t) PROVE InvalidIsFetched'
  <2>1. \A k \in Queries(page, backend) : cache[k].invalid => request'[k] # None
    BY <1>0, <1>1, MountFacts DEF signIn, ConsoleTypeOK
  <2>2. UNCHANGED cache /\ OnScreen' = Queries(page, backend)
    BY <1>1, NamesAssumption DEF signIn, OnScreen
  <2> QED
    BY <2>1, <2>2 DEF InvalidIsFetched, Attended
<1>2. CASE signOut
  <2>1. OnScreen' = {}
    BY <1>2 DEF signOut, OnScreen
  <2> QED
    BY <2>1 DEF InvalidIsFetched
<1>3. ASSUME NEW b \in Backends, NEW p \in Pages, Appear(b, p), UNCHANGED <<apiKey, cache>>,
             backend' = b, page' = p
      PROVE  InvalidIsFetched'
  <2>1. OnScreen' = IF apiKey = None THEN {} ELSE Queries(p, b)
    BY <1>3 DEF OnScreen
  <2>2. apiKey # None => \A k \in Queries(p, b) : cache[k].invalid => request'[k] # None
    BY <1>0, <1>3, AppearFacts
  <2> QED
    BY <1>3, <2>1, <2>2 DEF InvalidIsFetched, Attended
<1>4. ASSUME (\E b \in Backends : setBackendId(b)) \/ \E p \in Pages : Navigate(p)
      PROVE  InvalidIsFetched'
  BY <1>0, <1>3, <1>4 DEF setBackendId, Navigate, ConsoleTypeOK
<1>5. ASSUME UNCHANGED <<apiKey, page, backend>> PROVE InvalidIsFetched'
  <2>1. OnScreen' = OnScreen /\ OnScreen \subseteq Keys
    BY <1>0, <1>5, OnScreenFacts DEF OnScreen
  <2> SUFFICES ASSUME NEW k \in OnScreen PROVE Attended(k)'
    BY <2>1 DEF InvalidIsFetched
  <2>2. k \in Keys /\ Attended(k)
    BY <1>0, <2>1 DEF InvalidIsFetched
  <2>3. CASE cache'[k] = cache[k] /\ (request[k] # None => request'[k] # None)
    BY <2>2, <2>3 DEF Attended
  <2>4. CASE Sends /\ UNCHANGED <<cache, written, changes>>
    BY <2>2, <2>3, <2>4 DEF Sends
  <2>5. ASSUME NEW q \in Keys, Serve(q) PROVE Attended(k)'
    BY <1>0, <2>2, <2>3, <2>5, ServeFacts
  <2>6. ASSUME NEW q \in Keys, Settle(q) PROVE Attended(k)'
    <3>1. CASE q = k
      <4>1. cache'[k].invalid = FALSE
        BY <1>0, <2>6, <3>1, SettleFacts
      <4> QED
        BY <4>1 DEF Attended
    <3>2. CASE q # k
      BY <1>0, <2>2, <2>3, <2>6, <3>2, SettleFacts
    <3> QED
      BY <3>1, <3>2
  <2>7. ASSUME NEW q \in Keys, Reject(q) PROVE Attended(k)'
    <3>1. CASE q = k
      <4>1. cache'[k].error = TRUE
        BY <1>0, <2>7, <3>1, RejectFacts
      <4> QED
        BY <4>1 DEF Attended
    <3>2. CASE q # k
      BY <1>0, <2>2, <2>3, <2>7, <3>2, RejectFacts
    <3> QED
      BY <3>1, <3>2
  <2>8. ASSUME NEW m \in pending, onSuccess(m) PROVE Attended(k)'
    <3>1. /\ cache'[k].data = cache[k].data /\ cache'[k].error = cache[k].error
          /\ cache'[k].invalid = IF k \in Matches(m) THEN TRUE ELSE cache[k].invalid
          /\ request'[k] = request[k] \/ request'[k] # None
          /\ k \in Matches(m) /\ cache[k].data # None => request'[k] # None
      BY <1>0, <2>2, <2>8, SuccessFacts, InvalidateFacts
    <3> QED
      BY <2>2, <3>1 DEF Attended
  <2> QED
    BY <1>0, <2>2, <2>3, <2>4, <2>5, <2>6, <2>7, <2>8, KeyStep
<1>6. ASSUME NEW k \in Keys, Poll(k) \/ Serve(k) \/ Settle(k) \/ Reject(k)
      PROVE  UNCHANGED <<apiKey, page, backend>>
  BY <1>6 DEF Poll, Serve, Settle, Reject
<1>7. ASSUME NEW a \in Actions, NEW e \in Endpoints \cup {None}, Press(a, e)
      PROVE  UNCHANGED <<apiKey, page, backend>>
  BY <1>7 DEF Press
<1>8. ASSUME NEW m \in pending, Perform(m) \/ onSuccess(m) \/ onActionError(m)
      PROVE  UNCHANGED <<apiKey, page, backend>>
  BY <1>8 DEF Perform, onSuccess, onActionError
<1>9. ASSUME CloseSecret \/ (\E b \in Backends : Progress(b)) \/ UNCHANGED vars
      PROVE  UNCHANGED <<apiKey, page, backend>>
  BY <1>9 DEF CloseSecret, Progress, vars
<1> QED
  BY <1>1, <1>2, <1>4, <1>5, <1>6, <1>7, <1>8, <1>9 DEF Next

(* A page that appears finds no mutation of its own.                        *)
LEMMA NobodyWatches ==
    ASSUME ConsoleInvariant, Unmount
    PROVE  OneAtATime' /\ SecretIsLast'
<1>1. ConsoleTypeOK /\ OneAtATime
  BY DEF ConsoleInvariant
<1>2. /\ secret' = None
      /\ \A x \in pending' : \E m \in pending : Same(m, x) /\ x.hook = "gone"
  BY <1>1, UnmountFacts
<1>3. \A x \in pending' : ~Watched(x) /\ ~Guarded(x)
  BY <1>2 DEF Watched, Guarded
<1>4. \A x \in pending' : x.action = "register" => x.page = "endpoints"
  BY <1>1, <1>2 DEF OneAtATime, Same
<1> QED
  BY <1>2, <1>3, <1>4 DEF OneAtATime, SecretIsLast

(* Fewer mutations, on the page they were on.                               *)
LEMMA FewerWatch ==
    ASSUME ConsoleInvariant, pending' \subseteq pending, UNCHANGED page,
           secret' = None \/ UNCHANGED <<secret, clicks>>
    PROVE  OneAtATime' /\ SecretIsLast'
<1>1. OneAtATime /\ SecretIsLast
  BY DEF ConsoleInvariant
<1>2. OneAtATime'
  BY <1>1 DEF OneAtATime
<1>3. SecretIsLast'
  BY <1>1 DEF SecretIsLast
<1> QED
  BY <1>2, <1>3

(* What is pressed on an endpoint's page.                                   *)
LEMMA PressableFacts ==
    ASSUME NEW action \in Actions, NEW e \in Endpoints \cup {None}, Press(action, e),
           ConsoleTypeOK
    PROVE  /\ action = "register" => page = "endpoints"
           /\ action \in {"pause", "resume", "rotate"} /\ page \in Endpoints =>
                 \A m \in pending : Guarded(m) => m.hook # "current"
<1>1. Pressable(action, e)
  BY DEF Press
<1>2. action = "register" => page = "endpoints"
  BY <1>1 DEF Pressable, RegisterForm
<1>3. ASSUME action \in {"pause", "resume", "rotate"}, page \in Endpoints
      PROVE  \A m \in pending : Guarded(m) => m.hook # "current"
  <2>1. EndpointRow(e) \/ EndpointDetail(e)
    BY <1>1, <1>3 DEF Pressable
  <2>2. page # "endpoints"
    BY <1>3, NamesAssumption
  <2>3. ~DetailBusy
    BY <2>1, <2>2 DEF EndpointRow, EndpointDetail
  <2> QED
    BY <2>3 DEF DetailBusy, Current, Guarded
<1> QED
  BY <1>2, <1>3

(* busy keeps an endpoint's page to one pause, resume or rotate, and so     *)
(* nothing late can reveal a secret over the one displayed.                 *)
LEMMA WatchedNext ==
    ASSUME ConsoleInvariant, [Next]_vars PROVE OneAtATime' /\ SecretIsLast'
<1>0. ConsoleTypeOK /\ OneAtATime /\ SecretIsLast
  BY DEF ConsoleInvariant
<1>1. ASSUME NEW t \in Tenants, signIn(t) PROVE OneAtATime' /\ SecretIsLast'
  <2>1. UNCHANGED <<pending, page, secret>> /\ clicks' = clicks + 1
    BY <1>1 DEF signIn, Click
  <2>2. OneAtATime'
    BY <1>0, <2>1 DEF OneAtATime
  <2>3. secret # None => secret.after <= clicks + 1
    BY <1>0 DEF SecretIsLast, ConsoleTypeOK, Secret
  <2> QED
    BY <1>0, <2>1, <2>2, <2>3 DEF SecretIsLast
<1>2. ASSUME Unmount PROVE OneAtATime' /\ SecretIsLast'
  BY <1>2, NobodyWatches
<1>3. ASSUME NEW p \in Pages, NEW b \in Backends, Rerender(p, b),
             page' = p, p = page \/ {page, p} \subseteq Endpoints,
             UNCHANGED secret, clicks' = clicks + 1
      PROVE  OneAtATime' /\ SecretIsLast'
  <2> DEFINE x(m) == Rekeyed(p, b, m)
  <2>2. /\ pending' = {x(m) : m \in pending}
        /\ \A m \in pending : Same(m, x(m)) /\ x(m).hook = m.hook
    BY <1>0, <1>3, RekeyedFacts
  <2> HIDE DEF x
  <2>3. \A m \in pending : /\ Watched(x(m)) <=> Watched(m)
                           /\ Guarded(x(m)) <=> Guarded(m)
    BY <2>2 DEF Watched, Guarded, Same
  <2>4. \A m \in pending' : /\ Watched(m) => m.page = p \/ {m.page, p} \subseteq Endpoints
                            /\ m.action = "register" => m.page = "endpoints"
    BY <1>0, <1>3, <2>2, <2>3 DEF OneAtATime, Same
  <2>5. page \in Endpoints <=> p \in Endpoints
    BY <1>3
  <2>6. p \in Endpoints =>
           /\ \A m \in pending' : Guarded(m) => m.hook = "current"
           /\ \A m, n \in pending' : Guarded(m) /\ Guarded(n) => m = n
    BY <1>0, <2>2, <2>3, <2>5 DEF OneAtATime
  <2>7. OneAtATime'
    BY <1>3, <2>4, <2>6 DEF OneAtATime
  <2>8. secret # None => secret.after <= clicks + 1
    BY <1>0 DEF SecretIsLast, ConsoleTypeOK, Secret
  <2>9. p \in Endpoints /\ secret # None =>
           \A m \in pending' : Watched(m) /\ m.action \in {"rotate", "register"} =>
               m.id > secret.after
    BY <1>0, <2>2, <2>3, <2>5 DEF SecretIsLast, Same
  <2> QED
    BY <1>3, <2>7, <2>8, <2>9 DEF SecretIsLast
<1>12. ASSUME signOut \/ (\E b \in Backends : setBackendId(b)) \/ \E p \in Pages : Navigate(p)
       PROVE  OneAtATime' /\ SecretIsLast'
  BY <1>0, <1>2, <1>3, <1>12 DEF signOut, setBackendId, Navigate, Click, ConsoleTypeOK
<1>4. ASSUME NEW b \in Backends, Progress(b)
      PROVE  UNCHANGED <<pending, page, secret, clicks>>
  BY <1>4 DEF Progress
<1>5. ASSUME NEW k \in Keys, Poll(k) \/ Serve(k) \/ Settle(k) \/ Reject(k)
      PROVE  UNCHANGED <<pending, page, secret, clicks>>
  BY <1>5 DEF Poll, Serve, Settle, Reject
<1>6. ASSUME NEW a \in Actions, NEW e \in Endpoints \cup {None}, Press(a, e)
      PROVE  OneAtATime' /\ SecretIsLast'
  <2>1. PICK n \in Mutation :
          /\ Started(a, e, n)
          /\ \A x \in pending' :
                \/ x = n
                \/ x \in pending /\ x \notin Current(a)
                \/ \E m \in Current(a) : Same(m, x) /\ x.hook = "mounted"
    BY <1>0, <1>6, PressFacts
  <2>2. UNCHANGED <<page, secret>> /\ clicks' = clicks + 1
    BY <1>6 DEF Press, Click
  <2>3. \A m \in Current(a) : m \in pending /\ m.action = a /\ Watched(m)
    BY DEF Current, Watched
  <2>4. \A x \in pending' : Watched(x) => x.page = page' \/ {x.page, page'} \subseteq Endpoints
    BY <1>0, <2>1, <2>2, <2>3 DEF OneAtATime, Same, Started
  <2>5. \A x \in pending' : x.action = "register" => x.page = "endpoints"
    BY <1>0, <1>6, <2>1, <2>3, PressableFacts DEF OneAtATime, Same, Started
  <2>6. ASSUME page \in Endpoints
        PROVE  /\ \A x \in pending' : Guarded(x) => x.hook = "current"
               /\ \A x, y \in pending' : Guarded(x) /\ Guarded(y) => x = y
    <3>1. CASE a \in {"pause", "resume", "rotate"}
      <4>1. \A m \in pending : ~Guarded(m)
        BY <1>0, <1>6, <2>6, <3>1, PressableFacts DEF OneAtATime
      <4>2. \A m \in Current(a) : Guarded(m)
        BY <2>3, <3>1 DEF Guarded
      <4>3. \A x \in pending' : Guarded(x) => x = n
        BY <2>1, <2>3, <4>1, <4>2
      <4> QED
        BY <2>1, <4>3 DEF Started
    <3>2. CASE a \notin {"pause", "resume", "rotate"}
      <4>1. \A x \in pending' : Guarded(x) => x \in pending
        BY <2>1, <2>3, <3>2 DEF Guarded, Same, Started
      <4> QED
        BY <1>0, <2>6, <4>1 DEF OneAtATime
    <3> QED
      BY <3>1, <3>2
  <2>7. OneAtATime'
    BY <2>2, <2>4, <2>5, <2>6 DEF OneAtATime
  <2>8. secret # None => secret.after \in Nat /\ secret.after <= clicks /\ clicks \in Nat
    BY <1>0 DEF SecretIsLast, ConsoleTypeOK, Secret
  <2>9. ASSUME page \in Endpoints, secret # None,
               NEW x \in pending', Watched(x), x.action \in {"rotate", "register"}
        PROVE  x.id > secret.after
    <3>1. CASE x = n
      <4>1. x.id = clicks + 1
        BY <2>1, <3>1 DEF Started
      <4> QED
        BY <2>8, <2>9, <4>1
    <3>2. CASE x \in pending
      BY <1>0, <2>9, <3>2 DEF SecretIsLast
    <3>3. CASE \E m \in Current(a) : Same(m, x)
      BY <1>0, <2>3, <2>9, <3>3 DEF SecretIsLast, Same
    <3> QED
      BY <2>1, <3>1, <3>2, <3>3
  <2> QED
    BY <2>2, <2>7, <2>8, <2>9 DEF SecretIsLast
<1>7. ASSUME NEW m \in pending, Perform(m) PROVE OneAtATime' /\ SecretIsLast'
  <2>1. PICK x \in Mutation :
          pending' = (pending \ {m}) \cup {x} /\ Same(m, x) /\ x.hook = m.hook
    BY <1>0, <1>7, PerformFacts
  <2>2. UNCHANGED <<page, secret, clicks>>
    BY <1>7 DEF Perform
  <2>3. (Watched(x) <=> Watched(m)) /\ (Guarded(x) <=> Guarded(m))
    BY <2>1 DEF Watched, Guarded, Same
  <2>4. OneAtATime'
    BY <1>0, <2>1, <2>2, <2>3 DEF OneAtATime, Same
  <2>5. SecretIsLast'
    BY <1>0, <2>1, <2>2, <2>3 DEF SecretIsLast, Same
  <2> QED
    BY <2>4, <2>5
<1>8. ASSUME NEW m \in pending, onSuccess(m) PROVE OneAtATime' /\ SecretIsLast'
  <2>1. pending' \subseteq pending /\ m \notin pending' /\ UNCHANGED <<page, clicks>>
    BY <1>0, <1>8, SuccessFacts
  <2>2. secret' = IF m.action \in {"rotate", "register"} /\ m.hook # "gone"
                  THEN [id |-> m.id, after |-> clicks] ELSE secret
    BY <1>8 DEF onSuccess
  <2>3. CASE m.action \in {"rotate", "register"} /\ m.hook # "gone"
    <3>1. secret'.after = clicks /\ clicks \in Nat
      BY <1>0, <2>2, <2>3 DEF ConsoleTypeOK
    <3>2. OneAtATime'
      BY <1>0, <2>1 DEF OneAtATime
    <3>3. ASSUME page \in Endpoints, NEW x \in pending', Watched(x),
                 x.action \in {"rotate", "register"}
          PROVE  FALSE
      <4>1. \A y \in pending : Watched(y) => y.action # "register"
        BY <1>0, <3>3, NamesAssumption DEF OneAtATime
      <4>2. x \in pending /\ Guarded(x) /\ Guarded(m)
        BY <2>1, <2>3, <3>3, <4>1 DEF Guarded, Watched
      <4> QED
        BY <1>0, <2>1, <3>3, <4>2 DEF OneAtATime
    <3>4. secret'.after <= clicks'
      BY <2>1, <3>1
    <3> QED
      BY <2>1, <3>2, <3>3, <3>4 DEF SecretIsLast
  <2>4. CASE ~(m.action \in {"rotate", "register"} /\ m.hook # "gone")
    BY <2>1, <2>2, <2>4, FewerWatch
  <2> QED
    BY <2>3, <2>4
<1>9. ASSUME NEW m \in pending, onActionError(m) PROVE OneAtATime' /\ SecretIsLast'
  <2>1. pending' \subseteq pending /\ UNCHANGED <<page, secret, clicks>>
    BY <1>9 DEF onActionError
  <2> QED
    BY <2>1, FewerWatch
<1>10. CASE CloseSecret
  <2>1. secret' = None /\ UNCHANGED <<pending, page>>
    BY <1>10 DEF CloseSecret
  <2> QED
    BY <2>1, FewerWatch
<1>11. CASE UNCHANGED <<pending, page, secret, clicks>>
  BY <1>11, FewerWatch
<1> QED
  BY <1>1, <1>4, <1>5, <1>6, <1>7, <1>8, <1>9, <1>10, <1>11, <1>12 DEF Next, vars

LEMMA ConsoleInit == Init => ConsoleInvariant
<1> SUFFICES ASSUME Init PROVE ConsoleInvariant
  OBVIOUS
<1> USE NamesAssumption
<1>1. /\ apiKey \in Tenants \cup {None} /\ backend \in Backends /\ page \in Pages
      /\ cache = [k \in Keys |-> [data |-> None, invalid |-> FALSE, error |-> FALSE]]
      /\ request = [k \in Keys |-> IF k \in OnScreen
                                   THEN createApiClient(apiKey, backend) ELSE None]
      /\ pending = {} /\ secret = None
      /\ changes = [b \in Backends |-> 0] /\ written = [k \in Keys |-> 0]
      /\ clicks = 0 /\ surprises = 0
  BY DEF Init
<1>2. ASSUME NEW k \in OnScreen
      PROVE  k[2] = backend /\ apiKey \in Tenants
  BY <1>1, QueriesFacts DEF OnScreen
<1>3. ASSUME NEW k \in Keys
      PROVE  /\ request[k] \in Answer \cup {None}
             /\ request[k] # None => request[k].base = k[2] /\ request[k].answer = None
  BY <1>1, <1>2, ClientFacts
<1>4. /\ request \in [Keys -> Answer \cup {None}]
      /\ cache \in [Keys -> [data : Answer \cup {None}, invalid : BOOLEAN, error : BOOLEAN]]
  BY <1>1, <1>3
<1>5. changes \in [Backends -> Nat] /\ written \in [Keys -> Nat]
  BY <1>1
<1>6. ConsoleTypeOK
  BY <1>1, <1>4, <1>5 DEF ConsoleTypeOK
<1>7. \A k \in Keys : cache[k].data = None
  BY <1>1
<1>8. \A k \in Keys : k[2] \in Backends
  BY QueriesFacts DEF Keys
<1>9. KeyedByBackend /\ WritesRead /\ InvalidIsFetched
  <2>1. OnScreen \subseteq Keys
    BY <1>6, OnScreenFacts
  <2> QED
    BY <1>3, <1>7, <2>1 DEF KeyedByBackend, WritesRead, InvalidIsFetched, Attended
<1>10. AnswersBringWrites
  <2>1. \A k \in Keys : written[k] <= changes[k[2]]
    BY <1>1, <1>8
  <2> QED
    BY <1>1, <1>3, <1>7, <2>1 DEF AnswersBringWrites
<1>11. OneAtATime /\ SecretIsLast
  BY <1>1 DEF OneAtATime, SecretIsLast
<1> QED
  BY <1>6, <1>9, <1>10, <1>11 DEF ConsoleInvariant

LEMMA ConsoleNext == ConsoleInvariant /\ [Next]_vars => ConsoleInvariant'
<1> SUFFICES ASSUME ConsoleInvariant, [Next]_vars PROVE ConsoleInvariant'
  OBVIOUS
<1>1. ConsoleTypeOK'
  BY ConsoleTypeNext DEF ConsoleInvariant
<1> QED
  BY <1>1, KeyedNext, AnswersNext, WritesNext, FetchedNext, WatchedNext DEF ConsoleInvariant

-----------------------------------------------------------------------------
(* The theorems.                                                           *)

(* The whole invariant, whatever the operator clicks and the network loses. *)
THEOREM ConsoleCorrect == Spec => []ConsoleInvariant
  BY ConsoleInit, ConsoleNext, PTL DEF Spec

(* lib/backend.tsx, the queryKey of every page: switching back and forth,   *)
(* with requests in flight, never shows the other backend's data.           *)
THEOREM ShownForBackendCorrect == Spec => []ShownForBackend
<1>1. ConsoleInvariant => ShownForBackend
  <2> SUFFICES ASSUME ConsoleInvariant, NEW k \in OnScreen
               PROVE  /\ cache[k].data # None => cache[k].data.base = backend
                      /\ request[k] # None => request[k].base = backend
    BY DEF ShownForBackend
  <2>1. k \in Keys /\ k[2] = backend
    BY OnScreenFacts DEF ConsoleInvariant
  <2> QED
    BY <2>1 DEF ConsoleInvariant, KeyedByBackend
<1> QED
  BY <1>1, ConsoleCorrect, PTL

(* invalidate in useEndpointActions.ts: under the keys an action names,     *)
(* what it did is shown, or the page is fetching it, or says it could not,  *)
(* unless the answer shown was on its way and let pass.                     *)
THEOREM ReadYourWritesCorrect == Spec => []ReadYourWrites
<1>1. ConsoleInvariant => ReadYourWrites
  <2> SUFFICES ASSUME ConsoleInvariant, NEW k \in OnScreen, cache[k].data # None
               PROVE  \/ cache[k].data.answer >= written[k]
                      \/ cache[k].invalid /\ (request[k] # None \/ cache[k].error)
                      \/ cache[k].data.missed = written[k]
    BY DEF ReadYourWrites
  <2>1. k \in Keys
    BY OnScreenFacts DEF ConsoleInvariant
  <2>2. Brings(cache[k].data, written[k]) \/ cache[k].invalid
    BY <2>1 DEF ConsoleInvariant, WritesRead
  <2>3. cache[k].invalid => request[k] # None \/ cache[k].error
    BY DEF ConsoleInvariant, InvalidIsFetched, Attended
  <2> QED
    BY <2>2, <2>3 DEF Brings
<1> QED
  BY <1>1, ConsoleCorrect, PTL

(* busy in EndpointDetail.tsx: one visit to an endpoint's page has its      *)
(* pause, resume and rotate take effect in the order of the clicks.         *)
THEOREM ActionsInOrderCorrect == Spec => []ActionsInOrder
<1>1. ConsoleInvariant => ActionsInOrder
  <2> SUFFICES ASSUME ConsoleInvariant, NEW m \in pending, NEW n \in pending,
                      {m.hook, n.hook} \subseteq {"current", "mounted"},
                      {m.page, n.page} \subseteq Endpoints,
                      {m.action, n.action} \subseteq {"pause", "resume", "rotate"},
                      m.id < n.id, n.change # None
               PROVE  m.change # None
    BY DEF ActionsInOrder
  <2>1. Guarded(m) /\ Guarded(n) /\ Watched(m)
    BY DEF Guarded, Watched
  <2>2. page \in Endpoints
    BY <2>1 DEF ConsoleInvariant, OneAtATime
  <2>3. m = n
    BY <2>1, <2>2 DEF ConsoleInvariant, OneAtATime
  <2> QED
    BY <2>3
<1> QED
  BY <1>1, ConsoleCorrect, PTL

(* revealedSecret: on an endpoint's page no late answer takes the place of  *)
(* the secret on display.                                                   *)
THEOREM SecretKeptCorrect == Spec => SecretKept
<1> DEFINE Kept == (page \in Endpoints /\ secret # None /\ secret' # None /\ secret' # secret)
                      => secret'.id > secret.after
<1>1. ASSUME ConsoleInvariant, [Next]_vars PROVE Kept
  <2>0. ConsoleTypeOK
    BY <1>1 DEF ConsoleInvariant
  <2>1. ASSUME NEW m \in pending, onSuccess(m) PROVE Kept
    <3>1. secret' = IF m.action \in {"rotate", "register"} /\ m.hook # "gone"
                    THEN [id |-> m.id, after |-> clicks] ELSE secret
      BY <2>1 DEF onSuccess
    <3>2. CASE m.action \in {"rotate", "register"} /\ m.hook # "gone"
      <4>1. secret'.id = m.id /\ Watched(m)
        BY <3>1, <3>2 DEF Watched
      <4> QED
        BY <1>1, <2>1, <3>2, <4>1 DEF ConsoleInvariant, SecretIsLast
    <3>3. CASE ~(m.action \in {"rotate", "register"} /\ m.hook # "gone")
      BY <3>1, <3>3
    <3> QED
      BY <3>2, <3>3
  <2>2. ASSUME secret' \in {secret, None} PROVE Kept
    BY <2>2
  <2> HIDE DEF Kept
  <2>3. ASSUME NEW t \in Tenants, signIn(t) PROVE secret' = secret
    BY <2>3 DEF signIn
  <2>4. ASSUME signOut \/ CloseSecret \/ UNCHANGED vars PROVE secret' \in {secret, None}
    BY <2>4 DEF signOut, Unmount, CloseSecret, vars
  <2>5. ASSUME NEW b \in Backends, setBackendId(b) \/ Progress(b) PROVE secret' = secret
    BY <2>5 DEF setBackendId, Progress
  <2>6. ASSUME NEW p \in Pages, Navigate(p) PROVE secret' \in {secret, None}
    BY <2>6 DEF Navigate, Unmount
  <2>7. ASSUME NEW k \in Keys, Poll(k) \/ Serve(k) \/ Settle(k) \/ Reject(k)
        PROVE  secret' = secret
    BY <2>7 DEF Poll, Serve, Settle, Reject
  <2>8. ASSUME NEW a \in Actions, NEW e \in Endpoints \cup {None}, Press(a, e)
        PROVE  secret' = secret
    BY <2>8 DEF Press
  <2>9. ASSUME NEW m \in pending, Perform(m) \/ onActionError(m) PROVE secret' = secret
    BY <2>9 DEF Perform, onActionError
  <2> QED
    BY <1>1, <2>1, <2>2, <2>3, <2>4, <2>5, <2>6, <2>7, <2>8, <2>9 DEF Next
<1> HIDE DEF Kept
<1>2. Spec => [][Kept]_vars
  BY <1>1, ConsoleCorrect, PTL DEF Spec
<1> QED
  BY <1>2 DEF SecretKept, Kept

=============================================================================
