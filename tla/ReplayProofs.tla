------------------------------ MODULE ReplayProofs ------------------------------
(***************************************************************************)
(* Proofs about Replay, for any number of requests, workers, endpoints and *)
(* live deliveries, crashes included.                                      *)
(***************************************************************************)
EXTENDS Replay, FiniteSetTheorems, TLAPS

USE DEF queueVars, requestVars, workerVars

(* The inductive invariant, whose parts ReplayInvariant puts together.      *)

(* A key has one replay, and a 202 names a replay of its key.               *)
KeysAnswered ==
    /\ \A r, s \in Requests :
          SameKey(r, s) /\ replay[r] # "absent" /\ replay[s] # "absent" => r = s
    /\ \A r \in Requests :
          /\ request[r] = "new" => replay[r] = "absent"
          /\ request[r] = "inserted" => replay[r] # "absent"
          /\ request[r] = "acked" =>
                /\ answer[r] # None
                /\ replay[answer[r]] # "absent" /\ SameKey(r, answer[r])

(* A row lock has one holder.                                               *)
LockedOnce ==
    \A v, w \in Workers : v # w /\ locked[v] # None => locked[v] # locked[w]

(* No number is drawn twice, nor by two transactions.                       *)
NumbersDrawn ==
    /\ \A d \in deliveries : d.seq < nextSeq
    /\ \A d1, d2 \in deliveries : d1.seq = d2.seq => d1 = d2
    /\ \A w \in Workers :
          /\ \A d \in rows[w] : d.seq < nextSeq /\ \A o \in deliveries : o.seq # d.seq
          /\ \A d1, d2 \in rows[w] : d1.seq = d2.seq => d1 = d2
          /\ \A v \in Workers : v # w =>
                \A d1 \in rows[v], d2 \in rows[w] : d1.seq # d2.seq

(* What was in a stored replay's window stays there.                        *)
WindowKept ==
    \A r \in Requests : replay[r] # "absent" => finished[r] \subseteq {d.seq : d \in Window(r)}

(* The rows a transaction is about to commit are the window, in its order.  *)
RowsCopyWindow ==
    \A w \in Workers : pc[w] = "commit" =>
        /\ \A d \in rows[w] : d.replay = locked[w] /\ \E o \in deliveries : Copies(d, o)
        /\ \A d1, d2 \in rows[w] :
              /\ d1.source = d2.source => d1 = d2
              /\ d1.source < d2.source => d1.seq < d2.seq
        /\ finished[locked[w]] \subseteq {d.source : d \in rows[w]}

(* The whole of it.                                                         *)
ReplayInvariant ==
    /\ ReplayTypeOK
    /\ KeysAnswered
    /\ LockedOnce
    /\ NumbersDrawn
    /\ WindowKept
    /\ RowsCopyWindow
    /\ ReplayedOnceInOrder
    /\ ReplayIsComplete
    /\ NoPendingDuplicated

-----------------------------------------------------------------------------

(* The row event expansion adds.                                            *)
LEMMA ExpandLiveFacts ==
    ASSUME ReplayTypeOK, NEW e \in Endpoints, ExpandLive(e)
    PROVE  \E x \in Delivery :
              /\ deliveries' = deliveries \cup {x} /\ nextSeq' = nextSeq + 1
              /\ x.seq = nextSeq /\ x.replay = None
              /\ UNCHANGED <<clock, requestVars, replay, workerVars, aborts>>
              /\ live' = live + 1
<1>1. PICK c \in {clock - 1, clock} :
        deliveries' = deliveries \cup
            {[seq |-> nextSeq, event |-> nextSeq, endpoint |-> e, created |-> c,
              state |-> "unresolved", replay |-> None, source |-> 0]}
  BY DEF ExpandLive
<1> DEFINE x == [seq |-> nextSeq, event |-> nextSeq, endpoint |-> e, created |-> c,
                 state |-> "unresolved", replay |-> None, source |-> 0]
<1>2. nextSeq \in Nat /\ c \in Nat
  BY <1>1 DEF ReplayTypeOK
<1>3. x \in Delivery
  BY <1>2 DEF Delivery
<1>4. x.seq = nextSeq /\ x.replay = None
  OBVIOUS
<1>5. deliveries' = deliveries \cup {x}
  BY <1>1
<1> HIDE DEF x
<1> QED
  BY <1>3, <1>4, <1>5 DEF ExpandLive

(* A resolved row differs in its state alone.                               *)
Resolved(d, x) ==
    /\ x.seq = d.seq /\ x.event = d.event /\ x.endpoint = d.endpoint /\ x.created = d.created
    /\ x.replay = d.replay /\ x.source = d.source
    /\ d.state = "unresolved" /\ x.state = "terminal"

LEMMA ResolveFacts ==
    ASSUME ReplayTypeOK, NEW d \in deliveries, Resolve(d)
    PROVE  \E x \in Delivery :
              /\ deliveries' = (deliveries \ {d}) \cup {x} /\ Resolved(d, x)
              /\ UNCHANGED <<clock, nextSeq, live, requestVars, replay, workerVars, aborts>>
<1> DEFINE x == [d EXCEPT !.state = "terminal"]
<1>1. d \in Delivery /\ d.state = "unresolved"
  BY DEF ReplayTypeOK, Resolve
<1>2. x \in Delivery
  BY <1>1 DEF Delivery
<1>3. /\ x.seq = d.seq /\ x.event = d.event /\ x.endpoint = d.endpoint /\ x.created = d.created
      /\ x.replay = d.replay /\ x.source = d.source /\ x.state = "terminal"
  BY <1>1 DEF Delivery
<1>4. deliveries' = (deliveries \ {d}) \cup {x}
  BY DEF Resolve
<1> HIDE DEF x
<1> QED
  BY <1>1, <1>2, <1>3, <1>4 DEF Resolve, Resolved

(* The fields of a row.                                                     *)
LEMMA DeliveryFields ==
    ASSUME NEW d \in Delivery
    PROVE  /\ d.seq \in Nat /\ d.event \in Nat /\ d.endpoint \in Endpoints /\ d.created \in Nat
           /\ d.state \in {"unresolved", "terminal"}
           /\ d.replay \in Requests \cup {None} /\ d.source \in Nat
  BY DEF Delivery

(* ORDER BY d.seq: a row's rank is its place in the window.                 *)
LEMMA RankFacts ==
    ASSUME ReplayTypeOK, NEW r \in Requests
    PROVE  /\ Window(r) \subseteq deliveries /\ IsFiniteSet(Window(r))
           /\ Cardinality(Window(r)) \in Nat
           /\ \A d \in Window(r) : Rank(r, d) \in Nat /\ Rank(r, d) < Cardinality(Window(r))
           /\ \A d1, d2 \in Window(r) :
                 /\ d1.seq = d2.seq => Rank(r, d1) = Rank(r, d2)
                 /\ d1.seq < d2.seq => Rank(r, d1) < Rank(r, d2)
<1> DEFINE Below(d) == {o \in Window(r) : o.seq < d.seq}
<1>1. Window(r) \subseteq deliveries
  BY DEF Window
<1>2. IsFiniteSet(Window(r)) /\ Cardinality(Window(r)) \in Nat
  BY <1>1, FS_Subset, FS_CardinalityType DEF ReplayTypeOK
<1>3. \A d \in Window(r) : d.seq \in Nat
  BY <1>1, DeliveryFields DEF ReplayTypeOK
<1>4. ASSUME NEW d \in Window(r)
      PROVE  /\ IsFiniteSet(Below(d)) /\ Cardinality(Below(d)) \in Nat
             /\ Cardinality(Below(d)) < Cardinality(Window(r))
  <2>1. Below(d) \in SUBSET Window(r) /\ d \notin Below(d)
    BY <1>3
  <2> HIDE DEF Below
  <2>2. /\ IsFiniteSet(Below(d)) /\ Cardinality(Below(d)) <= Cardinality(Window(r))
        /\ Cardinality(Window(r)) = Cardinality(Below(d)) => Window(r) = Below(d)
    BY <1>2, <2>1, FS_Subset
  <2>3. Cardinality(Below(d)) \in Nat
    BY <2>2, FS_CardinalityType
  <2>4. Window(r) # Below(d)
    BY <2>1
  <2> QED
    BY <1>2, <2>2, <2>3, <2>4
<1>5. ASSUME NEW d1 \in Window(r), NEW d2 \in Window(r), d1.seq < d2.seq
      PROVE  Cardinality(Below(d1)) < Cardinality(Below(d2))
  <2>1. Below(d1) \in SUBSET Below(d2) /\ d1 \in Below(d2) /\ d1 \notin Below(d1)
    BY <1>3, <1>5
  <2>2. /\ Cardinality(Below(d1)) \in Nat /\ Cardinality(Below(d2)) \in Nat
        /\ IsFiniteSet(Below(d2))
    BY <1>4
  <2> HIDE DEF Below
  <2>3. /\ Cardinality(Below(d1)) <= Cardinality(Below(d2))
        /\ Cardinality(Below(d2)) = Cardinality(Below(d1)) => Below(d2) = Below(d1)
    BY <2>1, <2>2, FS_Subset
  <2>4. Below(d2) # Below(d1)
    BY <2>1
  <2> QED
    BY <2>2, <2>3, <2>4
<1>6. \A d \in Window(r) : Rank(r, d) = Cardinality(Below(d))
  BY DEF Rank
<1>7. ASSUME NEW d1 \in Window(r), NEW d2 \in Window(r), d1.seq = d2.seq
      PROVE  Rank(r, d1) = Rank(r, d2)
  BY <1>7 DEF Rank
<1> HIDE DEF Below
<1> QED
  BY <1>1, <1>2, <1>4, <1>5, <1>6, <1>7

(* The INSERT ... SELECT makes a row of every row in the window.            *)
MadeFrom(d, r, o) ==
    /\ d.seq = nextSeq + Rank(r, o) /\ d.source = o.seq /\ d.event = o.event
    /\ d.endpoint = Asks[r].endpoint /\ d.replay = r

LEMMA InsertFacts ==
    ASSUME ReplayTypeOK, NEW w \in Workers, InsertReplayed(w)
    PROVE  /\ pc[w] = "insert" /\ locked[w] \in Requests
           /\ pc' = [pc EXCEPT ![w] = "commit"]
           /\ nextSeq' = nextSeq + Cardinality(Window(locked[w]))
           /\ UNCHANGED <<clock, deliveries, live, requestVars, replay, candidates, locked,
                          started, aborts>>
           /\ rows' = [rows EXCEPT ![w] = rows'[w]]
           /\ rows'[w] \subseteq Delivery /\ IsFiniteSet(rows'[w])
           /\ \A d \in rows'[w] : \E o \in Window(locked[w]) : MadeFrom(d, locked[w], o)
           /\ \A o \in Window(locked[w]) : \E d \in rows'[w] : MadeFrom(d, locked[w], o)
           /\ NumbersDrawn => \A d1, d2 \in rows'[w] : d1.source = d2.source => d1 = d2
<1> DEFINE r == locked[w]
           RowOf(o) == [seq |-> nextSeq + Rank(r, o), event |-> o.event,
                        endpoint |-> Asks[r].endpoint, created |-> started[w],
                        state |-> "unresolved", replay |-> r, source |-> o.seq]
<1>1. /\ pc[w] = "insert" /\ pc' = [pc EXCEPT ![w] = "commit"]
      /\ rows' = [rows EXCEPT ![w] = {RowOf(o) : o \in Window(r)}]
      /\ nextSeq' = nextSeq + Cardinality(Window(r))
      /\ UNCHANGED <<clock, deliveries, live, requestVars, replay, candidates, locked,
                     started, aborts>>
  BY DEF InsertReplayed
<1>2. r \in Requests /\ nextSeq \in Nat /\ started[w] \in Nat
  BY <1>1 DEF ReplayTypeOK
<1>3. rows'[w] = {RowOf(o) : o \in Window(r)} /\ rows' = [rows EXCEPT ![w] = rows'[w]]
  BY <1>1 DEF ReplayTypeOK
<1>4. ASSUME NEW o \in Window(r) PROVE RowOf(o) \in Delivery
  <2>1. o \in Delivery /\ Rank(r, o) \in Nat
    BY <1>2, RankFacts DEF ReplayTypeOK
  <2>2. o.event \in Nat /\ o.seq \in Nat
    BY <2>1, DeliveryFields
  <2>3. Asks[r].endpoint \in Endpoints
    BY <1>2, ReplayAssumption
  <2> QED
    BY <1>2, <2>1, <2>2, <2>3 DEF Delivery
<1>5. ASSUME NEW o \in Window(r) PROVE MadeFrom(RowOf(o), r, o)
  BY DEF MadeFrom
<1>6. \A o \in Window(r) : RowOf(o).source = o.seq
  OBVIOUS
<1> HIDE DEF RowOf
<1>7. IsFiniteSet(rows'[w])
  <2> DEFINE f == [o \in Window(r) |-> RowOf(o)]
  <2>1. f \in Surjection(Window(r), rows'[w])
    BY <1>3 DEF Surjection
  <2>2. IsFiniteSet(Window(r))
    BY <1>2, RankFacts
  <2> HIDE DEF f
  <2> QED
    BY <2>1, <2>2, FS_Surjection
<1>8. rows'[w] \subseteq Delivery
  BY <1>3, <1>4
<1>9. \A d \in rows'[w] : \E o \in Window(r) : MadeFrom(d, r, o)
  BY <1>3, <1>5
<1>10. \A o \in Window(r) : \E d \in rows'[w] : MadeFrom(d, r, o)
  BY <1>3, <1>5
<1>11. ASSUME NumbersDrawn, NEW d1 \in rows'[w], NEW d2 \in rows'[w], d1.source = d2.source
       PROVE  d1 = d2
  <2>1. PICK o1 \in Window(r), o2 \in Window(r) : d1 = RowOf(o1) /\ d2 = RowOf(o2)
    BY <1>3
  <2>2. o1.seq = o2.seq /\ o1 \in deliveries /\ o2 \in deliveries
    BY <1>2, <1>6, <1>11, <2>1, RankFacts
  <2>3. o1 = o2
    BY <1>11, <2>2 DEF NumbersDrawn
  <2> QED
    BY <2>1, <2>3
<1> QED
  BY <1>1, <1>2, <1>3, <1>7, <1>8, <1>9, <1>10, <1>11

-----------------------------------------------------------------------------
(* Types.                                                                  *)

(* The locks and the status of the replays, for the steps that touch them.  *)
LEMMA LocksTyped ==
    ASSUME ReplayTypeOK, LockedOnce, NEW w \in Workers,
           locked'[w] = None, pc'[w] \notin {"insert", "commit"},
           \A v \in Workers : v # w => pc'[v] = pc[v] /\ locked'[v] = locked[v],
           \A r \in Requests : r # locked[w] => replay'[r] = replay[r]
    PROVE  \A v \in Workers :
              IF pc'[v] \in {"insert", "commit"}
              THEN locked'[v] \in Requests /\ replay'[locked'[v]] = "pending_expansion"
              ELSE locked'[v] = None
<1> SUFFICES ASSUME NEW v \in Workers, v # w
             PROVE  IF pc[v] \in {"insert", "commit"}
                    THEN locked[v] \in Requests /\ replay'[locked[v]] = "pending_expansion"
                    ELSE locked[v] = None
  OBVIOUS
<1>1. pc[v] \in {"insert", "commit"} => locked[v] # locked[w]
  BY ReplayAssumption DEF ReplayTypeOK, LockedOnce
<1> QED
  BY <1>1 DEF ReplayTypeOK

(* Every step keeps the types.                                              *)
LEMMA ReplayTypeNext ==
    ASSUME ReplayTypeOK, LockedOnce, [Next]_vars PROVE ReplayTypeOK'
<1> USE ReplayAssumption
<1>1. ASSUME Tick PROVE ReplayTypeOK'
  BY <1>1 DEF ReplayTypeOK, Tick
<1>2. ASSUME NEW e \in Endpoints, ExpandLive(e) PROVE ReplayTypeOK'
  <2>1. PICK x \in Delivery :
          /\ deliveries' = deliveries \cup {x} /\ nextSeq' = nextSeq + 1 /\ live' = live + 1
          /\ UNCHANGED <<clock, requestVars, replay, workerVars, aborts>>
    BY <1>2, ExpandLiveFacts
  <2>2. deliveries' \subseteq Delivery /\ IsFiniteSet(deliveries')
    BY <2>1, FS_AddElement DEF ReplayTypeOK
  <2>3. nextSeq' \in Nat /\ live' \in Nat
    BY <2>1 DEF ReplayTypeOK
  <2> QED
    BY <2>1, <2>2, <2>3 DEF ReplayTypeOK
<1>3. ASSUME NEW d \in deliveries, Resolve(d) PROVE ReplayTypeOK'
  <2>1. PICK x \in Delivery :
          /\ deliveries' = (deliveries \ {d}) \cup {x}
          /\ UNCHANGED <<clock, nextSeq, live, requestVars, replay, workerVars, aborts>>
    BY <1>3, ResolveFacts
  <2>2. deliveries' \subseteq Delivery
    BY <2>1 DEF ReplayTypeOK
  <2>3. IsFiniteSet(deliveries \ {d})
    BY FS_RemoveElement DEF ReplayTypeOK
  <2>4. IsFiniteSet(deliveries')
    BY <2>1, <2>3, FS_AddElement
  <2> QED
    BY <2>1, <2>2, <2>4 DEF ReplayTypeOK
<1>4. ASSUME NEW r \in Requests, BeginRequest(r) PROVE ReplayTypeOK'
  BY <1>4 DEF ReplayTypeOK, BeginRequest
<1>5. ASSUME NEW r \in Requests, CommitRequest(r) PROVE ReplayTypeOK'
  <2>1. replay[r] = "absent"
    BY <1>5 DEF CommitRequest, Conflicts, SameKey
  <2>2. {d.seq : d \in Window(r)} \subseteq Nat
    <3>1. \A d \in Window(r) : d.seq \in Nat
      BY RankFacts, DeliveryFields DEF ReplayTypeOK
    <3> QED
      BY <3>1
  <2>3. /\ replay' = [replay EXCEPT ![r] = "pending_expansion"]
        /\ request' = [request EXCEPT ![r] = "inserted"]
        /\ finished' = [finished EXCEPT ![r] = {d.seq : d \in Window(r)}]
        /\ UNCHANGED <<queueVars, answer, createdAt, workerVars, aborts>>
    BY <1>5 DEF CommitRequest
  <2>4. finished' \in [Requests -> SUBSET Nat]
    BY <2>2, <2>3 DEF ReplayTypeOK
  <2> QED
    BY <2>1, <2>3, <2>4 DEF ReplayTypeOK
<1>6. ASSUME NEW r \in Requests, ConflictOnKey(r) \/ LoseRequest(r) PROVE ReplayTypeOK'
  BY <1>6 DEF ReplayTypeOK, ConflictOnKey, LoseRequest
<1>7. ASSUME NEW r \in Requests, Acknowledge(r) PROVE ReplayTypeOK'
  BY <1>7 DEF ReplayTypeOK, Acknowledge
<1>8. ASSUME NEW w \in Workers, SelectReplays(w) PROVE ReplayTypeOK'
  <2>1. PICK S \in ReplayQuery :
          /\ candidates' = [candidates EXCEPT ![w] = S]
          /\ pc' = [pc EXCEPT ![w] = IF S = {} THEN "idle" ELSE "lock"]
    BY <1>8 DEF SelectReplays
  <2>2. S \subseteq Requests
    BY DEF ReplayQuery, Pending
  <2> QED
    BY <1>8, <2>1, <2>2 DEF ReplayTypeOK, SelectReplays
<1>9. ASSUME NEW w \in Workers, LockReplay(w) PROVE ReplayTypeOK'
  <2>1. PICK r \in candidates[w] :
          /\ replay[r] = "pending_expansion"
          /\ candidates' = [candidates EXCEPT ![w] = @ \ {r}]
          /\ locked' = [locked EXCEPT ![w] = r]
    BY <1>9 DEF LockReplay, Lockable
  <2>2. r \in Requests
    BY <2>1 DEF ReplayTypeOK
  <2> QED
    BY <1>9, <2>1, <2>2 DEF ReplayTypeOK, LockReplay
<1>10. ASSUME NEW w \in Workers, SkipReplay(w) PROVE ReplayTypeOK'
  BY <1>10 DEF ReplayTypeOK, SkipReplay
<1>11. ASSUME NEW w \in Workers, InsertReplayed(w) PROVE ReplayTypeOK'
  <2>1. /\ nextSeq' \in Nat /\ pc[w] = "insert"
        /\ pc' = [pc EXCEPT ![w] = "commit"]
        /\ rows' = [rows EXCEPT ![w] = rows'[w]]
        /\ rows'[w] \subseteq Delivery /\ IsFiniteSet(rows'[w])
        /\ UNCHANGED <<clock, deliveries, live, requestVars, replay, candidates, locked,
                       started, aborts>>
    BY <1>11, InsertFacts, RankFacts DEF ReplayTypeOK
  <2>2. \A v \in Workers : v # w => rows'[v] = rows[v]
    BY <2>1 DEF ReplayTypeOK
  <2>3. rows' \in [Workers -> SUBSET Delivery] /\ \A v \in Workers : IsFiniteSet(rows'[v])
    BY <2>1, <2>2 DEF ReplayTypeOK
  <2> QED
    BY <2>1, <2>3 DEF ReplayTypeOK
<1>12. ASSUME NEW w \in Workers, EndTransaction(w)
       PROVE  /\ pc' \in [Workers -> {"idle", "lock", "insert", "commit"}]
              /\ candidates' \in [Workers -> SUBSET Requests]
              /\ locked' \in [Workers -> Requests \cup {None}]
              /\ started' \in [Workers -> Nat]
              /\ rows' \in [Workers -> SUBSET Delivery]
              /\ \A v \in Workers : IsFiniteSet(rows'[v])
              /\ locked'[w] = None /\ pc'[w] = "idle"
              /\ \A v \in Workers : v # w => pc'[v] = pc[v] /\ locked'[v] = locked[v]
  <2>1. \A v \in Workers : rows'[v] = IF v = w THEN {} ELSE rows[v]
    BY <1>12 DEF ReplayTypeOK, EndTransaction
  <2>2. \A v \in Workers : IsFiniteSet(rows'[v])
    BY <2>1, FS_EmptySet DEF ReplayTypeOK
  <2> QED
    BY <1>12, <2>2 DEF ReplayTypeOK, EndTransaction
<1>13. ASSUME NEW w \in Workers, CommitReplay(w) PROVE ReplayTypeOK'
  <2>1. /\ pc[w] = "commit" /\ EndTransaction(w)
        /\ deliveries' = deliveries \cup rows[w]
        /\ replay' = [replay EXCEPT ![locked[w]] = "expanded"]
        /\ UNCHANGED <<clock, nextSeq, live, requestVars, aborts>>
    BY <1>13 DEF CommitReplay
  <2>2. deliveries' \subseteq Delivery /\ IsFiniteSet(deliveries')
    BY <2>1, FS_Union DEF ReplayTypeOK
  <2>3. locked[w] \in Requests
    BY <2>1 DEF ReplayTypeOK
  <2>4. /\ replay' \in [Requests -> {"absent", "pending_expansion", "expanded"}]
        /\ \A r \in Requests : r # locked[w] => replay'[r] = replay[r]
    BY <2>1, <2>3 DEF ReplayTypeOK
  <2>5. \A v \in Workers :
           IF pc'[v] \in {"insert", "commit"}
           THEN locked'[v] \in Requests /\ replay'[locked'[v]] = "pending_expansion"
           ELSE locked'[v] = None
    BY <1>12, <2>1, <2>4, LocksTyped
  <2> QED
    BY <1>12, <2>1, <2>2, <2>4, <2>5 DEF ReplayTypeOK
<1>14. ASSUME NEW w \in Workers, AbortReplay(w) PROVE ReplayTypeOK'
  <2>1. /\ EndTransaction(w) /\ aborts' = aborts + 1
        /\ UNCHANGED <<queueVars, requestVars, replay>>
    BY <1>14 DEF AbortReplay
  <2>2. \A v \in Workers :
           IF pc'[v] \in {"insert", "commit"}
           THEN locked'[v] \in Requests /\ replay'[locked'[v]] = "pending_expansion"
           ELSE locked'[v] = None
    BY <1>12, <2>1, LocksTyped
  <2> QED
    BY <1>12, <2>1, <2>2 DEF ReplayTypeOK
<1>15. CASE UNCHANGED vars
  BY <1>15 DEF ReplayTypeOK, vars
<1> QED
  BY <1>1, <1>2, <1>3, <1>4, <1>5, <1>6, <1>7, <1>8, <1>9, <1>10, <1>11, <1>13, <1>14, <1>15
  DEF Next, Request, RunReplayExpansionCycle

-----------------------------------------------------------------------------
(* What a step does to the rows and to the replays.                        *)

(* The COMMIT of a replay, as the invariant sees it.                        *)
LEMMA CommitFacts ==
    ASSUME ReplayInvariant, NEW w \in Workers, CommitReplay(w)
    PROVE  /\ pc[w] = "commit" /\ locked[w] \in Requests
           /\ deliveries' = deliveries \cup rows[w]
           /\ replay[locked[w]] = "pending_expansion"
           /\ \A r \in Requests : replay'[r] = IF r = locked[w] THEN "expanded" ELSE replay[r]
           /\ UNCHANGED <<clock, nextSeq, live, requestVars, aborts>>
           /\ pc'[w] = "idle" /\ rows'[w] = {}
           /\ \A v \in Workers : v # w =>
                 pc'[v] = pc[v] /\ rows'[v] = rows[v] /\ locked'[v] = locked[v]
           /\ \A d \in rows[w] : d.replay = locked[w]
<1>1. /\ pc[w] = "commit" /\ deliveries' = deliveries \cup rows[w] /\ EndTransaction(w)
      /\ replay' = [replay EXCEPT ![locked[w]] = "expanded"]
      /\ UNCHANGED <<clock, nextSeq, live, requestVars, aborts>>
  BY DEF CommitReplay
<1>2. locked[w] \in Requests /\ replay[locked[w]] = "pending_expansion"
  BY <1>1 DEF ReplayInvariant, ReplayTypeOK
<1>3. /\ pc'[w] = "idle" /\ rows'[w] = {}
      /\ \A v \in Workers : v # w =>
            pc'[v] = pc[v] /\ rows'[v] = rows[v] /\ locked'[v] = locked[v]
  BY <1>1 DEF ReplayInvariant, ReplayTypeOK, EndTransaction
<1>4. \A r \in Requests : replay'[r] = IF r = locked[w] THEN "expanded" ELSE replay[r]
  BY <1>1 DEF ReplayInvariant, ReplayTypeOK
<1>5. \A d \in rows[w] : d.replay = locked[w]
  BY <1>1 DEF ReplayInvariant, RowsCopyWindow
<1> QED
  BY <1>1, <1>2, <1>3, <1>4, <1>5

(* Which steps write the deliveries table.                                  *)
LEMMA WritesDeliveries ==
    ASSUME [Next]_vars
    PROVE  \/ UNCHANGED deliveries
           \/ \E e \in Endpoints : ExpandLive(e)
           \/ \E d \in deliveries : Resolve(d)
           \/ \E w \in Workers : CommitReplay(w)
<1>1. ASSUME NEW r \in Requests, Request(r) PROVE UNCHANGED deliveries
  BY <1>1 DEF Request, BeginRequest, CommitRequest, ConflictOnKey, Acknowledge, LoseRequest
<1>2. ASSUME NEW w \in Workers,
             \/ SelectReplays(w) \/ LockReplay(w) \/ SkipReplay(w) \/ InsertReplayed(w)
             \/ AbortReplay(w)
      PROVE  UNCHANGED deliveries
  BY <1>2 DEF SelectReplays, LockReplay, SkipReplay, InsertReplayed, AbortReplay
<1> QED
  BY <1>1, <1>2 DEF Next, RunReplayExpansionCycle, Tick, vars

(* The same row, whatever its state.                                        *)
SameRow(d, x) ==
    /\ x.seq = d.seq /\ x.event = d.event /\ x.endpoint = d.endpoint
    /\ x.replay = d.replay /\ x.source = d.source

(* Rows are never removed, and a finished one never changes.                *)
LEMMA RowsStay ==
    ASSUME ReplayInvariant, [Next]_vars
    PROVE  /\ \A o \in deliveries : o.state = "terminal" => o \in deliveries'
           /\ \A d \in deliveries : \E x \in deliveries' : SameRow(d, x)
<1>0. ReplayTypeOK
  BY DEF ReplayInvariant
<1>1. ASSUME deliveries \subseteq deliveries'
      PROVE  /\ \A o \in deliveries : o.state = "terminal" => o \in deliveries'
             /\ \A d \in deliveries : \E x \in deliveries' : SameRow(d, x)
  BY <1>1 DEF SameRow
<1>2. ASSUME NEW e \in Endpoints, ExpandLive(e) PROVE deliveries \subseteq deliveries'
  BY <1>0, <1>2, ExpandLiveFacts
<1>3. ASSUME NEW w \in Workers, CommitReplay(w) PROVE deliveries \subseteq deliveries'
  BY <1>3 DEF CommitReplay
<1>4. ASSUME NEW d \in deliveries, Resolve(d)
      PROVE  /\ \A o \in deliveries : o.state = "terminal" => o \in deliveries'
             /\ \A o \in deliveries : \E x \in deliveries' : SameRow(o, x)
  <2>1. PICK x \in Delivery : deliveries' = (deliveries \ {d}) \cup {x} /\ Resolved(d, x)
    BY <1>0, <1>4, ResolveFacts
  <2>2. SameRow(d, x) /\ d.state # "terminal"
    BY <2>1 DEF SameRow, Resolved
  <2>3. \A o \in deliveries \ {d} : SameRow(o, o) /\ o \in deliveries'
    BY <2>1 DEF SameRow
  <2> QED
    BY <2>1, <2>2, <2>3
<1> QED
  BY <1>1, <1>2, <1>3, <1>4, WritesDeliveries

(* A row that a replay made was there before, or its COMMIT wrote it.       *)
LEMMA RowOrigin ==
    ASSUME ReplayInvariant, [Next]_vars, NEW x \in deliveries', x.replay # None
    PROVE  \/ \E d \in deliveries : SameRow(d, x)
           \/ \E w \in Workers : CommitReplay(w) /\ x \in rows[w]
<1>0. ReplayTypeOK
  BY DEF ReplayInvariant
<1>1. ASSUME x \in deliveries PROVE \E d \in deliveries : SameRow(d, x)
  BY <1>1 DEF SameRow
<1>2. ASSUME NEW e \in Endpoints, ExpandLive(e) PROVE x \in deliveries
  BY <1>0, <1>2, ExpandLiveFacts
<1>3. ASSUME NEW w \in Workers, CommitReplay(w) PROVE x \in deliveries \/ x \in rows[w]
  BY <1>3 DEF CommitReplay
<1>4. ASSUME NEW d \in deliveries, Resolve(d)
      PROVE  \E o \in deliveries : SameRow(o, x)
  <2>1. PICK y \in Delivery : deliveries' = (deliveries \ {d}) \cup {y} /\ Resolved(d, y)
    BY <1>0, <1>4, ResolveFacts
  <2>2. SameRow(d, y)
    BY <2>1 DEF SameRow, Resolved
  <2> QED
    BY <1>1, <2>1, <2>2
<1> QED
  BY <1>1, <1>2, <1>3, <1>4, WritesDeliveries

(* A stored replay stays, its history with it, and only its COMMIT expands  *)
(* it.                                                                      *)
LEMMA StatusStep ==
    ASSUME ReplayInvariant, [Next]_vars, NEW r \in Requests
    PROVE  /\ replay[r] # "absent" => replay'[r] # "absent" /\ finished'[r] = finished[r]
           /\ replay[r] = "expanded" => replay'[r] = "expanded"
           /\ \/ replay'[r] = replay[r]
              \/ \E w \in Workers : CommitReplay(w) /\ r = locked[w]
              \/ CommitRequest(r) /\ replay[r] = "absent" /\ replay'[r] = "pending_expansion"
<1>0. ReplayTypeOK
  BY DEF ReplayInvariant
<1>1. ASSUME NEW q \in Requests, CommitRequest(q)
      PROVE  /\ replay[q] = "absent" /\ replay'[q] = "pending_expansion"
             /\ \A s \in Requests : s # q => replay'[s] = replay[s] /\ finished'[s] = finished[s]
  <2>1. replay[q] = "absent"
    BY <1>1 DEF CommitRequest, Conflicts, SameKey
  <2>2. /\ replay' = [replay EXCEPT ![q] = "pending_expansion"]
        /\ finished' = [finished EXCEPT ![q] = {d.seq : d \in Window(q)}]
    BY <1>1 DEF CommitRequest
  <2> QED
    BY <1>0, <2>1, <2>2 DEF ReplayTypeOK
<1>2. ASSUME NEW q \in Requests,
             BeginRequest(q) \/ ConflictOnKey(q) \/ Acknowledge(q) \/ LoseRequest(q)
      PROVE  UNCHANGED <<replay, finished>>
  BY <1>2 DEF BeginRequest, ConflictOnKey, Acknowledge, LoseRequest
<1>3. ASSUME NEW w \in Workers, CommitReplay(w)
      PROVE  /\ finished' = finished /\ replay'[locked[w]] = "expanded"
             /\ \A s \in Requests : s # locked[w] => replay'[s] = replay[s]
  BY <1>3, CommitFacts
<1>4. ASSUME NEW w \in Workers,
             \/ SelectReplays(w) \/ LockReplay(w) \/ SkipReplay(w) \/ InsertReplayed(w)
             \/ AbortReplay(w)
      PROVE  UNCHANGED <<replay, finished>>
  BY <1>4 DEF SelectReplays, LockReplay, SkipReplay, InsertReplayed, AbortReplay
<1>5. ASSUME NEW e \in Endpoints, ExpandLive(e) PROVE UNCHANGED <<replay, finished>>
  BY <1>5 DEF ExpandLive
<1>6. ASSUME NEW d \in deliveries, Resolve(d) PROVE UNCHANGED <<replay, finished>>
  BY <1>6 DEF Resolve
<1>7. CASE UNCHANGED <<replay, finished>>
  BY <1>7
<1>8. CASE \E q \in Requests : CommitRequest(q)
  BY <1>1, <1>8
<1>9. CASE \E w \in Workers : CommitReplay(w)
  BY <1>3, <1>9
<1>10. \/ UNCHANGED <<replay, finished>>
       \/ \E q \in Requests : CommitRequest(q)
       \/ \E w \in Workers : CommitReplay(w)
  BY <1>2, <1>4, <1>5, <1>6 DEF Next, Request, RunReplayExpansionCycle, Tick, vars
<1> QED
  BY <1>7, <1>8, <1>9, <1>10

-----------------------------------------------------------------------------
(* The parts of the invariant, one by one.                                 *)

(* The unique index and the SELECT by key keep a key to one replay.         *)
LEMMA KeysNext ==
    ASSUME ReplayInvariant, [Next]_vars PROVE KeysAnswered'
<1>0. ReplayTypeOK /\ KeysAnswered
  BY DEF ReplayInvariant
<1>1. CASE UNCHANGED <<request, answer, replay>>
  BY <1>0, <1>1 DEF KeysAnswered
<1>2. ASSUME NEW r \in Requests, BeginRequest(r) \/ ConflictOnKey(r) \/ LoseRequest(r)
      PROVE  KeysAnswered'
  BY <1>0, <1>2 DEF ReplayTypeOK, KeysAnswered, BeginRequest, ConflictOnKey, LoseRequest
<1>3. ASSUME NEW r \in Requests, CommitRequest(r) PROVE KeysAnswered'
  <2>1. /\ request[r] = "inserting" /\ UNCHANGED answer
        /\ replay' = [replay EXCEPT ![r] = "pending_expansion"]
        /\ request' = [request EXCEPT ![r] = "inserted"]
        /\ \A s \in Requests : SameKey(r, s) => replay[s] = "absent"
    BY <1>3 DEF CommitRequest, Conflicts
  <2>2. \A s, q \in Requests :
           SameKey(s, q) /\ replay'[s] # "absent" /\ replay'[q] # "absent" => s = q
    BY <1>0, <2>1 DEF ReplayTypeOK, KeysAnswered, SameKey
  <2>3. ASSUME NEW s \in Requests
        PROVE  /\ request'[s] = "new" => replay'[s] = "absent"
               /\ request'[s] = "inserted" => replay'[s] # "absent"
               /\ request'[s] = "acked" =>
                     /\ answer'[s] # None
                     /\ replay'[answer'[s]] # "absent" /\ SameKey(s, answer'[s])
    BY <1>0, <2>1 DEF ReplayTypeOK, KeysAnswered
  <2> QED
    BY <2>2, <2>3 DEF KeysAnswered
<1>4. ASSUME NEW r \in Requests, Acknowledge(r) PROVE KeysAnswered'
  <2>1. PICK s \in Requests : ReplayOf(r, s) /\ answer' = [answer EXCEPT ![r] = s]
    BY <1>4 DEF Acknowledge
  <2>2. replay[s] # "absent" /\ SameKey(r, s) /\ request[r] # "new" /\ s # None
    BY <1>0, <2>1, ReplayAssumption DEF KeysAnswered, ReplayOf, SameKey
  <2>3. request' = [request EXCEPT ![r] = "acked"] /\ UNCHANGED replay
    BY <1>4 DEF Acknowledge
  <2> QED
    BY <1>0, <2>1, <2>2, <2>3 DEF ReplayTypeOK, KeysAnswered
<1>5. ASSUME NEW w \in Workers, CommitReplay(w) PROVE KeysAnswered'
  <2>1. /\ \A r \in Requests : replay'[r] # "absent" <=> replay[r] # "absent"
        /\ UNCHANGED <<request, answer>>
    BY <1>5, CommitFacts
  <2>2. \A r \in Requests : request[r] = "acked" => answer[r] \in Requests
    BY <1>0 DEF ReplayTypeOK, KeysAnswered
  <2> QED
    BY <1>0, <2>1, <2>2 DEF KeysAnswered
<1>6. ASSUME NEW w \in Workers,
             \/ SelectReplays(w) \/ LockReplay(w) \/ SkipReplay(w) \/ InsertReplayed(w)
             \/ AbortReplay(w)
      PROVE  UNCHANGED <<request, answer, replay>>
  BY <1>6 DEF SelectReplays, LockReplay, SkipReplay, InsertReplayed, AbortReplay
<1>7. ASSUME NEW e \in Endpoints, ExpandLive(e) PROVE UNCHANGED <<request, answer, replay>>
  BY <1>7 DEF ExpandLive
<1>8. ASSUME NEW d \in deliveries, Resolve(d) PROVE UNCHANGED <<request, answer, replay>>
  BY <1>8 DEF Resolve
<1> QED
  BY <1>1, <1>2, <1>3, <1>4, <1>5, <1>6, <1>7, <1>8
  DEF Next, Request, RunReplayExpansionCycle, Tick, vars

(* FOR UPDATE SKIP LOCKED gives a row to one transaction at a time.         *)
LEMMA LockedNext ==
    ASSUME ReplayInvariant, [Next]_vars PROVE LockedOnce'
<1>0. ReplayTypeOK /\ LockedOnce
  BY DEF ReplayInvariant
<1>1. ASSUME \A w \in Workers : locked'[w] \in {locked[w], None} PROVE LockedOnce'
  BY <1>0, <1>1 DEF LockedOnce
<1>2. ASSUME NEW w \in Workers, LockReplay(w) PROVE LockedOnce'
  <2>1. PICK r \in candidates[w] : Lockable(r) /\ locked' = [locked EXCEPT ![w] = r]
    BY <1>2 DEF LockReplay
  <2> QED
    BY <1>0, <2>1 DEF ReplayTypeOK, LockedOnce, Lockable
<1>3. ASSUME NEW w \in Workers, CommitReplay(w) \/ AbortReplay(w) PROVE LockedOnce'
  BY <1>0, <1>1, <1>3 DEF ReplayTypeOK, CommitReplay, AbortReplay, EndTransaction
<1>4. CASE UNCHANGED locked
  BY <1>1, <1>4
<1>5. ASSUME NEW w \in Workers, SelectReplays(w) \/ SkipReplay(w) \/ InsertReplayed(w)
      PROVE  UNCHANGED locked
  BY <1>5 DEF SelectReplays, SkipReplay, InsertReplayed
<1>6. ASSUME NEW r \in Requests, Request(r) PROVE UNCHANGED locked
  BY <1>6 DEF Request, BeginRequest, CommitRequest, ConflictOnKey, Acknowledge, LoseRequest
<1>7. ASSUME NEW e \in Endpoints, ExpandLive(e) PROVE UNCHANGED locked
  BY <1>7 DEF ExpandLive
<1>8. ASSUME NEW d \in deliveries, Resolve(d) PROVE UNCHANGED locked
  BY <1>8 DEF Resolve
<1> QED
  BY <1>2, <1>3, <1>4, <1>5, <1>6, <1>7, <1>8 DEF Next, RunReplayExpansionCycle, Tick, vars

(* A sequence hands out every number once, to committed and open            *)
(* transactions alike.                                                      *)
LEMMA NumbersNext ==
    ASSUME ReplayInvariant, [Next]_vars PROVE NumbersDrawn'
<1>0. /\ ReplayTypeOK /\ NumbersDrawn /\ nextSeq \in Nat
      /\ \A d \in deliveries : d.seq \in Nat
      /\ \A w \in Workers : \A d \in rows[w] : d.seq \in Nat
  BY DeliveryFields DEF ReplayInvariant, ReplayTypeOK
<1>1. ASSUME UNCHANGED <<nextSeq, deliveries>>, \A w \in Workers : rows'[w] \subseteq rows[w]
      PROVE  NumbersDrawn'
  <2>1. \A w \in Workers :
          /\ \A d \in rows'[w] : d.seq < nextSeq /\ \A o \in deliveries : o.seq # d.seq
          /\ \A d1, d2 \in rows'[w] : d1.seq = d2.seq => d1 = d2
    BY <1>0, <1>1 DEF NumbersDrawn
  <2>2. \A v, w \in Workers : v # w => \A d1 \in rows'[v], d2 \in rows'[w] : d1.seq # d2.seq
    BY <1>0, <1>1 DEF NumbersDrawn
  <2> QED
    BY <1>0, <1>1, <2>1, <2>2 DEF NumbersDrawn
<1>2. ASSUME NEW e \in Endpoints, ExpandLive(e) PROVE NumbersDrawn'
  <2>1. PICK x \in Delivery :
          /\ deliveries' = deliveries \cup {x} /\ nextSeq' = nextSeq + 1 /\ x.seq = nextSeq
          /\ rows' = rows
    BY <1>0, <1>2, ExpandLiveFacts
  <2>2. \A d \in deliveries' : d.seq < nextSeq'
    BY <1>0, <2>1 DEF NumbersDrawn
  <2>3. \A d1, d2 \in deliveries' : d1.seq = d2.seq => d1 = d2
    BY <1>0, <2>1 DEF NumbersDrawn
  <2>4. ASSUME NEW w \in Workers, NEW d \in rows[w]
        PROVE  d.seq < nextSeq' /\ \A o \in deliveries' : o.seq # d.seq
    BY <1>0, <2>1 DEF NumbersDrawn
  <2>5. \A w \in Workers :
          /\ \A d1, d2 \in rows[w] : d1.seq = d2.seq => d1 = d2
          /\ \A v \in Workers : v # w => \A d1 \in rows[v], d2 \in rows[w] : d1.seq # d2.seq
    BY <1>0 DEF NumbersDrawn
  <2> QED
    BY <2>1, <2>2, <2>3, <2>4, <2>5 DEF NumbersDrawn
<1>3. ASSUME NEW d \in deliveries, Resolve(d) PROVE NumbersDrawn'
  <2>1. PICK x \in Delivery :
          /\ deliveries' = (deliveries \ {d}) \cup {x} /\ Resolved(d, x)
          /\ UNCHANGED <<nextSeq, rows>>
    BY <1>0, <1>3, ResolveFacts
  <2>2. x.seq = d.seq
    BY <2>1 DEF Resolved
  <2>3. \A o \in deliveries' : o.seq < nextSeq'
    BY <1>0, <2>1, <2>2 DEF NumbersDrawn
  <2>4. \A d1, d2 \in deliveries' : d1.seq = d2.seq => d1 = d2
    BY <1>0, <2>1, <2>2 DEF NumbersDrawn
  <2>5. ASSUME NEW w \in Workers, NEW y \in rows[w]
        PROVE  y.seq < nextSeq' /\ \A o \in deliveries' : o.seq # y.seq
    BY <1>0, <2>1, <2>2 DEF NumbersDrawn
  <2>6. \A w \in Workers :
          /\ \A d1, d2 \in rows[w] : d1.seq = d2.seq => d1 = d2
          /\ \A v \in Workers : v # w => \A d1 \in rows[v], d2 \in rows[w] : d1.seq # d2.seq
    BY <1>0 DEF NumbersDrawn
  <2> QED
    BY <2>1, <2>3, <2>4, <2>5, <2>6 DEF NumbersDrawn
<1>4. ASSUME NEW w \in Workers, InsertReplayed(w) PROVE NumbersDrawn'
  <2> DEFINE r == locked[w]
  <2>1. /\ r \in Requests /\ deliveries' = deliveries
        /\ nextSeq' = nextSeq + Cardinality(Window(r))
        /\ rows' = [rows EXCEPT ![w] = rows'[w]]
        /\ \A d \in rows'[w] : \E o \in Window(r) : MadeFrom(d, r, o)
        /\ \A d1, d2 \in rows'[w] : d1.source = d2.source => d1 = d2
    BY <1>0, <1>4, InsertFacts
  <2>2. /\ Cardinality(Window(r)) \in Nat
        /\ \A o \in Window(r) : Rank(r, o) \in Nat /\ Rank(r, o) < Cardinality(Window(r))
        /\ \A o1, o2 \in Window(r) : o1.seq < o2.seq => Rank(r, o1) < Rank(r, o2)
        /\ \A o \in Window(r) : o \in deliveries
    BY <1>0, <2>1, RankFacts
  <2> HIDE DEF r
  <2>3. \A v \in Workers : v # w => rows'[v] = rows[v]
    BY <1>0, <2>1 DEF ReplayTypeOK
  <2>4. ASSUME NEW d \in rows'[w]
        PROVE  d.seq \in Nat /\ nextSeq <= d.seq /\ d.seq < nextSeq'
    <3>1. PICK o \in Window(r) : MadeFrom(d, r, o)
      BY <2>1
    <3>2. d.seq = nextSeq + Rank(r, o)
      BY <3>1 DEF MadeFrom
    <3>3. Rank(r, o) \in Nat /\ Rank(r, o) < Cardinality(Window(r)) /\ Cardinality(Window(r)) \in Nat
      BY <2>2
    <3> QED
      BY <1>0, <2>1, <3>2, <3>3
  <2>5. ASSUME NEW d1 \in rows'[w], NEW d2 \in rows'[w], d1.seq = d2.seq PROVE d1 = d2
    <3>1. PICK o1 \in Window(r), o2 \in Window(r) : MadeFrom(d1, r, o1) /\ MadeFrom(d2, r, o2)
      BY <2>1
    <3>2. Rank(r, o1) \in Nat /\ Rank(r, o2) \in Nat /\ o1.seq \in Nat /\ o2.seq \in Nat
      BY <1>0, <2>2
    <3>3. nextSeq + Rank(r, o1) = nextSeq + Rank(r, o2)
      BY <2>5, <3>1 DEF MadeFrom
    <3>4. Rank(r, o1) = Rank(r, o2)
      BY <1>0, <3>2, <3>3
    <3>5. o1.seq = o2.seq
      BY <2>2, <3>2, <3>4
    <3>6. d1.source = d2.source
      BY <3>1, <3>5 DEF MadeFrom
    <3> QED
      BY <2>1, <3>6
  <2>6. \A d \in deliveries : d.seq < nextSeq
    BY <1>0 DEF NumbersDrawn
  <2>7. nextSeq' \in Nat /\ nextSeq <= nextSeq'
    BY <1>0, <2>1, <2>2
  <2>8. ASSUME NEW v \in Workers
        PROVE  /\ \A d \in rows'[v] : d.seq < nextSeq' /\ \A o \in deliveries : o.seq # d.seq
               /\ \A d1, d2 \in rows'[v] : d1.seq = d2.seq => d1 = d2
    <3>1. CASE v = w
      BY <1>0, <2>4, <2>5, <2>6, <3>1
    <3>2. CASE v # w
      <4>1. rows'[v] = rows[v]
        BY <2>3, <3>2
      <4>2. \A d \in rows[v] : d.seq < nextSeq /\ \A o \in deliveries : o.seq # d.seq
        BY <1>0 DEF NumbersDrawn
      <4>3. \A d1, d2 \in rows[v] : d1.seq = d2.seq => d1 = d2
        BY <1>0 DEF NumbersDrawn
      <4> QED
        BY <1>0, <2>7, <4>1, <4>2, <4>3
    <3> QED
      BY <3>1, <3>2
  <2>9. ASSUME NEW u \in Workers, NEW v \in Workers, u # v,
               NEW d1 \in rows'[u], NEW d2 \in rows'[v]
        PROVE  d1.seq # d2.seq
    <3>1. \A x \in Workers : x # w => \A d \in rows'[x] : d.seq \in Nat /\ d.seq < nextSeq
      BY <1>0, <2>3 DEF NumbersDrawn
    <3>2. CASE u = w
      BY <1>0, <2>4, <2>9, <3>1, <3>2
    <3>3. CASE v = w
      BY <1>0, <2>4, <2>9, <3>1, <3>3
    <3>4. CASE u # w /\ v # w
      BY <1>0, <2>3, <2>9, <3>4 DEF NumbersDrawn
    <3> QED
      BY <3>2, <3>3, <3>4
  <2>10. \A d \in deliveries : d.seq < nextSeq'
    BY <1>0, <2>6, <2>7
  <2>11. \A d1, d2 \in deliveries : d1.seq = d2.seq => d1 = d2
    BY <1>0 DEF NumbersDrawn
  <2> QED
    BY <2>1, <2>8, <2>9, <2>10, <2>11 DEF NumbersDrawn
<1>5. ASSUME NEW w \in Workers, CommitReplay(w) PROVE NumbersDrawn'
  <2>1. /\ deliveries' = deliveries \cup rows[w] /\ nextSeq' = nextSeq /\ rows'[w] = {}
        /\ \A v \in Workers : v # w => rows'[v] = rows[v]
    BY <1>5, CommitFacts
  <2>2. \A d \in deliveries' : d.seq < nextSeq'
    BY <1>0, <2>1 DEF NumbersDrawn
  <2>3. \A d1, d2 \in deliveries' : d1.seq = d2.seq => d1 = d2
    BY <1>0, <2>1 DEF NumbersDrawn
  <2>4. ASSUME NEW v \in Workers, NEW d \in rows'[v]
        PROVE  v # w /\ d \in rows[v] /\ d.seq < nextSeq' /\ \A o \in deliveries' : o.seq # d.seq
    <3>1. v # w /\ d \in rows[v]
      BY <2>1, <2>4
    <3> QED
      BY <1>0, <2>1, <3>1 DEF NumbersDrawn
  <2>5. \A v \in Workers : rows'[v] \subseteq rows[v]
    BY <2>4
  <2>6. \A v \in Workers : \A d1, d2 \in rows'[v] : d1.seq = d2.seq => d1 = d2
    BY <1>0, <2>5 DEF NumbersDrawn
  <2>7. \A u, v \in Workers : u # v => \A d1 \in rows'[u], d2 \in rows'[v] : d1.seq # d2.seq
    BY <1>0, <2>5 DEF NumbersDrawn
  <2> QED
    BY <2>2, <2>3, <2>4, <2>6, <2>7 DEF NumbersDrawn
<1>6. ASSUME NEW w \in Workers, AbortReplay(w) PROVE NumbersDrawn'
  BY <1>0, <1>1, <1>6 DEF AbortReplay, EndTransaction, ReplayTypeOK
<1>7. CASE UNCHANGED <<nextSeq, deliveries, rows>>
  BY <1>1, <1>7
<1>8. ASSUME NEW w \in Workers, SelectReplays(w) \/ LockReplay(w) \/ SkipReplay(w)
      PROVE  UNCHANGED <<nextSeq, deliveries, rows>>
  BY <1>8 DEF SelectReplays, LockReplay, SkipReplay
<1>9. ASSUME NEW r \in Requests, Request(r) PROVE UNCHANGED <<nextSeq, deliveries, rows>>
  BY <1>9 DEF Request, BeginRequest, CommitRequest, ConflictOnKey, Acknowledge, LoseRequest
<1> QED
  BY <1>2, <1>3, <1>4, <1>5, <1>6, <1>7, <1>8, <1>9
  DEF Next, RunReplayExpansionCycle, Tick, vars

(* What has finished stays finished, so a window only grows.                *)
LEMMA WindowNext ==
    ASSUME ReplayInvariant, [Next]_vars PROVE WindowKept'
<1> SUFFICES ASSUME NEW r \in Requests, replay'[r] # "absent"
             PROVE  finished'[r] \subseteq {d.seq : d \in Window(r)'}
  BY DEF WindowKept
<1>0. ReplayTypeOK /\ WindowKept
  BY DEF ReplayInvariant
<1>1. Window(r) \subseteq Window(r)'
  <2>1. \A d \in Window(r) : d \in deliveries /\ d.state = "terminal"
    BY <1>0, DeliveryFields DEF Window, ReplayTypeOK
  <2> QED
    BY <2>1, RowsStay DEF Window
<1>2. finished'[r] \subseteq {d.seq : d \in Window(r)}
  <2>1. CASE replay[r] # "absent"
    BY <1>0, <2>1, StatusStep DEF WindowKept
  <2>2. CASE replay[r] = "absent"
    <3>1. CommitRequest(r)
      <4>1. ~\E w \in Workers : CommitReplay(w) /\ r = locked[w]
        BY <2>2, CommitFacts
      <4> QED
        BY <2>2, <4>1, StatusStep
    <3> QED
      BY <1>0, <3>1 DEF CommitRequest, ReplayTypeOK
  <2> QED
    BY <2>1, <2>2
<1> QED
  BY <1>1, <1>2

(* A transaction that is to commit has just inserted, or was so already.    *)
LEMMA CommittingStep ==
    ASSUME ReplayInvariant, [Next]_vars, NEW w \in Workers, pc'[w] = "commit"
    PROVE  \/ InsertReplayed(w)
           \/ pc[w] = "commit" /\ rows'[w] = rows[w] /\ locked'[w] = locked[w]
<1> DEFINE Kept == pc[w] = "commit" /\ rows'[w] = rows[w] /\ locked'[w] = locked[w]
<1>0. ReplayTypeOK
  BY DEF ReplayInvariant
<1>1. ASSUME NEW v \in Workers,
             SelectReplays(v) \/ LockReplay(v) \/ SkipReplay(v)
      PROVE  Kept
  BY <1>0, <1>1 DEF ReplayTypeOK, SelectReplays, LockReplay, SkipReplay
<1>2. ASSUME NEW v \in Workers, v # w, InsertReplayed(v) PROVE Kept
  BY <1>0, <1>2 DEF ReplayTypeOK, InsertReplayed
<1>3. ASSUME NEW v \in Workers, CommitReplay(v) \/ AbortReplay(v) PROVE Kept
  BY <1>0, <1>3 DEF ReplayTypeOK, CommitReplay, AbortReplay, EndTransaction
<1>4. ASSUME NEW r \in Requests, Request(r) PROVE Kept
  BY <1>4 DEF Request, BeginRequest, CommitRequest, ConflictOnKey, Acknowledge, LoseRequest
<1>5. ASSUME NEW e \in Endpoints, ExpandLive(e) PROVE Kept
  BY <1>5 DEF ExpandLive
<1>6. ASSUME NEW d \in deliveries, Resolve(d) PROVE Kept
  BY <1>6 DEF Resolve
<1>7. ASSUME Tick \/ UNCHANGED vars PROVE Kept
  BY <1>7 DEF Tick, vars
<1> HIDE DEF Kept
<1>8. ASSUME NEW v \in Workers, RunReplayExpansionCycle(v) \/ AbortReplay(v)
      PROVE  Kept \/ InsertReplayed(w)
  <2>1. CASE InsertReplayed(v)
    BY <1>2, <2>1
  <2>2. CASE ~InsertReplayed(v)
    BY <1>1, <1>3, <1>8, <2>2 DEF RunReplayExpansionCycle
  <2> QED
    BY <2>1, <2>2
<1>9. Kept \/ InsertReplayed(w)
  BY <1>4, <1>5, <1>6, <1>7, <1>8 DEF Next
<1> QED
  BY <1>9 DEF Kept

(* The rows of an open transaction stay the copy of their window that the   *)
(* INSERT made: what they copy cannot change, nor can what they owe.        *)
LEMMA RowsNext ==
    ASSUME ReplayInvariant, [Next]_vars PROVE RowsCopyWindow'
<1>0. ReplayTypeOK /\ RowsCopyWindow /\ NumbersDrawn /\ WindowKept
  BY DEF ReplayInvariant
<1> SUFFICES ASSUME NEW w \in Workers, pc'[w] = "commit"
             PROVE  /\ \A d \in rows'[w] :
                          d.replay = locked'[w] /\ \E o \in deliveries' : Copies(d, o)
                    /\ \A d1, d2 \in rows'[w] :
                          /\ d1.source = d2.source => d1 = d2
                          /\ d1.source < d2.source => d1.seq < d2.seq
                    /\ finished'[locked'[w]] \subseteq {d.source : d \in rows'[w]}
  BY DEF RowsCopyWindow, Copies
<1>1. CASE pc[w] = "commit" /\ rows'[w] = rows[w] /\ locked'[w] = locked[w]
  <2>1. locked[w] \in Requests /\ replay[locked[w]] = "pending_expansion"
    BY <1>0, <1>1 DEF ReplayTypeOK
  <2>2. finished'[locked[w]] = finished[locked[w]]
    BY <2>1, StatusStep
  <2>3. /\ \A d \in rows[w] : d.replay = locked[w] /\ \E o \in deliveries : Copies(d, o)
        /\ \A d1, d2 \in rows[w] :
              /\ d1.source = d2.source => d1 = d2
              /\ d1.source < d2.source => d1.seq < d2.seq
        /\ finished[locked[w]] \subseteq {d.source : d \in rows[w]}
    BY <1>0, <1>1 DEF RowsCopyWindow
  <2>4. \A d \in rows[w] : \E o \in deliveries' : Copies(d, o)
    BY <2>3, RowsStay DEF Copies
  <2> QED
    BY <1>1, <2>2, <2>3, <2>4
<1>2. CASE InsertReplayed(w)
  <2> DEFINE r == locked[w]
  <2>1. /\ r \in Requests /\ pc[w] = "insert"
        /\ deliveries' = deliveries /\ locked' = locked /\ finished' = finished
        /\ \A d \in rows'[w] : \E o \in Window(r) : MadeFrom(d, r, o)
        /\ \A o \in Window(r) : \E d \in rows'[w] : MadeFrom(d, r, o)
        /\ \A d1, d2 \in rows'[w] : d1.source = d2.source => d1 = d2
    BY <1>0, <1>2, InsertFacts
  <2>2. /\ \A o \in Window(r) : o \in deliveries /\ Rank(r, o) \in Nat
        /\ \A o1, o2 \in Window(r) : o1.seq < o2.seq => Rank(r, o1) < Rank(r, o2)
    BY <1>0, <2>1, RankFacts
  <2>3. finished[r] \subseteq {o.seq : o \in Window(r)}
    BY <1>0, <2>1 DEF ReplayTypeOK, WindowKept
  <2>4. \A o \in Window(r) : o.endpoint = Asks[r].endpoint /\ o.state = "terminal"
    <3>1. \A o \in Window(r) : o.endpoint = Asks[r].endpoint /\ o.state # "unresolved"
      BY DEF Window
    <3> QED
      BY <1>0, <2>2, <3>1, DeliveryFields DEF ReplayTypeOK
  <2> HIDE DEF r
  <2>5. \A d \in rows'[w] : d.replay = r /\ \E o \in deliveries : Copies(d, o)
    BY <2>1, <2>2, <2>4 DEF MadeFrom, Copies
  <2>6. ASSUME NEW d1 \in rows'[w], NEW d2 \in rows'[w], d1.source < d2.source
        PROVE  d1.seq < d2.seq
    <3>1. PICK o1 \in Window(r), o2 \in Window(r) : MadeFrom(d1, r, o1) /\ MadeFrom(d2, r, o2)
      BY <2>1
    <3>2. Rank(r, o1) < Rank(r, o2) /\ Rank(r, o1) \in Nat /\ Rank(r, o2) \in Nat
      BY <2>2, <2>6, <3>1 DEF MadeFrom
    <3>3. d1.seq = nextSeq + Rank(r, o1) /\ d2.seq = nextSeq + Rank(r, o2) /\ nextSeq \in Nat
      BY <1>0, <3>1 DEF MadeFrom, ReplayTypeOK
    <3> QED
      BY <3>2, <3>3
  <2>7. finished[r] \subseteq {d.source : d \in rows'[w]}
    BY <2>1, <2>3 DEF MadeFrom
  <2>8. r = locked'[w]
    BY <2>1 DEF r
  <2> QED
    BY <2>1, <2>5, <2>6, <2>7, <2>8
<1> QED
  BY <1>1, <1>2, CommittingStep

(* A COMMIT is the first and the last to write rows of its replay.          *)
LEMMA OnceNext ==
    ASSUME ReplayInvariant, [Next]_vars PROVE ReplayedOnceInOrder'
<1>0. /\ ReplayTypeOK /\ RowsCopyWindow /\ ReplayedOnceInOrder
      /\ \A d \in deliveries : d.seq \in Nat /\ d.source \in Nat
  BY DeliveryFields DEF ReplayInvariant, ReplayTypeOK
<1>1. ASSUME NEW x \in deliveries', x.replay # None PROVE replay'[x.replay] = "expanded"
  <2>1. CASE \E d \in deliveries : SameRow(d, x)
    <3>1. PICK d \in deliveries : SameRow(d, x)
      BY <2>1
    <3>2. d.replay = x.replay /\ d.replay \in Requests
      BY <1>0, <1>1, <3>1, DeliveryFields DEF SameRow, ReplayTypeOK
    <3>3. replay[x.replay] = "expanded"
      BY <1>0, <1>1, <3>2 DEF ReplayedOnceInOrder
    <3> QED
      BY <3>2, <3>3, StatusStep
  <2>2. CASE \E w \in Workers : CommitReplay(w) /\ x \in rows[w]
    <3>1. PICK w \in Workers : CommitReplay(w) /\ x \in rows[w]
      BY <2>2
    <3> QED
      BY <3>1, CommitFacts
  <2> QED
    BY <1>1, <2>1, <2>2, RowOrigin
<1>2. ASSUME NEW x \in deliveries', NEW y \in deliveries', x.replay \in Requests,
             x.replay = y.replay
      PROVE  /\ x.source = y.source => x = y
             /\ x.source < y.source => x.seq < y.seq
  <2>0. x.replay # None
    BY <1>2, ReplayAssumption
  <2>1. ASSUME NEW d \in deliveries, NEW e \in deliveries, SameRow(d, x), SameRow(e, y)
        PROVE  /\ x.source = y.source => x = y
               /\ x.source < y.source => x.seq < y.seq
    <3>1. /\ d.source = e.source => d = e
          /\ d.source < e.source => d.seq < e.seq
      BY <1>0, <1>2, <2>1 DEF ReplayedOnceInOrder, Made, SameRow
    <3>2. x.seq = y.seq => x = y
      BY <1>2, NumbersNext DEF NumbersDrawn
    <3>3. d.seq = x.seq /\ e.seq = y.seq /\ d.source = x.source /\ e.source = y.source
      BY <2>1 DEF SameRow
    <3> QED
      BY <3>1, <3>2, <3>3
  <2>2. ASSUME NEW w \in Workers, CommitReplay(w), x \in rows[w] \/ y \in rows[w]
        PROVE  /\ x.source = y.source => x = y
               /\ x.source < y.source => x.seq < y.seq
    <3>1. /\ pc[w] = "commit" /\ deliveries' = deliveries \cup rows[w]
          /\ replay[locked[w]] = "pending_expansion"
          /\ \A d \in rows[w] : d.replay = locked[w]
      BY <2>2, CommitFacts
    <3>2. \A d \in deliveries : d.replay # locked[w] \/ d.replay = None
      BY <1>0, <3>1 DEF ReplayedOnceInOrder
    <3>3. x \in rows[w] /\ y \in rows[w]
      BY <1>2, <2>0, <2>2, <3>1, <3>2
    <3> QED
      BY <1>0, <3>1, <3>3 DEF RowsCopyWindow
  <2> QED
    BY <1>2, <2>0, <2>1, <2>2, RowOrigin
<1> QED
  BY <1>1, <1>2 DEF ReplayedOnceInOrder, Made

(* What an expanded replay has copied stays copied, and the COMMIT that     *)
(* expands one brings everything it owed.                                   *)
LEMMA CompleteNext ==
    ASSUME ReplayInvariant, [Next]_vars PROVE ReplayIsComplete'
<1> SUFFICES ASSUME NEW r \in Requests, replay'[r] = "expanded", NEW n \in finished'[r]
             PROVE  \E x \in deliveries' : x.replay = r /\ x.source = n
  BY DEF ReplayIsComplete, Made
<1>0. RowsCopyWindow /\ ReplayIsComplete
  BY DEF ReplayInvariant
<1>1. CASE replay[r] = "expanded"
  <2>1. PICK d \in deliveries : d.replay = r /\ d.source = n
    BY <1>0, <1>1, StatusStep DEF ReplayIsComplete, Made
  <2> QED
    BY <2>1, RowsStay DEF SameRow
<1>2. CASE replay[r] # "expanded"
  <2>1. PICK w \in Workers : CommitReplay(w) /\ r = locked[w]
    BY <1>2, StatusStep
  <2>2. /\ pc[w] = "commit" /\ deliveries' = deliveries \cup rows[w]
        /\ finished' = finished /\ \A d \in rows[w] : d.replay = r
    BY <2>1, CommitFacts
  <2>3. finished[r] \subseteq {d.source : d \in rows[w]}
    BY <1>0, <2>1, <2>2 DEF RowsCopyWindow
  <2>4. PICK d \in rows[w] : d.source = n
    BY <2>2, <2>3
  <2> QED
    BY <2>2, <2>4
<1> QED
  BY <1>1, <1>2

(* What a row copies was finished when it was copied, and does not change.  *)
LEMMA NoPendNext ==
    ASSUME ReplayInvariant, [Next]_vars PROVE NoPendingDuplicated'
<1> SUFFICES ASSUME NEW x \in deliveries', x.replay # None
             PROVE  \E o \in deliveries' : Copies(x, o)
  BY DEF NoPendingDuplicated, Copies
<1>0. RowsCopyWindow /\ NoPendingDuplicated
  BY DEF ReplayInvariant
<1>1. \E o \in deliveries : Copies(x, o)
  <2>1. CASE \E d \in deliveries : SameRow(d, x)
    BY <1>0, <2>1 DEF NoPendingDuplicated, SameRow, Copies
  <2>2. CASE \E w \in Workers : CommitReplay(w) /\ x \in rows[w]
    <3>1. PICK w \in Workers : CommitReplay(w) /\ x \in rows[w]
      BY <2>2
    <3>2. pc[w] = "commit"
      BY <3>1, CommitFacts
    <3> QED
      BY <1>0, <3>1, <3>2 DEF RowsCopyWindow
  <2> QED
    BY <2>1, <2>2, RowOrigin
<1> QED
  BY <1>1, RowsStay DEF Copies

LEMMA ReplayInit == Init => ReplayInvariant
<1> SUFFICES ASSUME Init PROVE ReplayInvariant
  OBVIOUS
<1> USE ReplayAssumption
<1>1. ReplayTypeOK
  BY FS_EmptySet DEF Init, ReplayTypeOK
<1>2. KeysAnswered
  BY DEF Init, KeysAnswered
<1>3. LockedOnce
  BY DEF Init, LockedOnce
<1>4. NumbersDrawn
  BY DEF Init, NumbersDrawn
<1>5. WindowKept /\ RowsCopyWindow
  BY DEF Init, WindowKept, RowsCopyWindow
<1>6. ReplayedOnceInOrder /\ ReplayIsComplete /\ NoPendingDuplicated
  BY DEF Init, ReplayedOnceInOrder, ReplayIsComplete, NoPendingDuplicated, Made
<1> QED
  BY <1>1, <1>2, <1>3, <1>4, <1>5, <1>6 DEF ReplayInvariant

LEMMA ReplayNext == ReplayInvariant /\ [Next]_vars => ReplayInvariant'
<1> SUFFICES ASSUME ReplayInvariant, [Next]_vars PROVE ReplayInvariant'
  OBVIOUS
<1>1. ReplayTypeOK'
  BY ReplayTypeNext DEF ReplayInvariant
<1> QED
  BY <1>1, KeysNext, LockedNext, NumbersNext, WindowNext, RowsNext, OnceNext, CompleteNext,
     NoPendNext
  DEF ReplayInvariant

-----------------------------------------------------------------------------
(* The theorems.                                                           *)

(* replays.ts and replayExpansion.ts: the whole invariant, in every         *)
(* reachable state.                                                         *)
THEOREM ReplayCorrect == Spec => []ReplayInvariant
  BY ReplayInit, ReplayNext, PTL DEF Spec

(* The tables and locals keep their types, and a transaction that inserts   *)
(* or commits has a pending replay locked.                                  *)
THEOREM ReplayTypeCorrect == Spec => []ReplayTypeOK
<1>1. ReplayInvariant => ReplayTypeOK
  BY DEF ReplayInvariant
<1> QED
  BY <1>1, ReplayCorrect, PTL

(* POST /endpoints/:id/replays: however requests race, repeat and are lost, *)
(* a key has one replay, and all its 202s name that one.                    *)
THEOREM OneReplayPerKeyCorrect == Spec => []OneReplayPerKey
<1>1. ReplayInvariant => OneReplayPerKey
  <2> SUFFICES ASSUME ReplayInvariant, NEW r \in Requests, NEW s \in Requests, SameKey(r, s)
               PROVE  /\ replay[r] # "absent" /\ replay[s] # "absent" => r = s
                      /\ request[r] = "acked" /\ request[s] = "acked" => answer[r] = answer[s]
    BY DEF OneReplayPerKey
  <2>0. KeysAnswered
    BY DEF ReplayInvariant
  <2>1. ASSUME request[r] = "acked", request[s] = "acked"
        PROVE  answer[r] = answer[s]
    <3>1. answer[r] \in Requests /\ answer[s] \in Requests
      BY <2>0, <2>1 DEF KeysAnswered, ReplayInvariant, ReplayTypeOK
    <3>2. /\ replay[answer[r]] # "absent" /\ SameKey(r, answer[r])
          /\ replay[answer[s]] # "absent" /\ SameKey(s, answer[s])
      BY <2>0, <2>1 DEF KeysAnswered
    <3>3. SameKey(answer[r], answer[s])
      BY <3>2 DEF SameKey
    <3> QED
      BY <2>0, <3>1, <3>2, <3>3 DEF KeysAnswered
  <2> QED
    BY <2>0, <2>1 DEF KeysAnswered
<1> QED
  BY <1>1, ReplayCorrect, PTL

(* runReplayExpansionCycle: through crashes and competing workers, a replay *)
(* copies a delivery at most once, all in the commit that marks it expanded *)
(* and in the order of what it copies.                                      *)
THEOREM ReplayedOnceInOrderCorrect == Spec => []ReplayedOnceInOrder
<1>1. ReplayInvariant => ReplayedOnceInOrder
  BY DEF ReplayInvariant
<1> QED
  BY <1>1, ReplayCorrect, PTL

(* A replay marked expanded has copied everything in its window that had    *)
(* finished when its request was stored.                                    *)
THEOREM ReplayIsCompleteCorrect == Spec => []ReplayIsComplete
<1>1. ReplayInvariant => ReplayIsComplete
  BY DEF ReplayInvariant
<1> QED
  BY <1>1, ReplayCorrect, PTL

(* What a replay copied was finished, and no later step reopens it.         *)
THEOREM NoPendingDuplicatedCorrect == Spec => []NoPendingDuplicated
<1>1. ReplayInvariant => NoPendingDuplicated
  BY DEF ReplayInvariant
<1> QED
  BY <1>1, ReplayCorrect, PTL

=============================================================================
