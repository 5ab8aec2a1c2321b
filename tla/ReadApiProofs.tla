----------------------------- MODULE ReadApiProofs -----------------------------
(***************************************************************************)
(* Proofs about ReadApi, for any queue, page size and creation times.      *)
(***************************************************************************)
EXTENDS ReadApi, FiniteSetTheorems, WellFoundedInduction, TLAPS

USE DEF queueVars

(* The inductive invariant, whose parts ReadInvariant puts together.        *)

(* What has been attempted has everything before it resolved.               *)
AttemptedInOrder ==
    /\ \A d \in Deliveries :
          /\ state[d] = "absent" => attempts[d] = <<>>
          /\ state[d] \in {"in_flight", "succeeded", "failed"} => attempts[d] # <<>>
    /\ \A d0, d \in Deliveries :
          SameStream(d0, d) /\ d0 < d /\ attempts[d] # <<>> => Terminal(d0)

(* An endpoint has one delivery in flight, and none when it is halted.      *)
OneInFlight ==
    /\ \A d \in Deliveries : state[d] = "in_flight" => EndpointOf[d] \in busy
    /\ \A d1, d2 \in Deliveries :
          (/\ EndpointOf[d1] = EndpointOf[d2]
           /\ state[d1] = "in_flight" /\ state[d2] = "in_flight") => d1 = d2
    /\ \A e \in Endpoints : status[e] = "halted" => e \notin busy

(* The last attempt is the one that was answered.                           *)
LastAnswers ==
    \A d \in Deliveries :
        /\ \A i \in DOMAIN attempts[d] : attempts[d][i].number <= attemptCount[d] + 1
        /\ state[d] \in {"in_flight", "succeeded", "failed"} =>
              /\ \A i \in DOMAIN attempts[d] : attempts[d][i].number <= attemptCount[d]
              /\ attempts[d][LastAttempt(d)].number = attemptCount[d]
        /\ state[d] = "succeeded" => attempts[d][LastAttempt(d)].outcome = "2xx"
        /\ state[d] = "failed" => attempts[d][LastAttempt(d)].outcome = "failed"

(* A halted endpoint was halted by the last delivery it resolved.           *)
HaltedByLast ==
    \A e \in Endpoints : status[e] = "halted" =>
        \E f \in On(e) :
            /\ state[f] = "failed"
            /\ \A d \in Deliveries : SameStream(f, d) /\ f < d => ~Terminal(d)

(* A failed delivery holds its endpoint up until a resume, which tells.     *)
HeldUp(f) ==
    /\ status[EndpointOf[f]] # "active" /\ EndpointOf[f] \notin busy
    /\ \A d \in Deliveries : SameStream(f, d) /\ f < d => attempts[d] = <<>>

SkipsTold ==
    \A f \in Deliveries :
        state[f] = "failed" /\ InCreationOrder(EndpointOf[f]) =>
            \/ f \in told \/ EndpointOf[f] \in unsaid \/ Resuming(EndpointOf[f])
            \/ HeldUp(f)

(* A delivery read as resolved still is.                                    *)
DetailHolds ==
    call # None /\ call.op = "detail" /\ call.state \in {"succeeded", "failed"} =>
        state[call.id] = call.state

(* The rows a list can hold.                                                *)
RowsOf(list) == IF list.of = "events" THEN LiveBatches ELSE Deliveries

SameMillisecond(b1, b2) == EventAt[b1] \div Millisecond = EventAt[b2] \div Millisecond

(* The cursor is the last row seen, and a row there at the start has been   *)
(* seen, is still to come, or is an event too close to one seen.            *)
ListHolds ==
    Listing(call) =>
        LET seen == ToSet(call.seen) IN
        /\ seen \subseteq RowsOf(call.list) /\ call.atStart \subseteq Rows(call.list)
        /\ call.after = None => call.seen = <<>>
        /\ call.after # None => call.seen # <<>> /\ call.after = call.seen[Len(call.seen)]
        /\ \A r \in call.atStart \ seen :
              \/ call.after = None \/ Beyond(call.list, r, call.after)
              \/ call.list.of = "events" /\ \E s \in seen : SameMillisecond(r, s)

ReadInvariant ==
    /\ ReadTypeOK
    /\ AttemptedInOrder /\ OneInFlight /\ LastAnswers /\ HaltedByLast
    /\ SkipsTold /\ DetailHolds /\ ListHolds
    /\ ResolvedShowsAnswer /\ HaltedShowsFailure
    /\ InOrderOnce /\ MissesOnlyTies

-----------------------------------------------------------------------------

-----------------------------------------------------------------------------
(* What the steps of the queue do.                                         *)

(* The tables' part of the type invariant.                                  *)
QueueTyped ==
    /\ status \in [Endpoints -> {"active", "paused", "halted"}]
    /\ busy \subseteq Endpoints
    /\ state \in [Deliveries -> {"absent", "pending", "in_flight", "succeeded", "failed"}]
    /\ attemptCount \in [Deliveries -> Nat]
    /\ attempts \in [Deliveries -> Seq(Attempt)]

(* The fields of an attempt.                                                *)
LEMMA AttemptFields ==
    ASSUME QueueTyped, NEW d \in Deliveries
    PROVE  /\ Len(attempts[d]) \in Nat /\ DOMAIN attempts[d] = 1 .. Len(attempts[d])
           /\ attempts[d] # <<>> <=> Len(attempts[d]) > 0
           /\ \A i \in DOMAIN attempts[d] :
                 attempts[d][i] \in Attempt /\ attempts[d][i].number \in Nat
<1>1. attempts[d] \in Seq(Attempt)
  BY DEF QueueTyped
<1>2. \A i \in DOMAIN attempts[d] : attempts[d][i] \in Attempt
  BY <1>1
<1>3. \A a \in Attempt : a.number \in Nat
  BY DEF Attempt
<1>4. attempts[d] # <<>> <=> Len(attempts[d]) > 0
  BY <1>1
<1> QED
  BY <1>1, <1>2, <1>3, <1>4

(* The same attempts, but for outcomes.                                     *)
SameNumbers(d) ==
    /\ attempts' \in [Deliveries -> Seq(Attempt)]
    /\ \A c \in Deliveries : c # d => attempts'[c] = attempts[c]
    /\ Len(attempts'[d]) = Len(attempts[d])
    /\ \A i \in 1 .. Len(attempts[d]) : attempts'[d][i].number = attempts[d][i].number

LEMMA AnswerFacts ==
    ASSUME QueueTyped, NEW d \in Deliveries, NEW o \in {"2xx", "failed"}, Answer(d, o)
    PROVE  /\ state[d] = "in_flight" /\ attempts[d] # <<>>
           /\ SameNumbers(d)
           /\ attempts'[d][Len(attempts[d])].outcome = o
           /\ busy' = busy \ {EndpointOf[d]} /\ UNCHANGED attemptCount
<1> DEFINE n == Len(attempts[d])
<1>1. /\ state[d] = "in_flight" /\ attempts[d] # <<>>
      /\ busy' = busy \ {EndpointOf[d]} /\ UNCHANGED attemptCount
      /\ attempts' = [attempts EXCEPT ![d][n].outcome = o]
  BY DEF Answer, Open, LastAttempt
<1>2. attempts[d] \in Seq(Attempt) /\ n \in 1 .. Len(attempts[d])
  BY <1>1, AttemptFields DEF QueueTyped
<1>3. attempts'[d] = [attempts[d] EXCEPT ![n] = [attempts[d][n] EXCEPT !.outcome = o]]
  BY <1>1 DEF QueueTyped
<1>4. attempts[d][n] \in Attempt
  BY <1>2
<1>5. /\ [attempts[d][n] EXCEPT !.outcome = o] \in Attempt
      /\ [attempts[d][n] EXCEPT !.outcome = o].number = attempts[d][n].number
      /\ [attempts[d][n] EXCEPT !.outcome = o].outcome = o
  BY <1>4 DEF Attempt
<1> HIDE DEF n
<1>6. /\ attempts'[d] \in Seq(Attempt) /\ Len(attempts'[d]) = Len(attempts[d])
      /\ attempts'[d][n] = [attempts[d][n] EXCEPT !.outcome = o]
      /\ \A i \in 1 .. Len(attempts[d]) : i # n => attempts'[d][i] = attempts[d][i]
  BY <1>2, <1>3, <1>5
<1>7. \A i \in 1 .. Len(attempts[d]) : attempts'[d][i].number = attempts[d][i].number
  BY <1>5, <1>6
<1>8. (\A c \in Deliveries : c # d => attempts'[c] = attempts[c]) /\ DOMAIN attempts' = Deliveries
  BY <1>1 DEF QueueTyped
<1>9. attempts' \in [Deliveries -> Seq(Attempt)]
  <2>1. \A c \in Deliveries : attempts'[c] \in Seq(Attempt)
    BY <1>6, <1>8 DEF QueueTyped
  <2>2. attempts' = [c \in Deliveries |-> attempts'[c]]
    BY <1>1 DEF QueueTyped
  <2> QED
    BY <2>1, <2>2
<1> QED
  BY <1>1, <1>5, <1>6, <1>7, <1>8, <1>9 DEF SameNumbers, n

LEMMA ExpireFacts ==
    ASSUME QueueTyped, NEW d \in Deliveries, Expire(d)
    PROVE  /\ state[d] = "in_flight" /\ SameNumbers(d)
           /\ UNCHANGED <<status, busy, state, attemptCount>>
<1> DEFINE Closed(i) == IF attempts[d][i].outcome = "open"
                        THEN [attempts[d][i] EXCEPT !.outcome = "worker_lease_expired"]
                        ELSE attempts[d][i]
<1>1. /\ state[d] = "in_flight"
      /\ UNCHANGED <<status, busy, state, attemptCount>>
      /\ attempts' = [attempts EXCEPT ![d] = [i \in 1 .. Len(attempts[d]) |-> Closed(i)]]
  BY DEF Expire, LastAttempt
<1>2. attempts'[d] = [i \in 1 .. Len(attempts[d]) |-> Closed(i)]
  BY <1>1 DEF QueueTyped
<1>3. ASSUME NEW i \in 1 .. Len(attempts[d])
      PROVE  Closed(i) \in Attempt /\ Closed(i).number = attempts[d][i].number
  <2>1. attempts[d][i] \in Attempt
    BY AttemptFields
  <2> QED
    BY <2>1 DEF Attempt
<1> HIDE DEF Closed
<1>4. Len(attempts[d]) \in Nat
  BY AttemptFields
<1>5. attempts'[d] \in Seq(Attempt) /\ Len(attempts'[d]) = Len(attempts[d])
  BY <1>2, <1>3, <1>4
<1>6. \A i \in 1 .. Len(attempts[d]) : attempts'[d][i].number = attempts[d][i].number
  BY <1>2, <1>3
<1>7. \A c \in Deliveries : c # d => attempts'[c] = attempts[c]
  BY <1>1 DEF QueueTyped
<1>8. attempts' \in [Deliveries -> Seq(Attempt)]
  <2>1. \A c \in Deliveries : attempts'[c] \in Seq(Attempt)
    BY <1>5, <1>7 DEF QueueTyped
  <2>2. attempts' = [c \in Deliveries |-> attempts'[c]]
    BY <1>1 DEF QueueTyped
  <2> QED
    BY <2>1, <2>2
<1> QED
  BY <1>1, <1>5, <1>6, <1>7, <1>8 DEF SameNumbers

LEMMA RecordFacts ==
    ASSUME QueueTyped, NEW d \in Deliveries, Record(d)
    PROVE  /\ IsNext(d) /\ UNCHANGED <<status, busy, state, attemptCount>>
           /\ attempts' \in [Deliveries -> Seq(Attempt)]
           /\ \A c \in Deliveries : c # d => attempts'[c] = attempts[c]
           /\ Len(attempts'[d]) = Len(attempts[d]) + 1
           /\ attempts'[d][Len(attempts[d]) + 1].number = attemptCount[d] + 1
           /\ \A i \in 1 .. Len(attempts[d]) : attempts'[d][i] = attempts[d][i]
<1> DEFINE a == [number |-> attemptCount[d] + 1, outcome |-> "open"]
<1>1. /\ IsNext(d) /\ UNCHANGED <<status, busy, state, attemptCount>>
      /\ attempts' = [attempts EXCEPT ![d] = Append(attempts[d], a)]
  BY DEF Record
<1>2. a \in Attempt /\ a.number = attemptCount[d] + 1
  BY DEF QueueTyped, Attempt
<1> HIDE DEF a
<1>3. attempts[d] \in Seq(Attempt) /\ attempts'[d] = Append(attempts[d], a)
  BY <1>1 DEF QueueTyped
<1>4. \A c \in Deliveries : c # d => attempts'[c] = attempts[c]
  BY <1>1 DEF QueueTyped
<1>5. attempts' \in [Deliveries -> Seq(Attempt)]
  BY <1>1, <1>2, <1>3 DEF QueueTyped
<1>6. /\ Len(attempts'[d]) = Len(attempts[d]) + 1 /\ attempts'[d][Len(attempts[d]) + 1] = a
      /\ \A i \in 1 .. Len(attempts[d]) : attempts'[d][i] = attempts[d][i]
  BY <1>2, <1>3
<1> QED
  BY <1>1, <1>2, <1>4, <1>5, <1>6

(* The steps that end an attempt with an answer.                            *)
LEMMA ResolveFacts ==
    ASSUME QueueTyped, NEW d \in Deliveries, Succeed(d) \/ Retry(d) \/ Fail(d)
    PROVE  /\ state[d] = "in_flight" /\ attempts[d] # <<>>
           /\ SameNumbers(d)
           /\ busy' = busy \ {EndpointOf[d]} /\ UNCHANGED attemptCount
           /\ state' \in [Deliveries -> {"absent", "pending", "in_flight", "succeeded", "failed"}]
           /\ \A c \in Deliveries : c # d => state'[c] = state[c]
           /\ state'[d] \in {"succeeded", "pending", "failed"}
           /\ state'[d] = "succeeded" => attempts'[d][Len(attempts[d])].outcome = "2xx"
           /\ state'[d] = "failed" => attempts'[d][Len(attempts[d])].outcome = "failed"
           /\ IF state'[d] = "failed"
              THEN status' = [status EXCEPT ![EndpointOf[d]] = "halted"]
              ELSE UNCHANGED status
<1>1. CASE Succeed(d)
  <2>1. Answer(d, "2xx") /\ state' = [state EXCEPT ![d] = "succeeded"] /\ UNCHANGED status
    BY <1>1 DEF Succeed
  <2>2. state'[d] = "succeeded"
    BY <2>1 DEF QueueTyped
  <2> QED
    BY <2>1, <2>2, AnswerFacts DEF QueueTyped
<1>2. CASE Retry(d)
  <2>1. Answer(d, "failed") /\ state' = [state EXCEPT ![d] = "pending"] /\ UNCHANGED status
    BY <1>2 DEF Retry
  <2>2. state'[d] = "pending"
    BY <2>1 DEF QueueTyped
  <2> QED
    BY <2>1, <2>2, AnswerFacts DEF QueueTyped
<1>3. CASE Fail(d)
  <2>1. /\ Answer(d, "failed") /\ state' = [state EXCEPT ![d] = "failed"]
        /\ status' = [status EXCEPT ![EndpointOf[d]] = "halted"]
    BY <1>3 DEF Fail
  <2>2. state'[d] = "failed"
    BY <2>1 DEF QueueTyped
  <2> QED
    BY <2>1, <2>2, AnswerFacts DEF QueueTyped
<1> QED
  BY <1>1, <1>2, <1>3

LEMMA StartFacts ==
    ASSUME QueueTyped, NEW d \in Deliveries, Start(d)
    PROVE  /\ IsNext(d) /\ attempts[d] # <<>>
           /\ attempts[d][Len(attempts[d])].number = attemptCount[d] + 1
           /\ UNCHANGED <<status, busy, attempts>>
           /\ state'[d] = "in_flight" /\ attemptCount'[d] = attemptCount[d] + 1
           /\ \A c \in Deliveries : c # d =>
                 state'[c] = state[c] /\ attemptCount'[c] = attemptCount[c]
  BY DEF Start, Open, LastAttempt, QueueTyped

LEMMA PublishFacts ==
    ASSUME QueueTyped, NEW b \in Batches, Publish(b)
    PROVE  /\ UNCHANGED <<status, busy, attemptCount, attempts>>
           /\ \A d \in Deliveries :
                 state'[d] = state[d] \/ (state[d] = "absent" /\ state'[d] = "pending")
<1> DEFINE rows == {d \in Deliveries : BatchOf[d] = b}
<1>1. /\ UNCHANGED <<status, busy, attemptCount, attempts>>
      /\ state' = [d \in Deliveries |-> IF d \in rows THEN "pending" ELSE state[d]]
      /\ \A d \in rows : state[d] = "absent"
  BY DEF Publish
<1> HIDE DEF rows
<1>2. ASSUME NEW d \in Deliveries
      PROVE  state'[d] = state[d] \/ (state[d] = "absent" /\ state'[d] = "pending")
  <2>1. state'[d] = IF d \in rows THEN "pending" ELSE state[d]
    BY <1>1
  <2>2. d \in rows => state[d] = "absent"
    BY <1>1
  <2> QED
    BY <2>1, <2>2
<1>3. UNCHANGED <<status, busy, attemptCount, attempts>>
  BY <1>1
<1> QED
  BY <1>2, <1>3

(* The steps that write the tables.                                         *)
QueueStep ==
    \/ \E b \in Batches : Publish(b)
    \/ \E e \in Endpoints : Pause(e) \/ Resume(e) \/ Claim(e) \/ Release(e)
    \/ \E d \in Deliveries : Deliver(d)

LEMMA WritesQueue ==
    ASSUME [ReadNext]_vars
    PROVE  QueueStep \/ UNCHANGED queueVars
<1>1. CASE Work
  BY <1>1 DEF Work, QueueStep
<1>2. ASSUME NEW e \in Endpoints, ResumeUpdate(e) PROVE QueueStep
  BY <1>2 DEF ResumeUpdate, QueueStep
<1>3. ASSUME ResumeCount \/ ResumeReply \/ ResumeLost \/ ReadAttempts \/ ReadPage
      PROVE  UNCHANGED queueVars
  BY <1>3 DEF ResumeCount, ResumeReply, ResumeLost, ReadAttempts, ReadPage
<1>4. ASSUME NEW e \in Endpoints, ReadHealth(e) PROVE UNCHANGED queueVars
  BY <1>4 DEF ReadHealth
<1>5. ASSUME NEW d \in Deliveries, ReadDelivery(d) PROVE UNCHANGED queueVars
  BY <1>5 DEF ReadDelivery
<1>6. ASSUME NEW list, NEW limit, BeginList(list, limit) PROVE UNCHANGED queueVars
  BY <1>6 DEF BeginList
<1>7. ASSUME UNCHANGED vars PROVE UNCHANGED queueVars
  BY <1>7 DEF vars
<1>8. ASSUME Serve PROVE QueueStep \/ UNCHANGED queueVars
  BY <1>2, <1>3, <1>4, <1>5, <1>6, <1>8 DEF Serve, ReadEvent
<1> QED
  BY <1>1, <1>7, <1>8 DEF ReadNext

(* What a step does to one delivery.                                        *)
Untouched(c) ==
    state'[c] = state[c] /\ attempts'[c] = attempts[c] /\ attemptCount'[c] = attemptCount[c]

Published(c) ==
    /\ state[c] = "absent" /\ state'[c] = "pending"
    /\ attempts'[c] = attempts[c] /\ attemptCount'[c] = attemptCount[c]

LEMMA DeliveryStep ==
    ASSUME QueueTyped, QueueStep, NEW c \in Deliveries
    PROVE  Untouched(c) \/ Published(c) \/ Deliver(c)
<1>1. ASSUME NEW b \in Batches, Publish(b) PROVE Untouched(c) \/ Published(c)
  <2>1. UNCHANGED <<attemptCount, attempts>>
    BY <1>1, PublishFacts
  <2>2. state'[c] = state[c] \/ (state[c] = "absent" /\ state'[c] = "pending")
    BY <1>1, PublishFacts
  <2> QED
    BY <2>1, <2>2 DEF Untouched, Published
<1>2. ASSUME NEW e \in Endpoints, Pause(e) \/ Resume(e) \/ Claim(e) \/ Release(e)
      PROVE  Untouched(c)
  BY <1>2 DEF Pause, Resume, Claim, Release, Untouched
<1>3. ASSUME NEW d \in Deliveries, Deliver(d), d # c PROVE Untouched(c)
  <2>1. CASE Record(d)
    BY <1>3, <2>1, RecordFacts DEF Untouched
  <2>2. CASE Start(d)
    BY <1>3, <2>2, StartFacts DEF Untouched
  <2>3. CASE Expire(d)
    BY <1>3, <2>3, ExpireFacts DEF Untouched, SameNumbers
  <2>4. CASE Requeue(d)
    BY <1>3, <2>4 DEF Untouched, Requeue, QueueTyped
  <2>5. CASE Succeed(d) \/ Retry(d) \/ Fail(d)
    BY <1>3, <2>5, ResolveFacts DEF Untouched, SameNumbers
  <2> QED
    BY <1>3, <2>1, <2>2, <2>3, <2>4, <2>5 DEF Deliver
<1>4. ASSUME NEW d \in Deliveries, Deliver(d)
      PROVE  Untouched(c) \/ Deliver(c)
  <2>1. CASE d = c
    BY <1>4, <2>1
  <2>2. CASE d # c
    BY <1>3, <1>4, <2>2
  <2> QED
    BY <2>1, <2>2
<1> QED
  BY <1>1, <1>2, <1>4 DEF QueueStep

(* Which deliveries are attempted, and what that leaves of them.            *)
LEMMA DeliverStates ==
    ASSUME QueueTyped, NEW c \in Deliveries, Deliver(c)
    PROVE  \/ Record(c) /\ state[c] = "pending" /\ state'[c] = "pending"
           \/ Start(c) /\ state[c] = "pending" /\ state'[c] = "in_flight"
           \/ Expire(c) /\ state[c] = "in_flight" /\ state'[c] = "in_flight"
           \/ Requeue(c) /\ state[c] = "in_flight" /\ state'[c] = "pending"
           \/ /\ Succeed(c) \/ Retry(c) \/ Fail(c)
              /\ state[c] = "in_flight" /\ state'[c] \in {"succeeded", "pending", "failed"}
<1>1. CASE Record(c)
  BY <1>1, RecordFacts DEF IsNext
<1>2. CASE Start(c)
  BY <1>2, StartFacts DEF IsNext
<1>3. CASE Expire(c)
  BY <1>3, ExpireFacts
<1>4. CASE Requeue(c)
  BY <1>4 DEF Requeue, QueueTyped
<1>5. CASE Succeed(c) \/ Retry(c) \/ Fail(c)
  BY <1>5, ResolveFacts
<1> QED
  BY <1>1, <1>2, <1>3, <1>4, <1>5 DEF Deliver

(* What is resolved stays as it is, and what is visible stays visible.      *)
LEMMA ResolvedStays ==
    ASSUME QueueTyped, QueueStep, NEW c \in Deliveries
    PROVE  /\ Terminal(c) => Untouched(c)
           /\ state[c] # "absent" => state'[c] # "absent"
<1>1. CASE Untouched(c)
  BY <1>1 DEF Untouched
<1>2. CASE Published(c)
  BY <1>2 DEF Published, Terminal
<1>3. CASE Deliver(c)
  BY <1>3, DeliverStates DEF Terminal
<1> QED
  BY <1>1, <1>2, <1>3, DeliveryStep

-----------------------------------------------------------------------------
(* The queue's part of the invariant.                                      *)

QueueOK ==
    QueueTyped /\ AttemptedInOrder /\ OneInFlight /\ LastAnswers /\ HaltedByLast

LEMMA QueueTypeNext ==
    ASSUME QueueTyped, QueueStep PROVE QueueTyped'
<1>1. ASSUME NEW b \in Batches, Publish(b) PROVE QueueTyped'
  BY <1>1 DEF QueueTyped, Publish
<1>2. ASSUME NEW e \in Endpoints, Pause(e) \/ Resume(e) \/ Claim(e) \/ Release(e)
      PROVE  QueueTyped'
  BY <1>2 DEF QueueTyped, Pause, Resume, Claim, Release
<1>3. ASSUME NEW d \in Deliveries, Record(d) PROVE QueueTyped'
  BY <1>3, RecordFacts DEF QueueTyped
<1>4. ASSUME NEW d \in Deliveries, Start(d) PROVE QueueTyped'
  BY <1>4 DEF QueueTyped, Start
<1>5. ASSUME NEW d \in Deliveries, Expire(d) PROVE QueueTyped'
  BY <1>5, ExpireFacts DEF QueueTyped, SameNumbers
<1>6. ASSUME NEW d \in Deliveries, Requeue(d) PROVE QueueTyped'
  BY <1>6 DEF QueueTyped, Requeue
<1>7. ASSUME NEW d \in Deliveries, Succeed(d) \/ Retry(d) \/ Fail(d) PROVE QueueTyped'
  <2>1. /\ attempts' \in [Deliveries -> Seq(Attempt)] /\ UNCHANGED attemptCount
        /\ busy' = busy \ {EndpointOf[d]}
        /\ state' \in [Deliveries -> {"absent", "pending", "in_flight", "succeeded", "failed"}]
    BY <1>7, ResolveFacts DEF SameNumbers
  <2>2. status' \in [Endpoints -> {"active", "paused", "halted"}]
    <3>1. status' = status \/ status' = [status EXCEPT ![EndpointOf[d]] = "halted"]
      BY <1>7, ResolveFacts
    <3> QED
      BY <3>1 DEF QueueTyped
  <2> QED
    BY <2>1, <2>2 DEF QueueTyped
<1> QED
  BY <1>1, <1>2, <1>3, <1>4, <1>5, <1>6, <1>7 DEF QueueStep, Deliver

LEMMA AttemptedNext ==
    ASSUME QueueOK, QueueStep PROVE AttemptedInOrder'
<1>0. QueueTyped /\ AttemptedInOrder /\ QueueTyped'
  BY QueueTypeNext DEF QueueOK
<1>1. ASSUME NEW c \in Deliveries
      PROVE  /\ state'[c] = "absent" => attempts'[c] = <<>>
             /\ state'[c] \in {"in_flight", "succeeded", "failed"} => attempts'[c] # <<>>
             /\ attempts'[c] # <<>> => attempts[c] # <<>> \/ IsNext(c)
  <2>0. /\ state[c] = "absent" => attempts[c] = <<>>
        /\ state[c] \in {"in_flight", "succeeded", "failed"} => attempts[c] # <<>>
    BY <1>0 DEF AttemptedInOrder
  <2>1. CASE Untouched(c) \/ Published(c)
    BY <2>0, <2>1 DEF Untouched, Published
  <2>2. CASE Record(c)
    BY <1>0, <2>2, RecordFacts DEF IsNext
  <2>3. CASE Start(c)
    BY <1>0, <2>3, StartFacts
  <2>4. CASE Expire(c)
    <3>1. attempts[c] # <<>> /\ state'[c] = "in_flight" /\ Len(attempts'[c]) = Len(attempts[c])
      BY <1>0, <2>0, <2>4, ExpireFacts DEF SameNumbers
    <3>2. attempts'[c] # <<>>
      BY <1>0, <3>1, AttemptFields
    <3> QED
      BY <3>1, <3>2
  <2>5. CASE Requeue(c)
    BY <1>0, <2>0, <2>5 DEF Requeue, QueueTyped
  <2>6. CASE Succeed(c) \/ Retry(c) \/ Fail(c)
    <3>1. /\ attempts[c] # <<>> /\ state'[c] # "absent"
          /\ attempts'[c] \in Seq(Attempt) /\ Len(attempts'[c]) = Len(attempts[c])
      BY <1>0, <2>6, ResolveFacts DEF SameNumbers
    <3>2. attempts'[c] # <<>>
      BY <1>0, <3>1, AttemptFields
    <3> QED
      BY <3>1, <3>2
  <2> QED
    BY <1>0, <2>1, <2>2, <2>3, <2>4, <2>5, <2>6, DeliveryStep DEF Deliver
<1>2. ASSUME NEW d0 \in Deliveries, NEW d \in Deliveries,
             SameStream(d0, d), d0 < d, attempts'[d] # <<>>
      PROVE  Terminal(d0)'
  <2>1. Terminal(d0)
    BY <1>0, <1>1, <1>2 DEF AttemptedInOrder, IsNext
  <2> QED
    BY <1>0, <2>1, ResolvedStays DEF Terminal, Untouched
<1> QED
  BY <1>1, <1>2 DEF AttemptedInOrder, SameStream, Live

(* What moves a status, and who is at an endpoint.                          *)
LEMMA EndpointStep ==
    ASSUME QueueTyped, QueueStep, NEW e \in Endpoints
    PROVE  /\ e \in busy' => e \in busy \/ status[e] = "active"
           /\ e \in busy' \ busy => UNCHANGED <<status, state, attempts>>
           /\ e \in busy \ busy' =>
                 \/ UNCHANGED state /\ \A d \in On(e) : state[d] # "in_flight"
                 \/ \E d \in On(e) : Succeed(d) \/ Retry(d) \/ Fail(d)
           /\ status'[e] = "halted" =>
                 \/ status[e] = "halted"
                 \/ \E d \in On(e) : Fail(d)
           /\ status[e] # "active" /\ status'[e] = "active" => Resume(e)
<1>1. ASSUME NEW b \in Batches, Publish(b) PROVE UNCHANGED <<status, busy>>
  BY <1>1, PublishFacts
<1>2. ASSUME NEW e1 \in Endpoints, Pause(e1) \/ Resume(e1)
      PROVE  /\ UNCHANGED <<busy, state, attempts>>
             /\ e1 # e => status'[e] = status[e]
             /\ status'[e1] # "halted" /\ (Pause(e1) => status'[e1] = "paused")
  BY <1>2 DEF Pause, Resume, QueueTyped
<1>3. ASSUME NEW e1 \in Endpoints, Claim(e1)
      PROVE  /\ UNCHANGED <<status, state, attempts>> /\ busy' = busy \cup {e1}
             /\ status[e1] = "active"
  BY <1>3 DEF Claim
<1>4. ASSUME NEW e1 \in Endpoints, Release(e1)
      PROVE  /\ UNCHANGED <<status, state, attempts>> /\ busy' = busy \ {e1}
             /\ \A d \in On(e1) : state[d] # "in_flight"
  BY <1>4 DEF Release
<1>5. ASSUME NEW d \in Deliveries, Record(d) \/ Start(d) \/ Expire(d) \/ Requeue(d)
      PROVE  UNCHANGED <<status, busy>>
  BY <1>5 DEF Record, Start, Expire, Requeue
<1>6. ASSUME NEW d \in Deliveries, Succeed(d) \/ Retry(d) \/ Fail(d)
      PROVE  /\ busy' = busy \ {EndpointOf[d]}
             /\ EndpointOf[d] \in Endpoints /\ d \in On(EndpointOf[d])
             /\ \/ UNCHANGED status
                \/ Fail(d) /\ status' = [status EXCEPT ![EndpointOf[d]] = "halted"]
  BY <1>6, RowsAssumption DEF Succeed, Retry, Fail, Answer, On
<1>7. ASSUME NEW d \in Deliveries, Succeed(d) \/ Retry(d) \/ Fail(d)
      PROVE  /\ e \notin busy' \ busy
             /\ e \in busy \ busy' => d \in On(e)
             /\ status'[e] # status[e] => status'[e] = "halted" /\ d \in On(e) /\ Fail(d)
  BY <1>6, <1>7 DEF QueueTyped, On
<1>8. CASE \E d \in Deliveries : Succeed(d) \/ Retry(d) \/ Fail(d)
  <2>1. PICK d \in Deliveries : Succeed(d) \/ Retry(d) \/ Fail(d)
    BY <1>8
  <2>2. /\ e \notin busy' \ busy
        /\ e \in busy \ busy' => d \in On(e)
        /\ status'[e] # status[e] => status'[e] = "halted" /\ d \in On(e) /\ Fail(d)
    BY <1>7, <2>1
  <2> QED
    BY <2>1, <2>2
<1>9. CASE \E e1 \in Endpoints : Pause(e1) \/ Resume(e1)
  BY <1>2, <1>9
<1>10. CASE \E e1 \in Endpoints : Claim(e1) \/ Release(e1)
  BY <1>3, <1>4, <1>10
<1> QED
  BY <1>1, <1>5, <1>8, <1>9, <1>10 DEF QueueStep, Deliver

LEMMA OneInFlightNext ==
    ASSUME QueueOK, QueueStep PROVE OneInFlight'
<1>0. QueueTyped /\ OneInFlight /\ QueueTyped'
  BY QueueTypeNext DEF QueueOK
<1>1. ASSUME NEW c \in Deliveries, state'[c] = "in_flight"
      PROVE  state[c] = "in_flight" \/ (Start(c) /\ IsNext(c))
  <2>1. CASE Untouched(c) \/ Published(c)
    BY <1>1, <2>1 DEF Untouched, Published
  <2>2. CASE Deliver(c)
    BY <1>0, <1>1, <2>2, DeliverStates, StartFacts
  <2> QED
    BY <1>0, <2>1, <2>2, DeliveryStep
<1>2. ASSUME NEW c \in Deliveries, state'[c] = "in_flight" PROVE EndpointOf[c] \in busy'
  <2>1. EndpointOf[c] \in busy /\ EndpointOf[c] \in Endpoints
    BY <1>0, <1>1, <1>2, RowsAssumption DEF OneInFlight, IsNext
  <2>2. CASE Start(c)
    BY <2>1, <2>2 DEF Start
  <2>3. CASE state[c] = "in_flight" /\ EndpointOf[c] \notin busy'
    <3>1. ASSUME NEW d \in On(EndpointOf[c]), Succeed(d) \/ Retry(d) \/ Fail(d) PROVE FALSE
      <4>1. d \in Deliveries /\ EndpointOf[d] = EndpointOf[c]
        BY DEF On
      <4>2. state[d] = "in_flight" /\ state'[d] # "in_flight"
        BY <1>0, <3>1, <4>1, ResolveFacts
      <4>3. d = c
        BY <1>0, <2>3, <4>1, <4>2 DEF OneInFlight
      <4> QED
        BY <1>2, <4>2, <4>3
    <3>2. c \in On(EndpointOf[c])
      BY DEF On
    <3> QED
      BY <1>0, <2>1, <2>3, <3>1, <3>2, EndpointStep
  <2> QED
    BY <1>1, <1>2, <2>2, <2>3
<1>3. ASSUME NEW c1 \in Deliveries, NEW c2 \in Deliveries, EndpointOf[c1] = EndpointOf[c2],
             state'[c1] = "in_flight", state'[c2] = "in_flight", c1 # c2
      PROVE  FALSE
  <2>1. ~(state[c1] = "in_flight" /\ state[c2] = "in_flight")
    BY <1>0, <1>3 DEF OneInFlight
  <2>2. ASSUME NEW c \in Deliveries, NEW d \in Deliveries, c # d,
               EndpointOf[c] = EndpointOf[d], Start(c), IsNext(c), state'[d] = "in_flight"
        PROVE  FALSE
    <3>1. state'[d] = state[d]
      BY <1>0, <2>2, StartFacts
    <3>2. state[d] # "in_flight"
      BY <2>2 DEF IsNext, On
    <3> QED
      BY <2>2, <3>1, <3>2
  <2> QED
    BY <1>1, <1>3, <2>1, <2>2
<1>4. ASSUME NEW e \in Endpoints, status'[e] = "halted" PROVE e \notin busy'
  <2>1. CASE status[e] = "halted"
    BY <1>0, <2>1, EndpointStep DEF OneInFlight
  <2>2. CASE \E d \in On(e) : Fail(d)
    BY <2>2 DEF Fail, Answer, On
  <2> QED
    BY <1>0, <1>4, <2>1, <2>2, EndpointStep
<1> QED
  BY <1>2, <1>3, <1>4 DEF OneInFlight

LEMMA LastAnswersNext ==
    ASSUME QueueOK, QueueStep PROVE LastAnswers'
<1>0. QueueTyped /\ LastAnswers /\ AttemptedInOrder /\ QueueTyped'
  BY QueueTypeNext DEF QueueOK
<1> SUFFICES ASSUME NEW c \in Deliveries
             PROVE  /\ \A i \in DOMAIN attempts'[c] : attempts'[c][i].number <= attemptCount'[c] + 1
                    /\ state'[c] \in {"in_flight", "succeeded", "failed"} =>
                          /\ \A i \in DOMAIN attempts'[c] :
                                attempts'[c][i].number <= attemptCount'[c]
                          /\ attempts'[c][Len(attempts'[c])].number = attemptCount'[c]
                    /\ state'[c] = "succeeded" => attempts'[c][Len(attempts'[c])].outcome = "2xx"
                    /\ state'[c] = "failed" => attempts'[c][Len(attempts'[c])].outcome = "failed"
  BY DEF LastAnswers, LastAttempt
<1> DEFINE n == Len(attempts[c])
           k == attemptCount[c]
<1>1. /\ \A i \in DOMAIN attempts[c] : attempts[c][i].number <= k + 1
      /\ state[c] \in {"in_flight", "succeeded", "failed"} =>
            /\ \A i \in DOMAIN attempts[c] : attempts[c][i].number <= k
            /\ attempts[c][n].number = k
      /\ state[c] = "succeeded" => attempts[c][n].outcome = "2xx"
      /\ state[c] = "failed" => attempts[c][n].outcome = "failed"
  BY <1>0 DEF LastAnswers, LastAttempt
<1>2. /\ n \in Nat /\ k \in Nat /\ DOMAIN attempts[c] = 1 .. n
      /\ \A i \in 1 .. n : attempts[c][i].number \in Nat
  BY <1>0, AttemptFields DEF QueueTyped
<1>3. ASSUME SameNumbers(c)
      PROVE  /\ DOMAIN attempts'[c] = 1 .. n /\ Len(attempts'[c]) = n
             /\ \A i \in 1 .. n : attempts'[c][i].number = attempts[c][i].number
  <2>1. attempts'[c] \in Seq(Attempt)
    BY <1>3 DEF SameNumbers
  <2> QED
    BY <1>3, <2>1 DEF SameNumbers
<1>4. CASE Untouched(c) \/ Published(c)
  BY <1>1, <1>4 DEF Untouched, Published
<1>5. CASE Record(c)
  <2>1. /\ state'[c] = "pending" /\ attemptCount'[c] = k
        /\ Len(attempts'[c]) = n + 1 /\ attempts'[c] \in Seq(Attempt)
        /\ attempts'[c][n + 1].number = k + 1
        /\ \A i \in 1 .. n : attempts'[c][i] = attempts[c][i]
    BY <1>0, <1>5, RecordFacts DEF IsNext
  <2>2. DOMAIN attempts'[c] = 1 .. n + 1
    BY <2>1
  <2> HIDE DEF n, k
  <2>3. \A i \in 1 .. n + 1 : attempts'[c][i].number <= k + 1
    BY <1>1, <1>2, <2>1
  <2> QED
    BY <2>1, <2>2, <2>3
<1>6. CASE Start(c)
  <2>1. /\ state'[c] = "in_flight" /\ attemptCount'[c] = k + 1 /\ attempts'[c] = attempts[c]
        /\ attempts[c][n].number = k + 1
    BY <1>0, <1>6, StartFacts
  <2> HIDE DEF n, k
  <2>2. \A i \in 1 .. n : attempts[c][i].number <= (k + 1) + 1
    BY <1>1, <1>2
  <2> QED
    BY <1>1, <1>2, <2>1, <2>2 DEF n
<1>7. CASE Expire(c)
  <2>1. state[c] = "in_flight" /\ state'[c] = "in_flight" /\ attemptCount'[c] = k /\ SameNumbers(c)
    BY <1>0, <1>7, ExpireFacts
  <2>2. n # 0
    BY <1>0, <2>1, AttemptFields DEF AttemptedInOrder
  <2> HIDE DEF n, k
  <2> QED
    BY <1>1, <1>2, <1>3, <2>1, <2>2
<1>8. CASE Requeue(c)
  <2>1. state[c] = "in_flight" /\ state'[c] = "pending" /\ attempts' = attempts /\ attemptCount' = attemptCount
    BY <1>0, <1>8 DEF Requeue, QueueTyped
  <2> QED
    BY <1>1, <2>1
<1>9. CASE Succeed(c) \/ Retry(c) \/ Fail(c)
  <2>1. /\ state[c] = "in_flight" /\ attempts[c] # <<>> /\ attemptCount'[c] = k /\ SameNumbers(c)
        /\ state'[c] \in {"succeeded", "pending", "failed"}
        /\ state'[c] = "succeeded" => attempts'[c][n].outcome = "2xx"
        /\ state'[c] = "failed" => attempts'[c][n].outcome = "failed"
    BY <1>0, <1>9, ResolveFacts
  <2>2. n > 0
    BY <1>0, <2>1, AttemptFields
  <2>3. Len(attempts'[c]) = n /\ DOMAIN attempts'[c] = 1 .. n
    BY <1>3, <2>1
  <2>4. /\ state'[c] = "succeeded" => attempts'[c][Len(attempts'[c])].outcome = "2xx"
        /\ state'[c] = "failed" => attempts'[c][Len(attempts'[c])].outcome = "failed"
    BY <2>1, <2>3
  <2>5. /\ \A i \in 1 .. n : attempts[c][i].number <= k
        /\ attempts[c][n].number = k
    BY <1>1, <1>2, <2>1
  <2>6. \A i \in 1 .. n : attempts'[c][i].number = attempts[c][i].number
    BY <1>3, <2>1
  <2> HIDE DEF n, k
  <2>7. \A i \in 1 .. n : attempts'[c][i].number <= k /\ attempts'[c][i].number <= k + 1
    BY <1>2, <2>5, <2>6
  <2>8. attempts'[c][n].number = k
    BY <1>2, <2>2, <2>5, <2>6
  <2> QED
    BY <2>1, <2>3, <2>4, <2>7, <2>8
<1> QED
  BY <1>0, <1>4, <1>5, <1>6, <1>7, <1>8, <1>9, DeliveryStep DEF Deliver

(* A delivery that fails is the last of its stream to be resolved.          *)
LEMMA FailIsLast ==
    ASSUME QueueOK, QueueStep, NEW f \in Deliveries, Fail(f), NEW d \in Deliveries,
           SameStream(f, d), f < d
    PROVE  /\ ~Terminal(d) /\ attempts[d] = <<>>
           /\ ~Terminal(d)' /\ attempts'[d] = <<>>
<1>0. QueueTyped /\ AttemptedInOrder /\ AttemptedInOrder' /\ QueueTyped' /\ f \in Nat /\ d \in Nat
  BY QueueTypeNext, AttemptedNext, RowsAssumption DEF QueueOK
<1>1. state[f] = "in_flight"
  BY <1>0, ResolveFacts
<1>2. attempts[d] = <<>> /\ ~Terminal(d)
  BY <1>0, <1>1 DEF AttemptedInOrder, Terminal
<1>3. attempts'[d] = attempts[d]
  BY <1>0, ResolveFacts DEF SameNumbers
<1>4. ~Terminal(d)'
  BY <1>0, <1>2, <1>3 DEF AttemptedInOrder, Terminal
<1> QED
  BY <1>2, <1>3, <1>4

(* A halted endpoint has nothing in flight: what is resolved stays.         *)
LEMMA IdleStays ==
    ASSUME QueueOK, QueueStep, NEW c \in Deliveries, EndpointOf[c] \notin busy
    PROVE  /\ state[c] # "in_flight" /\ ~IsNext(c) /\ ~Deliver(c)
           /\ attempts'[c] = attempts[c]
           /\ Terminal(c)' = Terminal(c)
<1>0. QueueTyped /\ OneInFlight
  BY DEF QueueOK
<1>1. state[c] # "in_flight" /\ ~IsNext(c)
  BY <1>0 DEF OneInFlight, IsNext
<1>2. ~Deliver(c)
  <2>1. ~Record(c) /\ ~Start(c)
    BY <1>1 DEF Record, Start
  <2>2. Deliver(c) => state[c] = "in_flight"
    BY <1>0, <2>1, DeliverStates
  <2> QED
    BY <1>1, <2>2
<1>3. Untouched(c) \/ Published(c)
  BY <1>0, <1>2, DeliveryStep
<1> QED
  BY <1>1, <1>2, <1>3 DEF Untouched, Published, Terminal

LEMMA HaltedByLastNext ==
    ASSUME QueueOK, QueueStep PROVE HaltedByLast'
<1>0. QueueTyped /\ HaltedByLast /\ OneInFlight
  BY DEF QueueOK
<1> SUFFICES ASSUME NEW e \in Endpoints, status'[e] = "halted"
             PROVE  \E f \in On(e) :
                       /\ state'[f] = "failed"
                       /\ \A d \in Deliveries : SameStream(f, d) /\ f < d => ~Terminal(d)'
  BY DEF HaltedByLast, On, SameStream, Live
<1>1. CASE \E d \in On(e) : Fail(d)
  <2>1. PICK f \in On(e) : Fail(f)
    BY <1>1
  <2>2. f \in Deliveries
    BY DEF On
  <2>3. state'[f] = "failed"
    BY <1>0, <2>1, <2>2 DEF Fail, QueueTyped
  <2> QED
    BY <2>1, <2>2, <2>3, FailIsLast
<1>2. CASE status[e] = "halted"
  <2>1. PICK f \in On(e) :
           /\ state[f] = "failed"
           /\ \A d \in Deliveries : SameStream(f, d) /\ f < d => ~Terminal(d)
    BY <1>0, <1>2 DEF HaltedByLast
  <2>2. e \notin busy /\ f \in Deliveries /\ EndpointOf[f] = e
    BY <1>0, <1>2 DEF OneInFlight, On
  <2>3. state'[f] = "failed"
    BY <1>0, <2>1, <2>2, ResolvedStays DEF Terminal, Untouched
  <2>4. ASSUME NEW d \in Deliveries, SameStream(f, d), f < d PROVE ~Terminal(d)'
    <3>1. EndpointOf[d] \notin busy /\ ~Terminal(d)
      BY <2>1, <2>2, <2>4 DEF SameStream
    <3> QED
      BY <3>1, IdleStays
  <2> QED
    BY <2>3, <2>4
<1> QED
  BY <1>0, <1>1, <1>2, EndpointStep

LEMMA QueueNext ==
    ASSUME QueueOK, [ReadNext]_vars PROVE QueueOK'
<1>1. CASE QueueStep
  <2>1. QueueTyped' /\ AttemptedInOrder' /\ OneInFlight' /\ LastAnswers' /\ HaltedByLast'
    BY <1>1, QueueTypeNext, AttemptedNext, OneInFlightNext, LastAnswersNext, HaltedByLastNext
       DEF QueueOK
  <2> QED
    BY <2>1 DEF QueueOK
<1>2. CASE UNCHANGED queueVars
  BY <1>2 DEF QueueOK, QueueTyped, AttemptedInOrder, OneInFlight, LastAnswers, HaltedByLast,
              SameStream, Live, On, Terminal, LastAttempt
<1> QED
  BY <1>1, <1>2, WritesQueue

-----------------------------------------------------------------------------
(* The rows of a list, in its order.                                       *)

(* Precedes orders the rows strictly.                                       *)
Ordered(list, rows) ==
    /\ \A r \in rows : ~Precedes(list, r, r)
    /\ \A r1, r2 \in rows : r1 # r2 => Precedes(list, r1, r2) \/ Precedes(list, r2, r1)
    /\ \A r1, r2, r3 \in rows :
          Precedes(list, r1, r2) /\ Precedes(list, r2, r3) => Precedes(list, r1, r3)

LEMMA RowsOrdered ==
    ASSUME NEW list \in List
    PROVE  Ordered(list, RowsOf(list))
<1>1. CASE list.of = "events"
  <2>1. \A b \in LiveBatches : EventAt[b] \in Nat /\ EventId[b] \in Nat
    BY TimesAssumption
  <2>2. \A b1, b2 \in LiveBatches : EventId[b1] = EventId[b2] => b1 = b2
    BY TimesAssumption
  <2> QED
    BY <1>1, <2>1, <2>2 DEF Ordered, Precedes, RowsOf
<1>2. CASE list.of # "events"
  <2>1. \A d \in Deliveries : d \in Nat
    BY RowsAssumption
  <2>2. RowsOf(list) = Deliveries /\ \A r1, r2 : Precedes(list, r1, r2) <=> r1 < r2
    BY <1>2 DEF RowsOf, Precedes
  <2>3. \A r1, r2, r3 \in Deliveries :
           /\ ~(r1 < r1) /\ (r1 # r2 => r1 < r2 \/ r2 < r1)
           /\ (r1 < r2 /\ r2 < r3 => r1 < r3)
    BY <2>1
  <2> QED
    BY <2>2, <2>3 DEF Ordered
<1> QED
  BY <1>1, <1>2

LEMMA Numbered ==
    ASSUME NEW n \in Nat
    PROVE  IsFiniteSet(1 .. n) /\ Cardinality(1 .. n) = n
<1>1. IsFiniteSet(1 .. n) /\ Cardinality(1 .. n) = IF 1 > n THEN 0 ELSE n - 1 + 1
  BY FS_Interval
<1> QED
  BY <1>1

(* A finite set of rows can be sorted: each goes to its rank.               *)
LEMMA Sortable ==
    ASSUME NEW list, NEW rows, IsFiniteSet(rows), Ordered(list, rows)
    PROVE  \E s \in SetToSeqs(rows) :
              \A i, j \in DOMAIN s : i < j => Precedes(list, s[i], s[j])
<1> DEFINE Upto(r) == {x \in rows : x = r \/ Precedes(list, x, r)}
           rank == [r \in rows |-> Cardinality(Upto(r))]
           n == Cardinality(rows)
           D == 1 .. n
<1>1. n \in Nat
  BY FS_CardinalityType
<1>2. ASSUME NEW r \in rows
      PROVE  Upto(r) \in SUBSET rows /\ IsFiniteSet(Upto(r)) /\ rank[r] \in D
  <2>1. Upto(r) \in SUBSET rows
    OBVIOUS
  <2>2. IsFiniteSet(Upto(r)) /\ Cardinality(Upto(r)) <= n
    BY <2>1, FS_Subset
  <2>3. r \in Upto(r)
    OBVIOUS
  <2>4. Cardinality(Upto(r)) # 0 /\ Cardinality(Upto(r)) \in Nat
    BY <2>2, <2>3, FS_EmptySet, FS_CardinalityType
  <2>5. Cardinality(Upto(r)) \in D
    BY <1>1, <2>2, <2>4
  <2> QED
    BY <2>1, <2>2, <2>5
<1>3. ASSUME NEW r1 \in rows, NEW r2 \in rows, Precedes(list, r1, r2)
      PROVE  rank[r1] < rank[r2]
  <2>1. Upto(r1) \in SUBSET Upto(r2)
    BY <1>3 DEF Ordered
  <2>2. r2 \in Upto(r2) /\ r2 \notin Upto(r1)
    BY <1>3 DEF Ordered
  <2>3. Cardinality(Upto(r1)) <= Cardinality(Upto(r2))
    BY <1>2, <2>1, FS_Subset
  <2>4. Cardinality(Upto(r1)) # Cardinality(Upto(r2))
    BY <1>2, <2>1, <2>2, FS_Subset
  <2>5. rank[r1] = Cardinality(Upto(r1)) /\ rank[r2] = Cardinality(Upto(r2))
    OBVIOUS
  <2>6. rank[r1] \in Nat /\ rank[r2] \in Nat
    BY <1>1, <1>2
  <2> HIDE DEF rank, Upto
  <2> QED
    BY <2>3, <2>4, <2>5, <2>6
<1>4. rank \in [rows -> D]
  BY <1>2
<1> HIDE DEF rank
<1>5. \A r1, r2 \in rows : r1 # r2 => rank[r1] # rank[r2]
  <2> SUFFICES ASSUME NEW r1 \in rows, NEW r2 \in rows, r1 # r2 PROVE rank[r1] # rank[r2]
    OBVIOUS
  <2>1. Precedes(list, r1, r2) \/ Precedes(list, r2, r1)
    BY DEF Ordered
  <2>2. rank[r1] \in Nat /\ rank[r2] \in Nat
    BY <1>1, <1>4
  <2> QED
    BY <1>3, <2>1, <2>2
<1>6. rank \in Injection(rows, D)
  BY <1>4, <1>5 DEF Injection, IsInjective
<1>7. IsFiniteSet(D) /\ Cardinality(D) = n
  BY <1>1, Numbered
<1>8. rank \in Surjection(rows, D)
  BY <1>6, <1>7, FS_Injection
<1>9. \A i \in D : \E r \in rows : rank[r] = i
  BY <1>8 DEF Surjection
<1> DEFINE s == [i \in D |-> CHOOSE r \in rows : rank[r] = i]
<1>10. \A i \in D : s[i] \in rows /\ rank[s[i]] = i
  BY <1>9
<1>11. s \in SetToSeqs(rows) /\ DOMAIN s = D
  <2>1. s \in [D -> rows] /\ DOMAIN s = D
    BY <1>10
  <2>2. \A i, j \in D : i # j => s[i] # s[j]
    BY <1>10
  <2> HIDE DEF s
  <2> QED
    BY <2>1, <2>2 DEF SetToSeqs
<1>12. ASSUME NEW i \in D, NEW j \in D, i < j PROVE Precedes(list, s[i], s[j])
  <2>1. s[i] \in rows /\ s[j] \in rows /\ rank[s[i]] = i /\ rank[s[j]] = j
    BY <1>10
  <2> HIDE DEF s
  <2>2. ~(s[i] = s[j]) /\ ~Precedes(list, s[j], s[i])
    BY <1>1, <1>3, <1>12, <2>1
  <2> QED
    BY <2>1, <2>2 DEF Ordered
<1> HIDE DEF s
<1> QED
  BY <1>11, <1>12

LEMMA OrderByFacts ==
    ASSUME NEW list, NEW rows, IsFiniteSet(rows), Ordered(list, rows)
    PROVE  LET s == OrderBy(list, rows) IN
           /\ s \in Seq(rows) /\ Len(s) = Cardinality(rows) /\ ToSet(s) = rows
           /\ \A i, j \in 1 .. Len(s) : i < j => Precedes(list, s[i], s[j])
<1> DEFINE s == OrderBy(list, rows)
           n == Cardinality(rows)
<1>1. s \in SetToSeqs(rows) /\ \A i, j \in DOMAIN s : i < j => Precedes(list, s[i], s[j])
  BY Sortable DEF OrderBy
<1>2. n \in Nat
  BY FS_CardinalityType
<1> HIDE DEF s
<1>3. s \in [1 .. n -> rows] /\ \A i, j \in 1 .. n : i # j => s[i] # s[j]
  BY <1>1 DEF SetToSeqs
<1>4. s \in Seq(rows) /\ Len(s) = n
  BY <1>2, <1>3
<1>5. s \in Injection(1 .. n, rows)
  BY <1>3 DEF Injection, IsInjective
<1>6. IsFiniteSet(1 .. n) /\ Cardinality(1 .. n) = n
  BY <1>2, Numbered
<1>7. s \in Surjection(1 .. n, rows)
  BY <1>5, <1>6, FS_Injection
<1>8. ToSet(s) = rows
  BY <1>3, <1>7 DEF Surjection, ToSet
<1> QED
  BY <1>1, <1>3, <1>4, <1>8 DEF s

(* Milliseconds.                                                            *)
LEMMA Floor ==
    ASSUME NEW t \in Nat
    PROVE  toISOString(t) \in Int /\ toISOString(t) <= t
<1> DEFINE m == Millisecond
<1>1. m \in Nat /\ m > 0
  BY TimesAssumption
<1> HIDE DEF m
<1>2. t \div m \in Int /\ (t \div m) * m <= t
  BY <1>1
<1>3. (t \div m) * m \in Int
  BY <1>1, <1>2
<1> QED
  BY <1>2, <1>3 DEF toISOString, m

LEMMA SameFloor ==
    ASSUME NEW t \in Nat, NEW t0 \in Nat, t <= t0, toISOString(t0) <= t
    PROVE  t \div Millisecond = t0 \div Millisecond
<1> DEFINE m == Millisecond
<1>1. m \in Nat /\ m > 0
  BY TimesAssumption
<1>2. (t0 \div m) * m <= t
  BY DEF toISOString
<1> HIDE DEF m
<1>3. t \div m = t0 \div m
  BY <1>1, <1>2, SMTT(30)
<1> QED
  BY <1>3 DEF m

(* What the cursor of a row leaves to come is what comes after the row, but *)
(* for events of its millisecond.                                           *)
LEMMA CursorFacts ==
    ASSUME NEW list \in List, NEW r \in RowsOf(list), NEW r0 \in RowsOf(list)
    PROVE  /\ Beyond(list, r, r0) => Precedes(list, r0, r)
           /\ Precedes(list, r0, r) =>
                 Beyond(list, r, r0) \/ (list.of = "events" /\ SameMillisecond(r, r0))
<1>1. CASE list.of = "events"
  <2> DEFINE t == EventAt[r]
             t0 == EventAt[r0]
             at == toISOString(t0)
  <2>1. t \in Nat /\ t0 \in Nat /\ EventId[r] \in Nat /\ EventId[r0] \in Nat
    BY <1>1, TimesAssumption DEF RowsOf
  <2>2. at \in Int /\ at <= t0
    BY <2>1, Floor
  <2>3. t <= t0 /\ at <= t => SameMillisecond(r, r0)
    BY <2>1, SameFloor DEF SameMillisecond
  <2>4. /\ Beyond(list, r, r0) <=> (t < at \/ (t = at /\ EventId[r] < EventId[r0]))
        /\ Precedes(list, r0, r) <=> (t0 > t \/ (t0 = t /\ EventId[r0] > EventId[r]))
    BY <1>1 DEF Beyond, Precedes
  <2> HIDE DEF t, t0, at
  <2>5. Beyond(list, r, r0) => Precedes(list, r0, r)
    BY <2>1, <2>2, <2>4
  <2>6. Precedes(list, r0, r) => Beyond(list, r, r0) \/ SameMillisecond(r, r0)
    BY <2>1, <2>2, <2>3, <2>4
  <2> QED
    BY <1>1, <2>5, <2>6
<1>2. CASE list.of # "events"
  <2>1. r \in Nat /\ r0 \in Nat
    BY <1>2, RowsAssumption DEF RowsOf
  <2>2. (Beyond(list, r, r0) <=> r > r0) /\ (Precedes(list, r0, r) <=> r0 < r)
    BY <1>2 DEF Beyond, Precedes
  <2> QED
    BY <2>1, <2>2
<1> QED
  BY <1>1, <1>2

LEMMA RowsFacts ==
    ASSUME NEW list \in List
    PROVE  Rows(list) \subseteq RowsOf(list) /\ IsFiniteSet(Rows(list))
<1>0. IsFiniteSet(Deliveries) /\ EventOf \in [Deliveries -> LiveBatches]
  BY RowsAssumption, TimesAssumption
<1>1. CASE list.of = "queue"
  <2>1. Rows(list) = Visible(list.ep) /\ RowsOf(list) = Deliveries
    BY <1>1 DEF Rows, RowsOf
  <2>2. Visible(list.ep) \in SUBSET Deliveries
    BY DEF Visible, On
  <2> QED
    BY <1>0, <2>1, <2>2, FS_Subset
<1>2. CASE list.of = "fanout"
  <2>1. Rows(list) = Fanout(list.event) /\ RowsOf(list) = Deliveries
    BY <1>2 DEF Rows, RowsOf
  <2>2. Fanout(list.event) \in SUBSET Deliveries
    BY DEF Fanout
  <2> QED
    BY <1>0, <2>1, <2>2, FS_Subset
<1>3. CASE list.of = "events"
  <2> DEFINE V == Visible(list.ep)
             E == {EventOf[d] : d \in V}
             f == [d \in V |-> EventOf[d]]
  <2>1. Rows(list) = E /\ RowsOf(list) = LiveBatches
    BY <1>3 DEF Rows, RowsOf
  <2>2. V \in SUBSET Deliveries
    BY DEF Visible, On
  <2>3. IsFiniteSet(V)
    BY <1>0, <2>2, FS_Subset
  <2>4. E \subseteq LiveBatches
    BY <1>0, <2>2
  <2>5. f \in Surjection(V, E)
    BY DEF Surjection
  <2> HIDE DEF f, V, E
  <2>6. IsFiniteSet(E)
    BY <2>3, <2>5, FS_Surjection
  <2> QED
    BY <2>1, <2>4, <2>6
<1>4. list.of \in {"queue", "fanout", "events"}
  BY DEF List, Lists
<1> QED
  BY <1>1, <1>2, <1>3, <1>4

(* What was put into a list stays there.                                    *)
LEMMA RowsGrow ==
    ASSUME QueueTyped, QueueStep \/ UNCHANGED queueVars, NEW list \in List
    PROVE  Rows(list) \subseteq Rows(list)'
<1>1. \A d \in Deliveries : state[d] # "absent" => state'[d] # "absent"
  BY ResolvedStays
<1>2. CASE list.of = "queue"
  BY <1>1, <1>2 DEF Rows, Visible, On
<1>3. CASE list.of = "fanout"
  BY <1>1, <1>3 DEF Rows, Fanout
<1>4. CASE list.of = "events"
  <2>1. Visible(list.ep) \subseteq Visible(list.ep)'
    BY <1>1 DEF Visible, On
  <2>2. Rows(list) = {EventOf[d] : d \in Visible(list.ep)}
    BY <1>4 DEF Rows
  <2>3. Rows(list)' = {EventOf[d] : d \in Visible(list.ep)'}
    BY <1>4 DEF Rows
  <2> QED
    BY <2>1, <2>2, <2>3
<1>5. list.of \in {"queue", "fanout", "events"}
  BY DEF List, Lists
<1> QED
  BY <1>2, <1>3, <1>4, <1>5

-----------------------------------------------------------------------------
(* A page.                                                                 *)

Left  == {r \in Rows(call.list) : call.after = None \/ Beyond(call.list, r, call.after)}
Found == OrderBy(call.list, Left)
Page  == IF Len(Found) > call.limit THEN SubSeq(Found, 1, call.limit) ELSE Found
Shown == call.seen \o Page

Sorted(list, s) == \A i, j \in 1 .. Len(s) : i < j => Precedes(list, s[i], s[j])

LEMMA ListFields ==
    ASSUME NEW c \in ListCall
    PROVE  /\ c.op = "list" /\ c.list \in List /\ c.limit \in Nat /\ c.after \in Row \cup {None}
           /\ c.seen \in Seq(Row) /\ c.atStart \in SUBSET Row
  BY DEF ListCall

LEMMA ListCalls ==
    ASSUME ReadTypeOK, Listing(call)
    PROVE  call \in ListCall
<1>1. call # None /\ call.op = "list"
  BY DEF Listing
<1>2. \A c \in ResumeCall \cup DetailCall : c.op # "list"
  BY DEF ResumeCall, DetailCall
<1> QED
  BY <1>1, <1>2 DEF ReadTypeOK

LEMMA FoundFacts ==
    ASSUME call \in ListCall
    PROVE  /\ Left \subseteq RowsOf(call.list)
           /\ Found \in Seq(Left) /\ ToSet(Found) = Left
           /\ Sorted(call.list, Found)
<1> DEFINE list == call.list
<1>1. list \in List
  BY ListFields
<1>2. Left \in SUBSET Rows(list) /\ Rows(list) \subseteq RowsOf(list) /\ IsFiniteSet(Rows(list))
  BY <1>1, RowsFacts DEF Left
<1>3. IsFiniteSet(Left)
  BY <1>2, FS_Subset
<1>4. Ordered(list, RowsOf(list))
  BY <1>1, RowsOrdered
<1>5. Ordered(list, Left)
  BY <1>2, <1>4 DEF Ordered
<1> QED
  BY <1>2, <1>3, <1>5, OrderByFacts DEF Found, Sorted

LEMMA PageFacts ==
    ASSUME call \in ListCall
    PROVE  /\ Page \in Seq(Left) /\ Sorted(call.list, Page)
           /\ Len(Page) <= Len(Found)
           /\ \A k \in 1 .. Len(Page) : Page[k] = Found[k]
           /\ Len(Found) <= call.limit => Page = Found
           /\ Len(Found) > call.limit => Len(Page) = call.limit
<1>1. Found \in Seq(Left) /\ Sorted(call.list, Found) /\ call.limit \in Nat
  BY FoundFacts, ListFields
<1>2. /\ Page \in Seq(Left) /\ Len(Page) <= Len(Found)
      /\ \A k \in 1 .. Len(Page) : Page[k] = Found[k]
      /\ Len(Found) <= call.limit => Page = Found
      /\ Len(Found) > call.limit => Len(Page) = call.limit
  BY <1>1 DEF Page
<1>3. Sorted(call.list, Page)
  BY <1>1, <1>2 DEF Sorted
<1> QED
  BY <1>2, <1>3

LEMMA ShownFacts ==
    ASSUME call \in ListCall, ListHolds, InOrderOnce
    PROVE  /\ Shown \in Seq(RowsOf(call.list)) /\ Sorted(call.list, Shown)
           /\ ToSet(Shown) = ToSet(call.seen) \cup ToSet(Page)
           /\ Page # <<>> => Shown # <<>> /\ Shown[Len(Shown)] = Page[Len(Page)]
<1> DEFINE list == call.list
           seen == call.seen
<1>1. /\ list \in List /\ seen \in Seq(Row) /\ call.after \in Row \cup {None} /\ Listing(call)
      /\ None \notin Row
  <2>1. call # None /\ None \notin Row
    BY CallsAssumption, NoneAssumption DEF Row
  <2> QED
    BY <2>1, ListFields DEF Listing
<1>2. /\ ToSet(seen) \subseteq RowsOf(list)
      /\ call.after = None => seen = <<>>
      /\ call.after # None => seen # <<>> /\ call.after = seen[Len(seen)]
  BY <1>1 DEF ListHolds
<1>3. Sorted(list, seen)
  <2>1. DOMAIN seen = 1 .. Len(seen)
    BY <1>1
  <2> QED
    BY <1>1, <2>1 DEF InOrderOnce, Sorted
<1>4. seen \in Seq(RowsOf(list))
  BY <1>1, <1>2 DEF ToSet
<1>5. /\ Page \in Seq(Left) /\ Sorted(list, Page) /\ Left \subseteq RowsOf(list)
  BY PageFacts, FoundFacts
<1>6. Page \in Seq(RowsOf(list))
  BY <1>5
<1>7. ASSUME NEW i \in 1 .. Len(seen), NEW j \in 1 .. Len(Page)
      PROVE  Precedes(list, seen[i], Page[j])
  <2>1. seen # <<>> /\ Page[j] \in Left /\ Page[j] \in RowsOf(list) /\ seen[i] \in RowsOf(list)
    BY <1>4, <1>5
  <2>2. /\ call.after # None /\ call.after = seen[Len(seen)] /\ Len(seen) \in 1 .. Len(seen)
        /\ call.after \in RowsOf(list)
    BY <1>2, <1>4, <2>1
  <2>3. Precedes(list, call.after, Page[j])
    BY <1>1, <2>1, <2>2, CursorFacts DEF Left
  <2>4. seen[i] = call.after \/ Precedes(list, seen[i], call.after)
    BY <1>3, <1>4, <2>2 DEF Sorted
  <2>5. Ordered(list, RowsOf(list))
    BY <1>1, RowsOrdered
  <2> QED
    BY <2>1, <2>2, <2>3, <2>4, <2>5 DEF Ordered
<1> HIDE DEF seen, list
<1>8. Shown \in Seq(RowsOf(list)) /\ Sorted(list, Shown)
  <2>1. /\ seen \o Page \in Seq(RowsOf(list)) /\ Len(seen \o Page) = Len(seen) + Len(Page)
        /\ \A i \in 1 .. Len(seen) : (seen \o Page)[i] = seen[i]
        /\ \A i \in 1 .. Len(Page) : (seen \o Page)[Len(seen) + i] = Page[i]
        /\ Len(seen) \in Nat /\ Len(Page) \in Nat
    BY <1>4, <1>6
  <2>2. ASSUME NEW i \in 1 .. Len(seen) + Len(Page), NEW j \in 1 .. Len(seen) + Len(Page), i < j
        PROVE  Precedes(list, (seen \o Page)[i], (seen \o Page)[j])
    <3>1. CASE j <= Len(seen)
      BY <1>3, <2>1, <2>2, <3>1 DEF Sorted
    <3>2. CASE i <= Len(seen) /\ j > Len(seen)
      <4>1. PICK k \in 1 .. Len(Page) : j = Len(seen) + k
        <5>1. j - Len(seen) \in 1 .. Len(Page) /\ j = Len(seen) + (j - Len(seen))
          BY <2>1, <3>2
        <5> QED
          BY <5>1
      <4> QED
        BY <1>7, <2>1, <3>2, <4>1
    <3>3. CASE i > Len(seen)
      <4>1. PICK k \in 1 .. Len(Page) : j = Len(seen) + k
        <5>1. j - Len(seen) \in 1 .. Len(Page) /\ j = Len(seen) + (j - Len(seen))
          BY <2>1, <2>2, <3>3
        <5> QED
          BY <5>1
      <4>2. PICK l \in 1 .. Len(Page) : i = Len(seen) + l
        <5>1. i - Len(seen) \in 1 .. Len(Page) /\ i = Len(seen) + (i - Len(seen))
          BY <2>1, <2>2, <3>3
        <5> QED
          BY <5>1
      <4>3. l < k
        BY <2>1, <2>2, <4>1, <4>2
      <4> QED
        BY <1>5, <2>1, <4>1, <4>2, <4>3 DEF Sorted
    <3> QED
      BY <2>1, <3>1, <3>2, <3>3
  <2> QED
    BY <2>1, <2>2 DEF Shown, Sorted, seen
<1>9. ToSet(Shown) = ToSet(seen) \cup ToSet(Page)
  <2>1. /\ Len(seen) \in Nat /\ Len(Page) \in Nat /\ Len(Shown) = Len(seen) + Len(Page)
        /\ \A i \in 1 .. Len(seen) : Shown[i] = seen[i]
        /\ \A i \in 1 .. Len(Page) : Shown[Len(seen) + i] = Page[i]
        /\ DOMAIN Shown = 1 .. Len(Shown) /\ DOMAIN seen = 1 .. Len(seen)
        /\ DOMAIN Page = 1 .. Len(Page)
    BY <1>4, <1>6, <1>8 DEF Shown, seen
  <2>2. /\ ToSet(Shown) = {Shown[i] : i \in 1 .. Len(Shown)}
        /\ ToSet(seen) = {seen[i] : i \in 1 .. Len(seen)}
        /\ ToSet(Page) = {Page[i] : i \in 1 .. Len(Page)}
    BY <2>1 DEF ToSet
  <2>3. ASSUME NEW i \in 1 .. Len(Shown)
        PROVE  Shown[i] \in ToSet(seen) \cup ToSet(Page)
    <3>1. CASE i <= Len(seen)
      BY <2>1, <2>2, <3>1
    <3>2. CASE i > Len(seen)
      <4>1. i - Len(seen) \in 1 .. Len(Page) /\ i = Len(seen) + (i - Len(seen))
        BY <2>1, <3>2
      <4>2. Shown[i] = Page[i - Len(seen)]
        BY <2>1, <4>1
      <4> QED
        BY <2>2, <4>1, <4>2
    <3> QED
      BY <2>1, <3>1, <3>2
  <2>4. ToSet(seen) \subseteq ToSet(Shown)
    <3>1. \A i \in 1 .. Len(seen) : i \in 1 .. Len(Shown)
      BY <2>1
    <3> QED
      BY <2>1, <2>2, <3>1
  <2>5. ToSet(Page) \subseteq ToSet(Shown)
    <3>1. \A i \in 1 .. Len(Page) : Len(seen) + i \in 1 .. Len(Shown)
      BY <2>1
    <3> QED
      BY <2>1, <2>2, <3>1
  <2> QED
    BY <2>2, <2>3, <2>4, <2>5
<1>10. Page # <<>> => Shown # <<>> /\ Shown[Len(Shown)] = Page[Len(Page)]
  BY <1>4, <1>6 DEF Shown, seen
<1> QED
  BY <1>8, <1>9, <1>10 DEF seen, list

(* What was there at the start and has not been shown is still to come, or  *)
(* is an event of the millisecond of one shown.                             *)
LEMMA Remaining ==
    ASSUME call \in ListCall, ListHolds, InOrderOnce, NEW r \in call.atStart \ ToSet(Shown)
    PROVE  \/ call.list.of = "events" /\ \E s \in ToSet(Shown) : SameMillisecond(r, s)
           \/ /\ Len(Found) > call.limit
              /\ Page # <<>> => Beyond(call.list, r, Found[call.limit])
<1> DEFINE list == call.list
<1>1. /\ list \in List /\ call.limit \in Nat /\ Listing(call)
      /\ call.after # None => call.after \in Row
  <2>1. call # None
    BY CallsAssumption
  <2> QED
    BY <2>1, ListFields DEF Listing
<1>2. /\ call.atStart \subseteq Rows(list)
      /\ \A x \in call.atStart \ ToSet(call.seen) :
            \/ call.after = None \/ Beyond(list, x, call.after)
            \/ list.of = "events" /\ \E s \in ToSet(call.seen) : SameMillisecond(x, s)
  BY <1>1 DEF ListHolds
<1>3. ToSet(Shown) = ToSet(call.seen) \cup ToSet(Page)
  BY ShownFacts
<1>4. CASE list.of = "events" /\ \E s \in ToSet(call.seen) : SameMillisecond(r, s)
  BY <1>3, <1>4
<1>5. CASE call.after = None \/ Beyond(list, r, call.after)
  <2>1. r \in Left
    BY <1>2, <1>5 DEF Left
  <2>2. r \notin ToSet(Page) /\ r \in ToSet(Found) /\ Found \in Seq(Left) /\ Sorted(list, Found)
        /\ Left \subseteq RowsOf(list)
    BY <1>3, <2>1, FoundFacts
  <2>3. /\ Page \in Seq(Left) /\ Len(Page) <= Len(Found)
        /\ \A k \in 1 .. Len(Page) : Page[k] = Found[k]
        /\ Len(Found) <= call.limit => Page = Found
        /\ Len(Found) > call.limit => Len(Page) = call.limit
    BY PageFacts
  <2>4. Len(Found) > call.limit
    BY <1>1, <2>2, <2>3
  <2>5. ASSUME Page # <<>>
        PROVE  \/ Beyond(list, r, Found[call.limit])
               \/ list.of = "events" /\ \E s \in ToSet(Shown) : SameMillisecond(r, s)
    <3>1. /\ DOMAIN Found = 1 .. Len(Found) /\ DOMAIN Page = 1 .. Len(Page)
          /\ Len(Found) \in Nat /\ Len(Page) \in Nat
      BY <2>2, <2>3
    <3>2. PICK k \in 1 .. Len(Found) : r = Found[k]
      BY <2>2, <3>1 DEF ToSet
    <3>3. k > Len(Page)
      <4>1. \A i \in 1 .. Len(Page) : Page[i] # r
        BY <2>2, <3>1 DEF ToSet
      <4> QED
        BY <2>3, <3>1, <3>2, <4>1
    <3>4. call.limit \in 1 .. Len(Page) /\ call.limit \in 1 .. Len(Found) /\ call.limit < k
      BY <1>1, <2>3, <2>4, <2>5, <3>1, <3>3
    <3>5. Found[call.limit] \in RowsOf(list) /\ r \in RowsOf(list)
          /\ Precedes(list, Found[call.limit], r)
      BY <2>1, <2>2, <3>2, <3>4 DEF Sorted
    <3>6. Found[call.limit] \in ToSet(Shown)
      BY <1>3, <2>3, <3>1, <3>4 DEF ToSet
    <3> QED
      BY <1>1, <3>5, <3>6, CursorFacts
  <2> QED
    BY <2>4, <2>5
<1> QED
  BY <1>2, <1>3, <1>4, <1>5

(* The lists' part of the invariant.                                        *)
ListsOK == ListHolds /\ InOrderOnce /\ MissesOnlyTies

LEMMA PageNext ==
    ASSUME ReadTypeOK, ListsOK, ReadPage
    PROVE  ListsOK' /\ call' \in ListCall \cup {None}
<1> DEFINE list == call.list
           limit == call.limit
           more == Len(Found) > limit
<1>1. /\ Listing(call) /\ UNCHANGED queueVars
      /\ IF more /\ Page # <<>>
         THEN /\ call' = [call EXCEPT !.after = NextCursor(Found, limit), !.seen = Shown]
              /\ reply' = None
         ELSE /\ reply' = [op |-> "list", list |-> list, limit |-> limit, seen |-> Shown,
                           atStart |-> call.atStart]
              /\ call' = None
  BY DEF ReadPage, Listing, Left, Found, Page, Shown
<1>2. call \in ListCall
  BY <1>1, ListCalls
<1>3. list \in List /\ limit \in Nat /\ call.atStart \in SUBSET Row
  BY <1>2, ListFields
<1>4. /\ Shown \in Seq(RowsOf(list)) /\ Sorted(list, Shown)
      /\ Page # <<>> => Shown # <<>> /\ Shown[Len(Shown)] = Page[Len(Page)]
  BY <1>2, ShownFacts DEF ListsOK
<1>5. /\ Page \in Seq(Left) /\ \A k \in 1 .. Len(Page) : Page[k] = Found[k]
      /\ Len(Found) <= limit => Page = Found
      /\ more => Len(Page) = limit
  BY <1>2, PageFacts
<1>6. \A r \in call.atStart \ ToSet(Shown) :
         \/ list.of = "events" /\ \E s \in ToSet(Shown) : SameMillisecond(r, s)
         \/ more /\ (Page # <<>> => Beyond(list, r, Found[limit]))
  BY <1>2, Remaining DEF ListsOK
<1>7. RowsOf(list) \subseteq Row /\ Left \subseteq RowsOf(list)
  BY <1>2, FoundFacts DEF Row, RowsOf
<1>8. DOMAIN Shown = 1 .. Len(Shown) /\ Shown \in Seq(Row)
      /\ ToSet(Shown) \subseteq RowsOf(list)
  BY <1>4, <1>7 DEF ToSet
<1>9. call.atStart \subseteq Rows(list)
  BY <1>1 DEF ListsOK, ListHolds
<1>10. CASE more /\ Page # <<>>
  <2> DEFINE a == Found[limit]
             c1 == [call EXCEPT !.after = a, !.seen = Shown]
  <2>1. call' = c1 /\ reply' = None
    BY <1>1, <1>10 DEF NextCursor
  <2>2. limit \in 1 .. Len(Page) /\ a = Page[Len(Page)] /\ a \in Left
    BY <1>3, <1>5, <1>10
  <2>3. a \in Row
    BY <1>7, <2>2
  <2>4. /\ c1 \in ListCall /\ c1.list = list /\ c1.after = a /\ c1.seen = Shown
        /\ c1.atStart = call.atStart
    <3>1. Shown \in Seq(Row)
      BY <1>8
    <3> HIDE DEF a
    <3> QED
      BY <1>2, <3>1, <2>3 DEF ListCall
  <2>5. a # None
    BY <2>3, NoneAssumption DEF Row
  <2> HIDE DEF c1, a, list, limit, more
  <2>7. ListHolds'
    <3>1. \A r \in call.atStart \ ToSet(Shown) :
             \/ Beyond(list, r, a)
             \/ list.of = "events" /\ \E s \in ToSet(Shown) : SameMillisecond(r, s)
      BY <1>6, <1>10 DEF a
    <3>2. Shown # <<>> /\ a = Shown[Len(Shown)]
      BY <1>4, <1>10, <2>2
    <3>3. /\ call'.list = list /\ call'.after = a /\ call'.seen = Shown
          /\ call'.atStart = call.atStart
      BY <2>1, <2>4
    <3>4. call'.atStart \subseteq Rows(call.list)' /\ ToSet(Shown) \subseteq RowsOf(list)
      <4>1. call'.list = call.list
        BY <3>3 DEF list
      <4>2. Rows(call.list)' = Rows(call.list)
        BY <1>1, <4>1 DEF Rows, Visible, Fanout, On
      <4> QED
        BY <1>8, <1>9, <3>3, <4>2 DEF list
    <3> QED
      BY <2>5, <3>1, <3>2, <3>3, <3>4 DEF ListHolds, RowsOf, Beyond, SameMillisecond
  <2>8. InOrderOnce'
    <3>1. call'.list = list /\ call'.seen = Shown /\ reply' = None
      BY <2>1, <2>4
    <3> QED
      BY <1>4, <1>8, <3>1 DEF InOrderOnce, Listing, Sorted, Precedes
  <2>9. MissesOnlyTies'
    BY <2>1 DEF MissesOnlyTies, Listing
  <2> QED
    BY <2>1, <2>4, <2>7, <2>8, <2>9 DEF ListsOK
<1>11. CASE ~(more /\ Page # <<>>)
  <2>1. /\ call' = None
        /\ reply' = [op |-> "list", list |-> list, limit |-> limit, seen |-> Shown,
                     atStart |-> call.atStart]
    BY <1>1, <1>11
  <2>2. /\ reply'.list = list /\ reply'.limit = limit /\ reply'.seen = Shown
        /\ reply'.atStart = call.atStart
    BY <2>1
  <2>3. ListHolds'
    BY <2>1 DEF ListHolds, Listing
  <2>4. InOrderOnce'
    BY <1>4, <1>8, <2>1, <2>2 DEF InOrderOnce, Listing, Sorted, Precedes
  <2>5. limit > 0 => ~more
    BY <1>3, <1>5, <1>11
  <2> HIDE DEF list, limit, more
  <2>6. \A r \in call.atStart \ ToSet(Shown) : limit > 0 =>
           list.of = "events" /\ \E s \in ToSet(Shown) : SameMillisecond(r, s)
    BY <1>6, <2>5
  <2>7. MissesOnlyTies'
    <3>1. Missed' = call.atStart \ ToSet(Shown)
      BY <2>2 DEF Missed
    <3> QED
      BY <2>2, <2>6, <3>1 DEF MissesOnlyTies, SameMillisecond
  <2> QED
    BY <2>1, <2>3, <2>4, <2>7 DEF ListsOK
<1> QED
  BY <1>10, <1>11

(* A new list has everything still to come.                                 *)
LEMMA BeginNext ==
    ASSUME QueueTyped, NEW list \in List, NEW limit \in Nat, BeginList(list, limit)
    PROVE  ListsOK' /\ call' \in ListCall
<1>1. /\ call' = [op |-> "list", list |-> list, limit |-> limit, after |-> None,
                  seen |-> <<>>, atStart |-> Rows(list)]
      /\ reply' = None /\ UNCHANGED queueVars
  BY DEF BeginList
<1>2. Rows(list) \subseteq Row
  BY RowsFacts DEF RowsOf, Row
<1>3. call' \in ListCall
  BY <1>1, <1>2 DEF ListCall
<1>4. /\ call'.list = list /\ call'.after = None /\ call'.seen = <<>>
      /\ call'.atStart = Rows(list)
  BY <1>1
<1>5. ListHolds'
  <2>1. Rows(call.list)' = Rows(list)
    BY <1>1, <1>4 DEF Rows, Visible, Fanout, On
  <2>2. ToSet(call'.seen) = {}
    BY <1>4 DEF ToSet
  <2> QED
    BY <1>4, <2>1, <2>2 DEF ListHolds
<1>6. InOrderOnce'
  BY <1>1, <1>4 DEF InOrderOnce, Listing
<1>7. MissesOnlyTies'
  BY <1>1 DEF MissesOnlyTies, Listing
<1> QED
  BY <1>3, <1>5, <1>6, <1>7 DEF ListsOK

(* Nothing else touches a list, and the tables only grow.                   *)
LEMMA ListsKept ==
    ASSUME ReadTypeOK, ListsOK, QueueStep \/ UNCHANGED queueVars,
           call' = call \/ call' = None \/ call'.op # "list",
           reply' = reply \/ reply' = None \/ reply'.op # "list"
    PROVE  ListsOK'
<1>0. QueueTyped
  BY DEF ReadTypeOK, QueueTyped
<1>1. /\ Listing(call') => call' = call
      /\ Listing(reply') => reply' = reply
  BY DEF Listing
<1>2. CASE Listing(call')
  <2>1. call' = call /\ Listing(call) /\ call \in ListCall
    BY <1>1, <1>2, ListCalls
  <2>2. call.list \in List
    BY <2>1, ListFields
  <2>3. \A list \in List : Rows(list) \subseteq Rows(list)'
    BY <1>0, RowsGrow
  <2>4. Rows(call.list) \subseteq Rows(call.list)'
    <3>1. PICK list \in List : list = call.list
      BY <2>2
    <3>2. Rows(list) \subseteq Rows(list)'
      BY <2>3
    <3>3. Rows(call.list)' = Rows(list)'
      BY <2>1, <3>1 DEF Rows
    <3> QED
      BY <3>1, <3>2, <3>3
  <2>5. ListHolds'
    <3>1. call'.atStart \subseteq Rows(call.list)'
      BY <2>1, <2>4 DEF ListsOK, ListHolds
    <3> QED
      BY <2>1, <3>1 DEF ListsOK, ListHolds, Beyond, RowsOf, SameMillisecond
  <2>6. InOrderOnce'
    BY <1>1, <2>1 DEF ListsOK, InOrderOnce, Listing, Precedes
  <2>7. MissesOnlyTies'
    BY <1>1 DEF ListsOK, MissesOnlyTies, Listing, Missed
  <2> QED
    BY <2>5, <2>6, <2>7 DEF ListsOK
<1>3. CASE ~Listing(call')
  <2>1. ListHolds'
    BY <1>3 DEF ListHolds, Listing
  <2>2. InOrderOnce'
    BY <1>1, <1>3 DEF ListsOK, InOrderOnce, Listing, Precedes
  <2>3. MissesOnlyTies'
    BY <1>1 DEF ListsOK, MissesOnlyTies, Listing, Missed
  <2> QED
    BY <2>1, <2>2, <2>3 DEF ListsOK
<1> QED
  BY <1>2, <1>3

-----------------------------------------------------------------------------
(* The calls.                                                              *)

(* A set of numbers has a least one.                                        *)
LEMMA LeastOf ==
    ASSUME NEW S \in SUBSET Nat, S # {}
    PROVE  \E m \in S : \A n \in S : m <= n
<1> DEFINE R == {ss \in Nat \X Nat : ss[1] < ss[2]}
<1>1. IsWellFoundedOn(R, Nat)
  BY NatLessThanWellFounded DEF OpToRel
<1>2. \A m, n \in Nat : m < n => <<m, n>> \in R
  OBVIOUS
<1> HIDE DEF R
<1>3. \E m \in S : \A n \in S : ~(<<n, m>> \in R)
  BY <1>1, WFMin
<1>4. PICK m \in S : \A n \in S : ~(<<n, m>> \in R)
  BY <1>3
<1>5. \A n \in S : n \in Nat /\ m \in Nat /\ ~(n < m)
  BY <1>2, <1>4
<1>6. \A n \in S : m <= n
  BY <1>5
<1> QED
  BY <1>6

LEMMA HeadFacts ==
    ASSUME NEW d \in Deliveries, state[d] = "pending"
    PROVE  LET h == HeadDelivery(EndpointOf[d]) IN
           h \in Unresolved(EndpointOf[d]) /\ \A d0 \in Unresolved(EndpointOf[d]) : h <= d0
<1> DEFINE U == Unresolved(EndpointOf[d])
<1>1. d \in U /\ U \in SUBSET Nat
  BY RowsAssumption DEF Unresolved, On
<1> HIDE DEF U
<1>2. \E m \in U : \A n \in U : m <= n
  BY <1>1, LeastOf
<1> QED
  BY <1>2 DEF HeadDelivery, U

LEMMA ResumeCalls ==
    ASSUME ReadTypeOK, call # None, call.op = "resume"
    PROVE  call \in ResumeCall /\ call.ep \in Endpoints
<1>1. \A c \in DetailCall \cup ListCall : c.op # "resume"
  BY DEF DetailCall, ListCall
<1>2. call \in ResumeCall
  BY <1>1 DEF ReadTypeOK
<1> QED
  BY <1>2 DEF ResumeCall

LEMMA DetailCalls ==
    ASSUME ReadTypeOK, call # None, call.op = "detail"
    PROVE  call \in DetailCall /\ call.id \in Deliveries
<1>1. \A c \in ResumeCall \cup ListCall : c.op # "detail"
  BY DEF ResumeCall, ListCall
<1>2. call \in DetailCall
  BY <1>1 DEF ReadTypeOK
<1> QED
  BY <1>2 DEF DetailCall

CallTyped == call \in ResumeCall \cup DetailCall \cup ListCall \cup {None}

LEMMA CountFields ==
    ASSUME NEW c \in ResumeCall
    PROVE  LET c1 == [c EXCEPT !.counted = TRUE] IN
           c1 \in ResumeCall /\ c1.op = "resume" /\ c1.ep = c.ep
  BY DEF ResumeCall

LEMMA DetailNext ==
    ASSUME ReadTypeOK, NEW d \in Deliveries, ReadDelivery(d)
    PROVE  /\ call' \in DetailCall /\ call'.op = "detail" /\ call'.id = d
           /\ call'.state = state[d]
<1>1. computeBlockedOnDeliveryId(d) \in Deliveries \cup {None}
  <2>1. Unresolved(EndpointOf[d]) \subseteq Deliveries
    BY DEF Unresolved, On
  <2> QED
    BY <2>1, HeadFacts DEF computeBlockedOnDeliveryId
<1>2. state[d] \in {"pending", "in_flight", "succeeded", "failed"}
  BY DEF ReadDelivery, ReadTypeOK
<1>3. call' = [op |-> "detail", id |-> d, state |-> state[d],
               blocked |-> computeBlockedOnDeliveryId(d)]
  BY DEF ReadDelivery
<1> QED
  BY <1>1, <1>2, <1>3 DEF DetailCall

LEMMA ResumeCallNext ==
    ASSUME ReadTypeOK
    PROVE  /\ \A e \in Endpoints : ResumeUpdate(e) =>
                 call' \in ResumeCall /\ call'.ep = e /\ call'.op = "resume"
           /\ ResumeCount => call' \in ResumeCall /\ call'.ep = call.ep /\ call'.op = "resume"
<1>1. ASSUME NEW e \in Endpoints, ResumeUpdate(e)
      PROVE  call' \in ResumeCall /\ call'.ep = e /\ call'.op = "resume"
  BY <1>1 DEF ResumeUpdate, ResumeCall
<1>2. ASSUME ResumeCount
      PROVE  call' \in ResumeCall /\ call'.ep = call.ep /\ call'.op = "resume"
  <2>1. call \in ResumeCall /\ call' = [call EXCEPT !.counted = TRUE]
    BY <1>2, ResumeCalls DEF ResumeCount
  <2> QED
    BY <2>1, CountFields
<1> QED
  BY <1>1, <1>2

LEMMA ReadTypeNext ==
    ASSUME ReadTypeOK, ListsOK, [ReadNext]_vars
    PROVE  ReadTypeOK'
<1>1. QueueTyped'
  <2>1. QueueTyped
    BY DEF ReadTypeOK, QueueTyped
  <2> QED
    BY <2>1, WritesQueue, QueueTypeNext DEF QueueTyped
<1>2. ASSUME Work \/ (\E e \in Endpoints : ReadHealth(e)) \/ UNCHANGED vars
      PROVE  UNCHANGED <<call, told, unsaid>>
  BY <1>2 DEF Work, ReadHealth, vars
<1>3. ASSUME (\E e \in Endpoints : ResumeUpdate(e)) \/ ResumeCount
      PROVE  CallTyped' /\ UNCHANGED <<told, unsaid>>
  <2>1. CallTyped'
    BY <1>3, ResumeCallNext DEF CallTyped, ResumeCall
  <2> QED
    BY <1>3, <2>1 DEF ResumeUpdate, ResumeCount
<1>4. ASSUME ResumeReply \/ ResumeLost
      PROVE  call' = None /\ told' \subseteq Deliveries /\ unsaid' \subseteq Endpoints
  <2>1. call.ep \in Endpoints /\ SkippedFailed(call.ep) \subseteq Deliveries
    BY <1>4, ResumeCalls DEF ResumeReply, ResumeLost, SkippedFailed, On
  <2>2. told \subseteq Deliveries /\ unsaid \subseteq Endpoints
    BY DEF ReadTypeOK
  <2> QED
    BY <1>4, <2>1, <2>2 DEF ResumeReply, ResumeLost
<1>5. ASSUME NEW d \in Deliveries, ReadDelivery(d)
      PROVE  CallTyped' /\ UNCHANGED <<told, unsaid>>
  <2>1. call' \in DetailCall
    BY <1>5, DetailNext
  <2> QED
    BY <1>5, <2>1 DEF ReadDelivery, CallTyped, DetailCall
<1>6. ASSUME ReadAttempts PROVE CallTyped' /\ UNCHANGED <<told, unsaid>>
  BY <1>6 DEF ReadAttempts, CallTyped
<1>7. ASSUME NEW list \in List, NEW limit \in Nat, BeginList(list, limit)
      PROVE  CallTyped' /\ UNCHANGED <<told, unsaid>>
  <2>1. call' \in ListCall
    BY <1>7, BeginNext DEF ReadTypeOK, QueueTyped
  <2> QED
    BY <1>7, <2>1 DEF BeginList, CallTyped, ListCall, List, Lists, Row
<1>8. ASSUME ReadPage PROVE CallTyped' /\ UNCHANGED <<told, unsaid>>
  <2>1. call' \in ListCall \cup {None}
    BY <1>8, PageNext
  <2> QED
    BY <1>8, <2>1 DEF ReadPage, CallTyped, ListCall, List, Lists, Row
<1>9. (\A list \in Lists : list \in List) /\ (\A limit \in Limits : limit \in Nat)
      /\ Cardinality(Deliveries) \in Nat
      /\ \A b \in LiveBatches : [of |-> "fanout", event |-> b] \in List
  BY RowsAssumption, FS_CardinalityType DEF List
<1>10. CallTyped' /\ told' \subseteq Deliveries /\ unsaid' \subseteq Endpoints
  <2>1. CallTyped /\ told \subseteq Deliveries /\ unsaid \subseteq Endpoints
    BY DEF ReadTypeOK, CallTyped
  <2>2. CASE UNCHANGED <<call, told, unsaid>>
    BY <2>1, <2>2 DEF CallTyped, ResumeCall, DetailCall, ListCall, List, Lists, Row
  <2>3. CASE CallTyped' /\ UNCHANGED <<told, unsaid>>
    BY <2>1, <2>3
  <2>4. CASE ResumeReply \/ ResumeLost
    BY <1>4, <2>4 DEF CallTyped
  <2> QED
    BY <1>2, <1>3, <1>5, <1>6, <1>7, <1>8, <1>9, <2>2, <2>3, <2>4 DEF ReadNext, Serve, ReadEvent
<1> QED
  BY <1>1, <1>10 DEF ReadTypeOK, QueueTyped, CallTyped, ResumeCall, DetailCall, ListCall, List, Lists, Row

-----------------------------------------------------------------------------
(* Failed deliveries and resumes.                                          *)

(* Rows appear and stay, so what was not in order never is.                 *)
LEMMA OrderKept ==
    ASSUME QueueTyped, QueueStep \/ UNCHANGED queueVars, NEW e, InCreationOrder(e)'
    PROVE  InCreationOrder(e)
<1>1. \A d \in Deliveries : state[d] # "absent" => state'[d] # "absent"
  BY ResolvedStays
<1>2. Visible(e) \subseteq Visible(e)'
  BY <1>1 DEF Visible, On
<1> QED
  BY <1>2 DEF InCreationOrder, Live, CreatedAt

(* In order, everything unresolved was created after what has failed: the   *)
(* reply to a resume names it.                                              *)
LEMMA FailedIsNamed ==
    ASSUME QueueOK, NEW f \in Deliveries, state[f] = "failed", InCreationOrder(EndpointOf[f])
    PROVE  f \in SkippedFailed(EndpointOf[f])
<1> DEFINE e == EndpointOf[f]
<1>1. ASSUME NEW d0 \in Unresolved(e) PROVE CreatedAt(f) < CreatedAt(d0)
  <2>1. /\ f \in Visible(e) /\ d0 \in Visible(e) /\ d0 \in Deliveries
        /\ EndpointOf[d0] = EndpointOf[f] /\ ~Terminal(d0) /\ f # d0
    BY <1>1 DEF Unresolved, Visible, On, Terminal
  <2>2. SameStream(d0, f)
    BY <2>1 DEF InCreationOrder, SameStream
  <2>3. ~(d0 < f)
    BY <2>1, <2>2 DEF QueueOK, AttemptedInOrder
  <2>4. f \in Nat /\ d0 \in Nat
    BY <2>1, RowsAssumption
  <2>5. f < d0
    BY <2>1, <2>3, <2>4
  <2> QED
    BY <2>1, <2>5 DEF InCreationOrder
<1>2. f \in On(e)
  BY DEF On
<1> QED
  BY <1>1, <1>2 DEF SkippedFailed

(* Only the resume route sets an endpoint to work again.                    *)
LEMMA StoppedStays ==
    ASSUME QueueTyped, [ReadNext]_vars, NEW e \in Endpoints, status[e] # "active",
           ~ResumeUpdate(e)
    PROVE  status'[e] # "active"
<1>1. ASSUME NEW d \in Deliveries, Deliver(d) PROVE status'[e] # "active"
  <2>1. CASE Record(d) \/ Start(d) \/ Expire(d) \/ Requeue(d)
    BY <2>1 DEF Record, Start, Expire, Requeue
  <2>2. CASE Succeed(d) \/ Retry(d) \/ Fail(d)
    <3>1. status' = status \/ status' = [status EXCEPT ![EndpointOf[d]] = "halted"]
      BY <2>2, ResolveFacts
    <3> QED
      BY <3>1 DEF QueueTyped
  <2> QED
    BY <1>1, <2>1, <2>2 DEF Deliver
<1>2. ASSUME NEW e1 \in Endpoints, Pause(e1) PROVE status'[e] # "active"
  BY <1>2 DEF Pause, QueueTyped
<1>3. ASSUME Work PROVE status'[e] # "active"
  <2>1. ASSUME NEW b \in Batches, Publish(b) PROVE status'[e] # "active"
    BY <2>1 DEF Publish
  <2>2. ASSUME NEW e1 \in Endpoints, Claim(e1) \/ Release(e1) PROVE status'[e] # "active"
    BY <2>2 DEF Claim, Release
  <2> QED
    BY <1>1, <1>2, <1>3, <2>1, <2>2 DEF Work
<1>4. ASSUME NEW e1 \in Endpoints, ResumeUpdate(e1) PROVE status'[e] # "active"
  BY <1>4 DEF ResumeUpdate, Resume, QueueTyped
<1>5. ASSUME UNCHANGED status PROVE status'[e] # "active"
  BY <1>5
<1>6. ResumeCount \/ ResumeReply \/ ResumeLost \/ ReadAttempts \/ ReadPage => UNCHANGED status
  BY DEF ResumeCount, ResumeReply, ResumeLost, ReadAttempts, ReadPage
<1>7. /\ \A e1 : ReadHealth(e1) => UNCHANGED status
      /\ \A d : ReadDelivery(d) => UNCHANGED status
      /\ \A list, limit : BeginList(list, limit) => UNCHANGED status
  BY DEF ReadHealth, ReadDelivery, BeginList
<1>8. UNCHANGED vars => UNCHANGED status
  BY DEF vars
<1> QED
  BY <1>3, <1>4, <1>5, <1>6, <1>7, <1>8 DEF ReadNext, Serve, ReadEvent

(* What becomes of a call to resume, and of what the replies told.          *)
LEMMA ResumeSteps ==
    ASSUME ReadTypeOK, [ReadNext]_vars, NEW e \in Endpoints
    PROVE  /\ told \subseteq told' /\ unsaid \subseteq unsaid'
           /\ ResumeUpdate(e) => Resuming(e)'
           /\ Resuming(e) =>
                 Resuming(e)' \/ e \in unsaid' \/ SkippedFailed(e) \subseteq told'
<1>1. CASE UNCHANGED <<call, told, unsaid>>
  <2>1. ~ResumeUpdate(e)
    <3>1. ResumeUpdate(e) => call = None /\ call' \in ResumeCall
      BY ResumeCallNext DEF ResumeUpdate
    <3> QED
      BY <1>1, <3>1, CallsAssumption
  <2> QED
    BY <1>1, <2>1 DEF Resuming
<1>2. CASE \E e1 \in Endpoints : ResumeUpdate(e1)
  <2>1. call = None /\ UNCHANGED <<told, unsaid>>
    BY <1>2 DEF ResumeUpdate
  <2>2. ResumeUpdate(e) => Resuming(e)'
    <3>1. ASSUME ResumeUpdate(e) PROVE Resuming(e)'
      <4>1. call' \in ResumeCall /\ call'.ep = e /\ call'.op = "resume"
        BY <3>1, ResumeCallNext
      <4>2. None \notin ResumeCall
        BY CallsAssumption
      <4> QED
        BY <4>1, <4>2 DEF Resuming
    <3> QED
      BY <3>1
  <2> QED
    BY <2>1, <2>2 DEF Resuming
<1>3. CASE ResumeCount
  <2>1. /\ call # None /\ call.op = "resume" /\ UNCHANGED <<told, unsaid>>
        /\ call' \in ResumeCall /\ call'.ep = call.ep /\ call'.op = "resume"
    BY <1>3, ResumeCallNext DEF ResumeCount
  <2>2. call' # None
    BY <2>1, CallsAssumption
  <2> QED
    BY <2>1, <2>2 DEF Resuming, ResumeUpdate
<1>4. CASE ResumeReply \/ ResumeLost
  <2>1. ~ResumeUpdate(e)
    BY <1>4 DEF ResumeReply, ResumeLost, ResumeUpdate
  <2> QED
    BY <1>4, <2>1 DEF ResumeReply, ResumeLost, Resuming
<1>5. CASE \/ \E d \in Deliveries : ReadDelivery(d)
           \/ \E list, limit : BeginList(list, limit)
  <2>1. call = None /\ UNCHANGED <<told, unsaid>> /\ call'.op # "resume"
    BY <1>5 DEF ReadDelivery, BeginList
  <2>2. ~ResumeUpdate(e)
    BY <2>1, ResumeCallNext
  <2> QED
    BY <2>1, <2>2 DEF Resuming
<1>6. CASE ReadAttempts \/ ReadPage
  <2>1. call # None /\ call.op # "resume" /\ UNCHANGED <<told, unsaid>>
    BY <1>6 DEF ReadAttempts, ReadPage
  <2> QED
    BY <2>1 DEF Resuming, ResumeUpdate
<1>7. Work \/ UNCHANGED vars \/ (\E e1 \in Endpoints : ReadHealth(e1))
         => UNCHANGED <<call, told, unsaid>>
  BY DEF Work, vars, ReadHealth
<1> QED
  BY <1>1, <1>2, <1>3, <1>4, <1>5, <1>6, <1>7 DEF ReadNext, Serve, ReadEvent

LEMMA SkipsToldNext ==
    ASSUME ReadTypeOK, QueueOK, SkipsTold, [ReadNext]_vars
    PROVE  SkipsTold'
<1>0. QueueTyped
  BY DEF QueueOK
<1> SUFFICES ASSUME NEW f \in Deliveries, state'[f] = "failed", InCreationOrder(EndpointOf[f])'
             PROVE  \/ f \in told' \/ EndpointOf[f] \in unsaid' \/ Resuming(EndpointOf[f])'
                    \/ HeldUp(f)'
  BY DEF SkipsTold
<1> DEFINE e == EndpointOf[f]
<1>1. e \in Endpoints /\ InCreationOrder(e)
  BY <1>0, WritesQueue, OrderKept, RowsAssumption
<1>2. CASE state[f] # "failed"
  <2>1. QueueStep
    BY <1>2, WritesQueue
  <2>2. Fail(f)
    <3>1. Deliver(f)
      BY <1>0, <1>2, <2>1, DeliveryStep DEF Untouched, Published
    <3>2. Succeed(f) \/ Retry(f) \/ Fail(f)
      BY <1>0, <3>1, DeliverStates
    <3>3. Succeed(f) => state'[f] = "succeeded"
      BY <1>0 DEF Succeed, QueueTyped
    <3>4. Retry(f) => state'[f] = "pending"
      BY <1>0 DEF Retry, QueueTyped
    <3> QED
      BY <3>2, <3>3, <3>4
  <2>3. status'[e] = "halted" /\ e \notin busy'
    BY <1>0, <1>1, <2>2 DEF Fail, Answer, QueueTyped
  <2>4. \A d \in Deliveries : SameStream(f, d) /\ f < d => attempts'[d] = <<>>
    BY <2>1, <2>2, FailIsLast
  <2> QED
    BY <2>3, <2>4 DEF HeldUp, SameStream, Live
<1>3. CASE state[f] = "failed"
  <2>1. \/ f \in told \/ e \in unsaid \/ Resuming(e) \/ HeldUp(f)
    BY <1>1, <1>3 DEF SkipsTold
  <2>2. CASE f \in told \/ e \in unsaid \/ Resuming(e)
    <3>1. f \in SkippedFailed(e)
      BY <1>1, <1>3, FailedIsNamed
    <3>2. /\ told \subseteq told' /\ unsaid \subseteq unsaid'
          /\ Resuming(e) => Resuming(e)' \/ e \in unsaid' \/ SkippedFailed(e) \subseteq told'
      BY <1>1, ResumeSteps
    <3> QED
      BY <2>2, <3>1, <3>2
  <2>3. CASE HeldUp(f)
    <3>1. status[e] # "active" /\ e \notin busy
      BY <2>3 DEF HeldUp
    <3>2. CASE ResumeUpdate(e)
      BY <1>1, <3>2, ResumeSteps
    <3>3. CASE ~ResumeUpdate(e)
      <4>1. status'[e] # "active"
        BY <1>0, <1>1, <3>1, <3>3, StoppedStays
      <4>2. e \notin busy'
        <5>1. CASE QueueStep
          BY <1>0, <1>1, <3>1, <5>1, EndpointStep
        <5>2. CASE UNCHANGED queueVars
          BY <3>1, <5>2
        <5> QED
          BY <5>1, <5>2, WritesQueue
      <4>3. ASSUME NEW d \in Deliveries, SameStream(f, d), f < d PROVE attempts'[d] = <<>>
        <5>1. attempts[d] = <<>> /\ EndpointOf[d] \notin busy
          BY <2>3, <3>1, <4>3 DEF HeldUp, SameStream
        <5>2. CASE QueueStep
          BY <5>1, <5>2, IdleStays
        <5>3. CASE UNCHANGED queueVars
          BY <5>1, <5>3
        <5> QED
          BY <5>2, <5>3, WritesQueue
      <4> QED
        BY <4>1, <4>2, <4>3 DEF HeldUp, SameStream, Live
    <3> QED
      BY <3>2, <3>3
  <2> QED
    BY <2>1, <2>2, <2>3
<1> QED
  BY <1>2, <1>3

-----------------------------------------------------------------------------
(* What is shown as blocked waits.                                         *)

LEMMA BlockedStep ==
    ASSUME QueueTyped, [ReadNext]_vars, NEW d \in Deliveries,
           computeBlockedOnDeliveryId(d) # None,
           SameStream(computeBlockedOnDeliveryId(d), d)
    PROVE  attempts'[d] = attempts[d] /\ state'[d] = state[d]
<1> DEFINE h == HeadDelivery(EndpointOf[d])
<1>1. state[d] = "pending" /\ h # d /\ computeBlockedOnDeliveryId(d) = h
  BY DEF computeBlockedOnDeliveryId
<1>2. h \in Unresolved(EndpointOf[d]) /\ d \in Unresolved(EndpointOf[d])
      /\ \A d0 \in Unresolved(EndpointOf[d]) : h <= d0
  BY <1>1, HeadFacts DEF Unresolved, On
<1>3. h \in Deliveries /\ ~Terminal(h) /\ SameStream(h, d)
  BY <1>1, <1>2 DEF Unresolved, On, Terminal
<1>4. h <= d /\ h # d /\ h \in Nat /\ d \in Nat
  BY <1>1, <1>2, <1>3, RowsAssumption
<1> HIDE DEF h
<1>5. h < d
  BY <1>4
<1>6. ~IsNext(d)
  BY <1>3, <1>5 DEF IsNext
<1>7. ~Deliver(d)
  <2>1. ~Record(d) /\ ~Start(d)
    BY <1>6 DEF Record, Start
  <2> QED
    BY <1>1, <2>1, DeliverStates
<1>8. CASE QueueStep
  BY <1>1, <1>7, <1>8, DeliveryStep DEF Untouched, Published
<1>9. CASE UNCHANGED queueVars
  BY <1>9
<1> QED
  BY <1>8, <1>9, WritesQueue

-----------------------------------------------------------------------------
(* The health of an endpoint.                                              *)

(* The failure a halted endpoint was halted by is among those rated, or all *)
(* that are rated were created no earlier.                                  *)
LEMMA RatedHasFailure ==
    ASSUME QueueOK, NEW e \in Endpoints, status[e] = "halted",
           NEW rated \in RecentlyResolved(e)
    PROVE  /\ IsFiniteSet(rated) /\ rated \subseteq Resolved(e)
           /\ \E f \in On(e) :
                 /\ LastFailed(f)
                 /\ \/ f \in rated
                    \/ /\ Cardinality(rated) = DeliveriesRated
                       /\ \A d \in rated : d # f /\ CreatedAt(d) >= CreatedAt(f)
<1> DEFINE R == Resolved(e)
           n == Cardinality(R)
<1>1. R \in SUBSET Deliveries /\ IsFiniteSet(Deliveries)
      /\ DeliveriesRated \in Nat /\ DeliveriesRated # 0
  BY RowsAssumption DEF Resolved, On
<1>2. IsFiniteSet(R) /\ n \in Nat
  BY <1>1, FS_Subset, FS_CardinalityType
<1>3. /\ rated \in SUBSET R /\ Cardinality(rated) = Min({DeliveriesRated, n})
      /\ \A d1 \in rated, d2 \in R \ rated : ~RatedBefore(d2, d1)
  BY DEF RecentlyResolved
<1>4. IsFiniteSet(rated)
  BY <1>2, <1>3, FS_Subset
<1>5. PICK f \in On(e) : LastFailed(f)
  BY DEF QueueOK, HaltedByLast, LastFailed
<1>6. f \in R
  BY <1>5 DEF Resolved, Terminal, LastFailed
<1>7. ASSUME f \notin rated PROVE Cardinality(rated) = DeliveriesRated
  <2>1. rated # R
    BY <1>6, <1>7
  <2>2. Cardinality(rated) # n
    BY <1>2, <1>3, <2>1, FS_Subset
  <2> HIDE DEF n
  <2>3. DeliveriesRated <= n \/ n <= DeliveriesRated
    BY <1>1, <1>2
  <2>4. \E x \in {DeliveriesRated, n} : \A y \in {DeliveriesRated, n} : x <= y
    BY <1>1, <1>2, <2>3
  <2>5. Min({DeliveriesRated, n}) \in {DeliveriesRated, n}
    BY <2>4 DEF Min
  <2> QED
    BY <1>3, <2>2, <2>5
<1>8. ASSUME f \notin rated, NEW d \in rated PROVE d # f /\ CreatedAt(d) >= CreatedAt(f)
  <2>1. ~RatedBefore(f, d)
    BY <1>3, <1>6, <1>8
  <2>2. CreatedAt(d) \in Nat /\ CreatedAt(f) \in Nat
    BY <1>1, <1>3, <1>6, RowsAssumption, TimesAssumption DEF CreatedAt
  <2> QED
    BY <1>8, <2>1, <2>2 DEF RatedBefore
<1> QED
  BY <1>3, <1>4, <1>5, <1>7, <1>8

(* What a perfect rate hides.                                               *)
LEMMA HealthNext ==
    ASSUME QueueOK, NEW e \in Endpoints, ReadHealth(e)
    PROVE  HaltedShowsFailure'
<1>1. PICK rated \in RecentlyResolved(e) : reply' = serializeEndpointWithHealth(e, rated)
  BY DEF ReadHealth
<1> DEFINE S == {d \in rated : state[d] = "succeeded"}
           H(f) == {d \in On(e) : Hides(d, f)}
<1>2. /\ reply'.ep = e /\ reply'.status = status[e] /\ reply'.rated = Cardinality(rated)
      /\ reply'.succeeded = Cardinality(S)
  BY <1>1 DEF serializeEndpointWithHealth
<1>3. ASSUME status[e] = "halted", Cardinality(S) = Cardinality(rated)
      PROVE  \E f \in On(e) : LastFailed(f) /\ DeliveriesRated <= Cardinality(H(f))
  <2>1. IsFiniteSet(rated) /\ rated \subseteq Resolved(e)
    BY <1>3, RatedHasFailure
  <2>2. S = rated
    <3>1. S \in SUBSET rated
      OBVIOUS
    <3> HIDE DEF S
    <3> QED
      BY <1>3, <2>1, <3>1, FS_Subset
  <2>3. PICK f \in On(e) :
          /\ LastFailed(f)
          /\ \/ f \in rated
             \/ /\ Cardinality(rated) = DeliveriesRated
                /\ \A d \in rated : d # f /\ CreatedAt(d) >= CreatedAt(f)
    BY <1>3, RatedHasFailure
  <2>4. f \notin rated
    BY <2>2, <2>3 DEF LastFailed
  <2>5. rated \in SUBSET H(f)
    BY <2>1, <2>2, <2>3, <2>4 DEF Hides, Resolved
  <2>6. IsFiniteSet(H(f))
    <3>1. H(f) \in SUBSET Deliveries
      BY DEF On
    <3> QED
      BY <3>1, RowsAssumption, FS_Subset
  <2>7. Cardinality(rated) <= Cardinality(H(f))
    BY <2>5, <2>6, FS_Subset
  <2> QED
    BY <2>3, <2>4, <2>7
<1> HIDE DEF S
<1>4. UNCHANGED <<state, status>>
  BY DEF ReadHealth, queueVars
<1>5. (\E f \in On(e) : LastFailed(f) /\ DeliveriesRated <= Cardinality(H(f)))
        <=> (\E f \in On(e) : LastFailed(f)' /\ DeliveriesRated <= Cardinality({d \in On(e) : Hides(d, f)'}))
  BY <1>4 DEF LastFailed, Hides, Terminal, SameStream, CreatedAt
<1> QED
  BY <1>2, <1>3, <1>4, <1>5 DEF HaltedShowsFailure, On

-----------------------------------------------------------------------------
(* The attempts of a delivery.                                             *)

(* The latest attempts come newest first, and the one that was answered is  *)
(* among them unless the attempts of its number are too many.               *)
LEMMA LatestFacts ==
    ASSUME QueueOK, NEW d \in Deliveries, NEW latest \in LatestAttempts(d, AttemptsShown)
    PROVE  /\ latest \in Seq(Attempt)
           /\ \A i, j \in 1 .. Len(latest) : i < j => latest[j].number <= latest[i].number
           /\ Terminal(d) /\ Cardinality(SameNumber(d)) <= AttemptsShown =>
                 \E p \in 1 .. Len(latest) : latest[p] = attempts[d][Len(attempts[d])]
<1> DEFINE a == attempts[d]
           n == Len(a)
           k == attemptCount[d]
           K == AttemptsShown
<1>1. /\ QueueTyped /\ a \in Seq(Attempt) /\ n \in Nat /\ DOMAIN a = 1 .. n /\ k \in Nat
      /\ \A i \in 1 .. n : a[i] \in Attempt /\ a[i].number \in Nat
  BY AttemptFields DEF QueueOK, QueueTyped
<1>2. K \in Nat /\ K # 0
  BY RowsAssumption
<1>3. IsFiniteSet(1 .. n) /\ Cardinality(1 .. n) = n
  BY <1>1, Numbered
<1>4. PICK q \in SetToSeqs(1 .. n) :
         LET s == [i \in 1 .. n |-> a[q[i]]] IN
         /\ \A i, j \in DOMAIN s : i < j => ~NewestFirst(s[j], s[i])
         /\ latest = SubSeq(s, 1, IF K < Len(s) THEN K ELSE Len(s))
  BY <1>1 DEF LatestAttempts
<1> DEFINE s == [i \in 1 .. n |-> a[q[i]]]
           m == IF K < n THEN K ELSE n
<1>5. q \in [1 .. n -> 1 .. n] /\ \A i, j \in 1 .. n : i # j => q[i] # q[j]
  BY <1>3, <1>4 DEF SetToSeqs
<1>6. \A i \in 1 .. n : s[i] = a[q[i]] /\ s[i] \in Attempt /\ s[i].number \in Nat
  BY <1>1, <1>5
<1>7. s \in Seq(Attempt) /\ Len(s) = n /\ DOMAIN s = 1 .. n
  <2>1. s \in [1 .. n -> Attempt]
    BY <1>6
  <2> HIDE DEF s, n
  <2> QED
    BY <1>1, <2>1
<1>8. \A i, j \in 1 .. n : i < j => s[j].number <= s[i].number
  <2>1. \A i, j \in 1 .. n : i < j => ~(s[j].number > s[i].number)
    BY <1>4, <1>7 DEF NewestFirst
  <2> HIDE DEF s
  <2> QED
    BY <1>6, <2>1
<1>9. latest = SubSeq(s, 1, m)
  BY <1>4, <1>7
<1>10. m \in Nat /\ m <= n /\ m <= K
  BY <1>1, <1>2
<1> HIDE DEF s
<1>11. /\ latest \in Seq(Attempt) /\ Len(latest) = m
       /\ \A i \in 1 .. m : latest[i] = s[i]
  BY <1>1, <1>7, <1>9, <1>10
<1> HIDE DEF n, k, K, m, a
<1>12. \A i, j \in 1 .. Len(latest) : i < j => latest[j].number <= latest[i].number
  <2> SUFFICES ASSUME NEW i \in 1 .. m, NEW j \in 1 .. m, i < j
               PROVE  latest[j].number <= latest[i].number
    BY <1>11
  <2>1. i \in 1 .. n /\ j \in 1 .. n
    BY <1>1, <1>10
  <2>2. s[j].number <= s[i].number
    BY <1>8, <2>1
  <2> QED
    BY <1>11, <2>2
<1>13. ASSUME Terminal(d), Cardinality(SameNumber(d)) <= K
       PROVE  \E p \in 1 .. Len(latest) : latest[p] = a[n]
  <2>1. /\ n \in 1 .. n /\ a[n].number = k /\ \A i \in 1 .. n : a[i].number <= k
    <3>1. a # <<>>
      BY <1>13 DEF QueueOK, AttemptedInOrder, Terminal, a
    <3>2. n # 0
      BY <1>1, <3>1 DEF n
    <3>3. a[n].number = k /\ \A i \in 1 .. n : a[i].number <= k
      BY <1>1, <1>13 DEF QueueOK, LastAnswers, Terminal, LastAttempt, a, n, k
    <3> QED
      BY <1>1, <3>2, <3>3
  <2>2. q \in Injection(1 .. n, 1 .. n)
    BY <1>5 DEF Injection, IsInjective
  <2>3. q \in Surjection(1 .. n, 1 .. n)
    BY <1>3, <2>2, FS_Injection
  <2>4. PICK p \in 1 .. n : q[p] = n
    BY <2>1, <2>3 DEF Surjection
  <2>5. s[p] = a[n]
    BY <1>6, <2>4
  <2>6. \A i \in 1 .. p : q[i] \in SameNumber(d)
    <3> SUFFICES ASSUME NEW i \in 1 .. p PROVE q[i] \in SameNumber(d)
      OBVIOUS
    <3>1. i \in 1 .. n /\ q[i] \in 1 .. n /\ s[i] = a[q[i]] /\ s[i].number \in Nat
      <4>1. i \in 1 .. n
        BY <1>1, <2>4
      <4> QED
        BY <1>5, <1>6, <4>1
    <3>2. s[i].number >= k
      <4>1. s[p].number = k
        BY <2>1, <2>5
      <4>2. i < p \/ i = p
        BY <1>1, <2>4
      <4>3. i < p => s[p].number <= s[i].number
        BY <1>8, <2>4, <3>1
      <4> QED
        BY <1>1, <3>1, <4>1, <4>2, <4>3
    <3>3. a[q[i]].number = k
      <4>1. a[q[i]].number <= k /\ a[q[i]].number >= k /\ a[q[i]].number \in Nat
        BY <1>1, <2>1, <3>1, <3>2
      <4> QED
        BY <1>1, <4>1
    <3> QED
      BY <1>1, <3>1, <3>3 DEF SameNumber, a, k
  <2>7. p <= Cardinality(SameNumber(d))
    <3> DEFINE g == [i \in 1 .. p |-> q[i]]
    <3>1. g \in Injection(1 .. p, SameNumber(d))
      <4>1. \A i, j \in 1 .. p : i \in 1 .. n /\ j \in 1 .. n
        BY <1>1, <2>4
      <4>2. \A i, j \in 1 .. p : i # j => q[i] # q[j]
        BY <1>5, <4>1
      <4> QED
        BY <2>6, <4>2 DEF Injection, IsInjective
    <3>2. IsFiniteSet(SameNumber(d))
      <4>1. SameNumber(d) \in SUBSET (1 .. n)
        BY <1>1 DEF SameNumber, a
      <4> QED
        BY <1>3, <4>1, FS_Subset
    <3> HIDE DEF g
    <3>3. Cardinality(1 .. p) <= Cardinality(SameNumber(d))
      BY <3>1, <3>2, FS_Injection
    <3>4. Cardinality(1 .. p) = p
      BY <1>1, <2>4, Numbered
    <3> QED
      BY <3>3, <3>4
  <2>8. Cardinality(SameNumber(d)) \in Nat
    <3>1. SameNumber(d) \in SUBSET (1 .. n)
      BY <1>1 DEF SameNumber, a
    <3> QED
      BY <1>3, <3>1, FS_Subset, FS_CardinalityType
  <2>9. p \in 1 .. m
    <3>1. p <= K
      BY <1>1, <1>2, <1>13, <2>4, <2>7, <2>8
    <3> QED
      BY <1>1, <1>2, <2>4, <3>1 DEF m
  <2> QED
    BY <1>11, <2>5, <2>9
<1> QED
  BY <1>11, <1>12, <1>13 DEF a, n, K

LEMMA ReverseFacts ==
    ASSUME NEW s \in Seq(Attempt)
    PROVE  /\ DOMAIN Reverse(s) = 1 .. Len(s) /\ Len(s) \in Nat
           /\ \A i \in 1 .. Len(s) : /\ Reverse(s)[i] = s[(Len(s) - i) + 1]
                                    /\ (Len(s) - i) + 1 \in 1 .. Len(s)
                                    /\ s[i] = Reverse(s)[(Len(s) - i) + 1]
<1>1. Len(s) \in Nat
  OBVIOUS
<1>2. Reverse(s) = [i \in 1 .. Len(s) |-> s[(Len(s) - i) + 1]]
  BY DEF Reverse
<1>3. \A i \in 1 .. Len(s) : /\ (Len(s) - i) + 1 \in 1 .. Len(s)
                             /\ (Len(s) - ((Len(s) - i) + 1)) + 1 = i
  BY <1>1
<1> QED
  BY <1>1, <1>2, <1>3

LEMMA AttemptsNext ==
    ASSUME ReadTypeOK, QueueOK, DetailHolds, ReadAttempts
    PROVE  ResolvedShowsAnswer'
<1> DEFINE d == call.id
           n == Len(attempts[d])
<1>1. d \in Deliveries /\ call # None /\ call.op = "detail"
  BY DetailCalls DEF ReadAttempts
<1>2. PICK latest \in LatestAttempts(d, AttemptsShown) :
         reply' = [op |-> "detail", id |-> call.id, state |-> call.state,
                   blocked |-> call.blocked, attempts |-> Reverse(latest)]
  BY DEF ReadAttempts
<1>3. /\ reply'.id = d /\ reply'.state = call.state /\ reply'.attempts = Reverse(latest)
      /\ reply'.op = "detail"
  BY <1>2
<1>4. /\ latest \in Seq(Attempt)
      /\ \A i, j \in 1 .. Len(latest) : i < j => latest[j].number <= latest[i].number
      /\ Terminal(d) /\ Cardinality(SameNumber(d)) <= AttemptsShown =>
            \E p \in 1 .. Len(latest) : latest[p] = attempts[d][n]
  BY <1>1, LatestFacts
<1>5. call.state \in {"succeeded", "failed"} => state[d] = call.state
  BY <1>1 DEF DetailHolds
<1>6. Cardinality(SameNumber(reply.id))' = Cardinality(SameNumber(d))
  BY <1>3 DEF ReadAttempts, SameNumber
<1> HIDE DEF d
<1>7. /\ state[d] = "succeeded" => Terminal(d) /\ attempts[d][n].outcome = "2xx"
      /\ state[d] = "failed" => Terminal(d) /\ attempts[d][n].outcome = "failed"
  BY <1>1 DEF QueueOK, LastAnswers, Terminal, LastAttempt
<1> HIDE DEF n
<1> DEFINE r == Reverse(latest)
           l == Len(latest)
<1>8. /\ DOMAIN r = 1 .. l /\ l \in Nat
      /\ \A i \in 1 .. l : /\ r[i] = latest[(l - i) + 1] /\ (l - i) + 1 \in 1 .. l
                           /\ latest[i] = r[(l - i) + 1]
  BY <1>4, ReverseFacts
<1> HIDE DEF r, l
<1>9. \A i, j \in 1 .. l : i < j => r[i].number <= r[j].number
  <2> SUFFICES ASSUME NEW i \in 1 .. l, NEW j \in 1 .. l, i < j
               PROVE  r[i].number <= r[j].number
    OBVIOUS
  <2>1. (l - j) + 1 < (l - i) + 1
    BY <1>8
  <2>2. /\ (l - j) + 1 \in 1 .. l /\ (l - i) + 1 \in 1 .. l
        /\ r[i] = latest[(l - i) + 1] /\ r[j] = latest[(l - j) + 1]
    BY <1>8
  <2> QED
    BY <1>4, <2>1, <2>2 DEF l
<1>10. Terminal(d) /\ Cardinality(SameNumber(d)) <= AttemptsShown =>
          \E i \in 1 .. l : r[i] = attempts[d][n]
  <2>1. ASSUME NEW p \in 1 .. l, latest[p] = attempts[d][n]
        PROVE  \E i \in 1 .. l : r[i] = attempts[d][n]
    BY <1>8, <2>1
  <2> QED
    BY <1>4, <2>1 DEF l
<1>11. ASSUME Cardinality(SameNumber(d)) <= AttemptsShown
       PROVE  /\ call.state = "succeeded" => \E i \in 1 .. l : r[i].outcome = "2xx"
              /\ call.state = "failed" => \E i \in 1 .. l : r[i].outcome = "failed"
  BY <1>5, <1>7, <1>10, <1>11
<1>12. DOMAIN reply'.attempts = 1 .. l /\ reply'.attempts = r
  BY <1>3, <1>8 DEF r
<1> QED
  BY <1>3, <1>6, <1>9, <1>11, <1>12 DEF ResolvedShowsAnswer

LEMMA DetailHoldsNext ==
    ASSUME ReadTypeOK, QueueTyped, DetailHolds, ListsOK, [ReadNext]_vars
    PROVE  DetailHolds'
<1>1. CASE call' = call
  <2> SUFFICES ASSUME call # None, call.op = "detail", call.state \in {"succeeded", "failed"}
               PROVE  state'[call.id] = call.state
    BY <1>1 DEF DetailHolds
  <2>1. call.id \in Deliveries /\ state[call.id] = call.state
    BY DetailCalls DEF DetailHolds
  <2>2. CASE QueueStep
    BY <2>1, <2>2, ResolvedStays DEF Terminal, Untouched
  <2>3. CASE UNCHANGED queueVars
    BY <2>1, <2>3
  <2> QED
    BY <2>2, <2>3, WritesQueue
<1>2. ASSUME NEW d \in Deliveries, ReadDelivery(d) PROVE DetailHolds'
  <2>1. call'.id = d /\ call'.state = state[d] /\ state' = state
    BY <1>2, DetailNext DEF ReadDelivery
  <2> QED
    BY <2>1 DEF DetailHolds
<1>3. ASSUME call' = None \/ call'.op # "detail" PROVE DetailHolds'
  BY <1>3 DEF DetailHolds
<1>4. ASSUME (\E e \in Endpoints : ResumeUpdate(e)) \/ ResumeCount PROVE call'.op # "detail"
  BY <1>4, ResumeCallNext
<1>5. ASSUME ResumeReply \/ ResumeLost \/ ReadAttempts PROVE call' = None
  BY <1>5 DEF ResumeReply, ResumeLost, ReadAttempts
<1>6. ASSUME NEW list, NEW limit, BeginList(list, limit) PROVE call'.op # "detail"
  BY <1>6 DEF BeginList
<1>7. ASSUME ReadPage PROVE call' = None \/ call'.op # "detail"
  <2>1. call' \in ListCall \cup {None}
    BY <1>7, PageNext
  <2> QED
    BY <2>1, ListFields
<1>8. Work \/ UNCHANGED vars \/ (\E e \in Endpoints : ReadHealth(e)) => call' = call
  BY DEF Work, vars, ReadHealth
<1> QED
  BY <1>1, <1>2, <1>3, <1>4, <1>5, <1>6, <1>7, <1>8 DEF ReadNext, Serve, ReadEvent

-----------------------------------------------------------------------------
(* The invariant.                                                          *)

(* Which steps answer, and with what.                                       *)
LEMMA Replies ==
    ASSUME [ReadNext]_vars
    PROVE  \/ UNCHANGED vars \/ reply' = None
           \/ reply'.op \in {"resume", "list"}
           \/ (\E e \in Endpoints : ReadHealth(e)) /\ reply'.op = "health"
           \/ ReadAttempts /\ reply'.op = "detail"
<1>1. Work \/ (\E e \in Endpoints : ResumeUpdate(e)) \/ ResumeCount \/ ResumeLost
      \/ (\E d \in Deliveries : ReadDelivery(d)) \/ (\E list, limit : BeginList(list, limit))
         => reply' = None
  BY DEF Work, ResumeUpdate, ResumeCount, ResumeLost, ReadDelivery, BeginList
<1>2. ResumeReply => reply'.op = "resume"
  BY DEF ResumeReply
<1>3. (\E e \in Endpoints : ReadHealth(e)) => reply'.op = "health"
  BY DEF ReadHealth, serializeEndpointWithHealth
<1>4. ReadAttempts => reply'.op = "detail"
  BY DEF ReadAttempts
<1>5. ReadPage => reply' = None \/ reply'.op = "list"
  BY DEF ReadPage
<1> QED
  BY <1>1, <1>2, <1>3, <1>4, <1>5 DEF ReadNext, Serve, ReadEvent

LEMMA ListsNext ==
    ASSUME ReadTypeOK, ListsOK, [ReadNext]_vars
    PROVE  ListsOK'
<1>0. QueueTyped /\ (QueueStep \/ UNCHANGED queueVars)
  BY WritesQueue DEF ReadTypeOK, QueueTyped
<1>1. CASE ReadPage
  BY <1>1, PageNext
<1>2. CASE \E list \in List, limit \in Nat : BeginList(list, limit)
  BY <1>0, <1>2, BeginNext
<1>3. ASSUME ~ReadPage, ~\E list \in List, limit \in Nat : BeginList(list, limit)
      PROVE  /\ call' = call \/ call' = None \/ call'.op # "list"
             /\ reply' = reply \/ reply' = None \/ reply'.op # "list"
  <2>1. (\A list \in Lists : list \in List) /\ (\A limit \in Limits : limit \in Nat)
        /\ Cardinality(Deliveries) \in Nat
        /\ \A b \in LiveBatches : [of |-> "fanout", event |-> b] \in List
    BY RowsAssumption, FS_CardinalityType DEF List
  <2>2. \/ Work \/ UNCHANGED vars \/ (\E e \in Endpoints : ReadHealth(e))
        \/ (\E e \in Endpoints : ResumeUpdate(e)) \/ ResumeCount
        \/ ResumeReply \/ ResumeLost \/ ReadAttempts
        \/ \E d \in Deliveries : ReadDelivery(d)
    BY <1>3, <2>1 DEF ReadNext, Serve, ReadEvent
  <2>3. CASE Work \/ UNCHANGED vars
    BY <2>3 DEF Work, vars
  <2>4. CASE \E e \in Endpoints : ReadHealth(e)
    BY <2>4 DEF ReadHealth, serializeEndpointWithHealth
  <2>5. CASE (\E e \in Endpoints : ResumeUpdate(e)) \/ ResumeCount
    <3>1. call'.op = "resume" /\ reply' = None
      BY <2>5, ResumeCallNext DEF ResumeUpdate, ResumeCount
    <3> QED
      BY <3>1
  <2>6. CASE ResumeReply \/ ResumeLost \/ ReadAttempts
    BY <2>6 DEF ResumeReply, ResumeLost, ReadAttempts
  <2>7. CASE \E d \in Deliveries : ReadDelivery(d)
    BY <2>7 DEF ReadDelivery
  <2> QED
    BY <2>2, <2>3, <2>4, <2>5, <2>6, <2>7
<1> QED
  BY <1>0, <1>1, <1>2, <1>3, ListsKept

LEMMA Parts ==
    ReadInvariant <=> /\ ReadTypeOK /\ QueueOK /\ SkipsTold /\ DetailHolds /\ ListsOK
                      /\ ResolvedShowsAnswer /\ HaltedShowsFailure
  BY DEF ReadInvariant, QueueOK, QueueTyped, ReadTypeOK, ListsOK

LEMMA ReadInitInvariant == ReadInit => ReadInvariant
<1> SUFFICES ASSUME ReadInit PROVE ReadInvariant
  OBVIOUS
<1>1. /\ status = [e \in Endpoints |-> "active"] /\ busy = {}
      /\ state = [d \in Deliveries |-> "absent"]
      /\ attemptCount = [d \in Deliveries |-> 0] /\ attempts = [d \in Deliveries |-> <<>>]
      /\ call = None /\ reply = None /\ told = {} /\ unsaid = {}
  BY DEF ReadInit, Init
<1>2. ReadTypeOK
  BY <1>1 DEF ReadTypeOK
<1>3. \A d \in Deliveries : state[d] = "absent" /\ attempts[d] = <<>> /\ attemptCount[d] = 0
  BY <1>1
<1>4. AttemptedInOrder
  BY <1>3 DEF AttemptedInOrder
<1>5. OneInFlight
  BY <1>1, <1>3 DEF OneInFlight
<1>6. LastAnswers
  BY <1>3 DEF LastAnswers
<1>7. HaltedByLast
  BY <1>1 DEF HaltedByLast
<1>8. SkipsTold
  BY <1>3 DEF SkipsTold
<1>9. DetailHolds /\ ListHolds /\ ResolvedShowsAnswer /\ HaltedShowsFailure
      /\ InOrderOnce /\ MissesOnlyTies
  BY <1>1 DEF DetailHolds, ListHolds, ResolvedShowsAnswer, HaltedShowsFailure, InOrderOnce,
              MissesOnlyTies, Listing
<1> QED
  BY <1>2, <1>4, <1>5, <1>6, <1>7, <1>8, <1>9 DEF ReadInvariant

LEMMA ReadNextInvariant ==
    ASSUME ReadInvariant, [ReadNext]_vars
    PROVE  ReadInvariant'
<1>1. /\ ReadTypeOK /\ QueueOK /\ SkipsTold /\ DetailHolds /\ ListsOK
      /\ ResolvedShowsAnswer /\ HaltedShowsFailure /\ QueueTyped
  BY Parts DEF QueueOK
<1>2. ReadTypeOK' /\ QueueOK' /\ SkipsTold' /\ DetailHolds' /\ ListsOK'
  BY <1>1, ReadTypeNext, QueueNext, SkipsToldNext, DetailHoldsNext, ListsNext
<1>3. ResolvedShowsAnswer'
  <2>1. CASE UNCHANGED vars
    BY <1>1, <2>1 DEF vars, ResolvedShowsAnswer, SameNumber
  <2>2. CASE ReadAttempts
    BY <1>1, <2>2, AttemptsNext
  <2>3. CASE reply' = None \/ reply'.op # "detail"
    BY <2>3 DEF ResolvedShowsAnswer
  <2> QED
    BY <2>1, <2>2, <2>3, Replies
<1>4. HaltedShowsFailure'
  <2>1. CASE UNCHANGED vars
    BY <1>1, <2>1 DEF vars, queueVars, HaltedShowsFailure, LastFailed, Hides, Terminal, SameStream,
                     On, Live, CreatedAt
  <2>2. CASE \E e \in Endpoints : ReadHealth(e)
    BY <1>1, <2>2, HealthNext
  <2>3. CASE reply' = None \/ reply'.op # "health"
    BY <2>3 DEF HaltedShowsFailure
  <2> QED
    BY <2>1, <2>2, <2>3, Replies
<1>5. /\ AttemptedInOrder' /\ OneInFlight' /\ LastAnswers' /\ HaltedByLast'
      /\ ListHolds' /\ InOrderOnce' /\ MissesOnlyTies'
  BY <1>2 DEF QueueOK, ListsOK
<1> QED
  BY <1>2, <1>3, <1>4, <1>5 DEF ReadInvariant

-----------------------------------------------------------------------------
(* The theorems.                                                           *)

(* The tables are as the workers leave them, and whatever the routes hold   *)
(* or have answered agrees with them.                                       *)
THEOREM ReadCorrect == ReadSpec => []ReadInvariant
<1>1. ReadInvariant /\ [ReadNext]_vars => ReadInvariant'
  BY ReadNextInvariant
<1> QED
  BY <1>1, ReadInitInvariant, PTL DEF ReadSpec

(* GET /deliveries/:id shows a resolved delivery with the answer that       *)
(* resolved it, in order.                                                   *)
THEOREM ResolvedShowsAnswerCorrect == ReadSpec => []ResolvedShowsAnswer
<1>1. ReadInvariant => ResolvedShowsAnswer
  BY DEF ReadInvariant
<1> QED
  BY <1>1, ReadCorrect, PTL

(* A failed delivery that was overtaken was named by the reply to a resume. *)
THEOREM LiveSkipsAreToldCorrect == ReadSpec => []LiveSkipsAreTold
<1>1. ReadInvariant => LiveSkipsAreTold
  <2> SUFFICES ASSUME ReadInvariant, NEW f \in Deliveries, NEW d \in Deliveries,
                      Overtaken(f, d), InCreationOrder(EndpointOf[f]),
                      ~Resuming(EndpointOf[f]), EndpointOf[f] \notin unsaid
               PROVE  f \in told
    BY DEF LiveSkipsAreTold
  <2>1. f \in told \/ HeldUp(f)
    BY DEF ReadInvariant, SkipsTold, Overtaken
  <2>2. ~HeldUp(f)
    BY DEF HeldUp, Overtaken
  <2> QED
    BY <2>1, <2>2
<1> QED
  BY <1>1, ReadCorrect, PTL

(* GET /endpoints/:id shows a halted endpoint with a perfect success rate   *)
(* only if as many succeeded deliveries as it rates hide the failure.       *)
THEOREM HaltedShowsFailureCorrect == ReadSpec => []HaltedShowsFailure
<1>1. ReadInvariant => HaltedShowsFailure
  BY DEF ReadInvariant
<1> QED
  BY <1>1, ReadCorrect, PTL

(* Pages hold no row twice and none out of order.                           *)
THEOREM InOrderOnceCorrect == ReadSpec => []InOrderOnce
<1>1. ReadInvariant => InOrderOnce
  BY DEF ReadInvariant
<1> QED
  BY <1>1, ReadCorrect, PTL

(* Pages miss nothing that was there at the start but events of a           *)
(* millisecond they show.                                                   *)
THEOREM MissesOnlyTiesCorrect == ReadSpec => []MissesOnlyTies
<1>1. ReadInvariant => MissesOnlyTies
  BY DEF ReadInvariant
<1> QED
  BY <1>1, ReadCorrect, PTL

(* A delivery the console would show as blocked on an earlier one is not    *)
(* touched by any step.                                                     *)
THEOREM BlockedWaitsCorrect == ReadSpec => BlockedWaits
<1> DEFINE A == \A d \in Deliveries :
                  LET h == computeBlockedOnDeliveryId(d) IN
                  h # None /\ SameStream(h, d) =>
                      attempts'[d] = attempts[d] /\ state'[d] = state[d]
<1>1. ReadInvariant /\ [ReadNext]_vars => [A]_vars
  <2> SUFFICES ASSUME ReadInvariant, [ReadNext]_vars PROVE A
    OBVIOUS
  <2>1. QueueTyped
    BY Parts DEF QueueOK
  <2> QED
    BY <2>1, BlockedStep
<1> HIDE DEF A
<1>2. ReadSpec => [][A]_vars
  BY <1>1, ReadCorrect, PTL DEF ReadSpec
<1> QED
  BY <1>2 DEF BlockedWaits, A

=============================================================================
