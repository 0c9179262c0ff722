---------------------------- MODULE Delivery_proofs ----------------------------
(* Proofs about WebhookOutbox, for any webhooks, producers, ids and bounds, *)
(* and about Streams, for any connections, senders and bounds: what is sent *)
(* until it arrives, and what goes over connections that come and go.       *)
EXTENDS WebhookOutbox, Streams, TLAPS

(* Leaves without arithmetic go to Zenon; the others name SMT.              *)
USE ZenonT(30)
USE OutboxAssumption

(* An id that was never used has no owner and was never posted or removed.  *)
UnusedIsBlank ==
    \A d \in Ids : status[d] = "none" => owner[d] = NoHook /\ d \notin gone /\ accepted[d] = 0

(* The worker holds only rows that still wait; outside record nothing is in *)
(* flight, and a POST reported as a success reached the receiver.           *)
WorkerInv ==
    /\ \A d \in batch : status[d] \in {"pending", "failed"}
    /\ wpc # "record" => outcome = "none"
    /\ wpc = "record" =>
          /\ current \in Ids \ batch
          /\ status[current] \in {"pending", "failed"}
          /\ outcome \in {"ok", "err"}
          /\ outcome = "ok" => accepted[current] > 0

(* A delivery the receiver took, with no success lost, was taken once and   *)
(* cannot be posted again.                                                  *)
Taken ==
    \A d \in Ids :
        \/ accepted[d] = 0
        \/ d \in unrecorded
        \/ /\ accepted[d] = 1
           /\ \/ status[d] = "delivered"
              \/ d \in gone \ batch
              \/ wpc = "record" /\ outcome = "ok" /\ current = d

(* No count of attempts exceeds the POSTs that did not succeed.             *)
Counted ==
    /\ \A d \in Ids : attempts[d] <= refused[d] /\ readAt[d] <= refused[d]
    /\ wpc = "record" /\ outcome = "err" => readAt[current] + 1 <= refused[current]

OutboxInv == TypeOK /\ UnusedIsBlank /\ WorkerInv /\ Taken /\ Counted /\ DeadAfterAllAttempts

(* Every initial state satisfies the invariant.                             *)
LEMMA InitInv == Init => OutboxInv
  BY SMTT(30) DEF Init, OutboxInv, TypeOK, UnusedIsBlank, WorkerInv, Taken, Counted, DeadAfterAllAttempts

(* enqueue and the management API keep the invariant.                       *)
LEMMA RowsInv ==
    ASSUME OutboxInv,
           \/ \E p \in Producers : enqueue(p)
           \/ \E h \in Hooks : create(h) \/ update(h) \/ delete(h)
           \/ \E d \in Ids : retry_delivery(d) \/ RetryDue(d)
    PROVE  OutboxInv'
  <1> USE DEF OutboxInv, hookVars, producerVars, rowVars, workerVars, historyVars
  <1>1. ASSUME NEW p \in Producers, EnqueueSelect(p) PROVE OutboxInv'
    BY <1>1 DEF EnqueueSelect, Subscribers, TypeOK, UnusedIsBlank, WorkerInv, Taken, Counted, DeadAfterAllAttempts
  <1>2. ASSUME NEW p \in Producers, EnqueueInsert(p) PROVE OutboxInv'
    <2> PICK h \in todo[p], d \in Ids : EnqueueInsert(p)!(h, d)
      BY <1>2 DEF EnqueueInsert
    <2>0. h \in Hooks
      BY DEF TypeOK
    <2>1. TypeOK'
      BY <2>0 DEF TypeOK
    <2>2. UnusedIsBlank' /\ WorkerInv' /\ Taken' /\ Counted' /\ DeadAfterAllAttempts'
      BY <2>0 DEF NextId, TypeOK, UnusedIsBlank, WorkerInv, Taken, Counted, DeadAfterAllAttempts
    <2> QED BY <2>1, <2>2
  <1>3. ASSUME NEW p \in Producers, EnqueueAborts(p) PROVE OutboxInv'
    BY <1>3, SMTT(30) DEF EnqueueAborts, TypeOK, UnusedIsBlank, WorkerInv, Taken, Counted, DeadAfterAllAttempts
  <1>4. ASSUME NEW p \in Producers, EnqueueEnds(p) PROVE OutboxInv'
    BY <1>4 DEF EnqueueEnds, TypeOK, UnusedIsBlank, WorkerInv, Taken, Counted, DeadAfterAllAttempts
  <1>5. ASSUME NEW h \in Hooks, create(h) \/ update(h) PROVE OutboxInv'
    <2> PICK a \in {"on", "off"}, T \in SUBSET Types :
            active' = [active EXCEPT ![h] = a] /\ listens' = [listens EXCEPT ![h] = T]
      BY <1>5 DEF create, update
    <2>0. active' \in [Hooks -> {"none", "on", "off", "deleted"}] /\ listens' \in [Hooks -> SUBSET Types]
      BY DEF TypeOK
    <2>9. requests' \in Nat /\ UNCHANGED <<producerVars, workerVars, historyVars, faults, rowVars>>
      BY <1>5, SMTT(30) DEF create, update, Request, TypeOK
    <2>1. TypeOK'
      BY <2>0, <2>9 DEF TypeOK
    <2> QED BY <1>5, <2>1 DEF create, update, Request, UnusedIsBlank, WorkerInv, Taken, Counted, DeadAfterAllAttempts
  <1>6. ASSUME NEW h \in Hooks, delete(h) PROVE OutboxInv'
    <2>0. active' \in [Hooks -> {"none", "on", "off", "deleted"}]
      BY <1>6 DEF delete, TypeOK
    <2>7. gone' \in SUBSET Ids
      BY <1>6 DEF delete, TypeOK
    <2>8. requests' \in Nat
      BY <1>6, SMTT(30) DEF delete, Request, TypeOK
    <2>1. TypeOK'
      BY <1>6, <2>0, <2>7, <2>8 DEF delete, Request, TypeOK
    <2>2. UnusedIsBlank' /\ WorkerInv' /\ Taken'
      BY <1>6 DEF delete, Request, TypeOK, UnusedIsBlank, WorkerInv, Taken
    <2> QED BY <1>6, <2>1, <2>2 DEF delete, Request, Counted, DeadAfterAllAttempts
  <1>7. ASSUME NEW d \in Ids, retry_delivery(d) PROVE OutboxInv'
    <2>1. TypeOK'
      BY <1>7, SMTT(30) DEF retry_delivery, Request, TypeOK
    <2>2. UnusedIsBlank' /\ WorkerInv' /\ Taken' /\ Counted' /\ DeadAfterAllAttempts'
      BY <1>7, SMTT(30) DEF retry_delivery, Request, Live, TypeOK, UnusedIsBlank, WorkerInv, Taken, Counted, DeadAfterAllAttempts
    <2> QED BY <2>1, <2>2
  <1>8. ASSUME NEW d \in Ids, RetryDue(d) PROVE OutboxInv'
    BY <1>8, SMTT(30) DEF RetryDue, TypeOK, UnusedIsBlank, WorkerInv, Taken, Counted, DeadAfterAllAttempts
  <1> HIDE DEF OutboxInv
  <1> QED BY <1>1, <1>2, <1>3, <1>4, <1>5, <1>6, <1>7, <1>8 DEF enqueue

(* The steps of the worker keep the invariant.                              *)
LEMMA WorkerStepsInv ==
    ASSUME OutboxInv, drain_once \/ UpdateFails \/ Restart
    PROVE  OutboxInv'
  <1> USE DEF OutboxInv, hookVars, producerVars, rowVars, workerVars, historyVars
  <1>1. CASE DrainSelect
    <2> DEFINE B == FirstOf(Waiting, Limit)
    <2>0. B \subseteq {d \in Ids : status[d] \in {"pending", "failed"} /\ d \notin gone}
      BY DEF FirstOf, Waiting, Live
    <2>1. batch' = B
      BY <1>1 DEF DrainSelect
    <2> HIDE DEF B
    <2>2. readAt' \in [Ids -> Nat] /\ \A d \in Ids : readAt'[d] \in {attempts[d], readAt[d]}
      BY <1>1 DEF DrainSelect, TypeOK
    <2>3. TypeOK'
      BY <1>1, <2>0, <2>1, <2>2 DEF DrainSelect, TypeOK
    <2>4. UnusedIsBlank' /\ WorkerInv' /\ DeadAfterAllAttempts'
      BY <1>1, <2>0, <2>1 DEF DrainSelect, TypeOK, UnusedIsBlank, WorkerInv, DeadAfterAllAttempts
    <2>5. Taken'
      BY <1>1, <2>0, <2>1 DEF DrainSelect, TypeOK, WorkerInv, Taken
    <2>6. Counted'
      BY <1>1, <2>2 DEF DrainSelect, TypeOK, WorkerInv, Counted
    <2> QED BY <2>3, <2>4, <2>5, <2>6
  <1>2. CASE Post
    <2> PICK d \in batch : Post!(d)
      BY <1>2 DEF Post
    <2>0. d \in Ids /\ status[d] \in {"pending", "failed"}
      BY DEF TypeOK, WorkerInv
    <2>6. accepted' \in [Ids -> Nat] /\ refused' \in [Ids -> Nat]
      BY <2>0, SMTT(30) DEF TypeOK
    <2>8. unrecorded' \in SUBSET Ids
      <3>1. unrecorded' = unrecorded \/ unrecorded' = unrecorded \cup {d}
        OBVIOUS
      <3>2. unrecorded \subseteq Ids
        BY DEF TypeOK
      <3> QED BY <2>0, <3>1, <3>2
    <2>9. faults' \in Nat /\ outcome' \in {"none", "ok", "err"}
      BY SMTT(30) DEF TypeOK
    <2>7. /\ current' = d /\ batch' = batch \ {d} /\ wpc' = "record"
          /\ UNCHANGED <<hookVars, producerVars, rowVars, readAt, requests>>
      OBVIOUS
    <2>1. TypeOK'
      BY <2>0, <2>6, <2>7, <2>8, <2>9 DEF TypeOK
    <2>2. UnusedIsBlank' /\ DeadAfterAllAttempts'
      BY <2>0 DEF TypeOK, UnusedIsBlank, DeadAfterAllAttempts
    <2>3. WorkerInv'
      BY <2>0, SMTT(30) DEF TypeOK, WorkerInv
    <2>4. Taken'
      BY <2>0, SMTT(30) DEF TypeOK, WorkerInv, Taken
    <2>5. Counted'
      BY <2>0, SMTT(30) DEF TypeOK, WorkerInv, Counted
    <2> QED BY <2>1, <2>2, <2>3, <2>4, <2>5
  <1>3. CASE RecordDelivered
    <2>0. current \in Ids
      BY <1>3 DEF RecordDelivered, Recorded, WorkerInv
    <2>1. TypeOK'
      BY <1>3, <2>0 DEF RecordDelivered, Recorded, TypeOK
    <2>2. UnusedIsBlank' /\ Counted' /\ DeadAfterAllAttempts'
      BY <1>3, <2>0 DEF RecordDelivered, Recorded, TypeOK, UnusedIsBlank, WorkerInv, Counted, DeadAfterAllAttempts
    <2>3. WorkerInv'
      BY <1>3, <2>0 DEF RecordDelivered, Recorded, TypeOK, WorkerInv
    <2>4. Taken'
      BY <1>3, <2>0 DEF RecordDelivered, Recorded, Live, TypeOK, WorkerInv, Taken
    <2> QED BY <2>1, <2>2, <2>3, <2>4
  <1>4. CASE maybe_retry
    <2>0. current \in Ids
      BY <1>4 DEF maybe_retry, Recorded, WorkerInv
    <2>5. attempts' \in [Ids -> Nat]
      BY <1>4, <2>0, SMTT(30) DEF maybe_retry, TypeOK
    <2>7. due' \in SUBSET Ids
      BY <1>4, <2>0 DEF maybe_retry, TypeOK
    <2>8. status' \in [Ids -> {"none", "pending", "failed", "dead", "delivered"}]
      BY <1>4, <2>0 DEF maybe_retry, TypeOK
    <2>6. /\ current' = NoId /\ outcome' = "none" /\ wpc' = "post"
          /\ UNCHANGED <<hookVars, producerVars, owner, gone, batch, readAt, historyVars, faults, requests>>
      BY <1>4 DEF maybe_retry, Recorded
    <2>1. TypeOK'
      BY <2>5, <2>6, <2>7, <2>8 DEF TypeOK
    <2>2. UnusedIsBlank' /\ WorkerInv'
      BY <1>4, <2>0 DEF maybe_retry, Recorded, TypeOK, UnusedIsBlank, WorkerInv
    <2>3. Taken'
      BY <1>4, <2>0 DEF maybe_retry, Recorded, TypeOK, WorkerInv, Taken
    <2>4. Counted' /\ DeadAfterAllAttempts'
      BY <1>4, <2>0, SMTT(30) DEF maybe_retry, Recorded, TypeOK, Counted, DeadAfterAllAttempts
    <2> QED BY <2>1, <2>2, <2>3, <2>4
  <1>5. CASE BatchEnds
    BY <1>5 DEF BatchEnds, TypeOK, UnusedIsBlank, WorkerInv, Taken, Counted, DeadAfterAllAttempts
  <1>6. ASSUME WorkerLosesBatch, producerVars' \in [Producers -> SUBSET Hooks] \X [Producers -> {"idle", "inserting", "done"}]
        PROVE  OutboxInv'
    <2>0. outcome = "ok" => current \in Ids /\ wpc = "record"
      BY DEF WorkerInv
    <2>1. TypeOK'
      BY <1>6, <2>0, SMTT(30) DEF WorkerLosesBatch, TypeOK
    <2>2. UnusedIsBlank' /\ WorkerInv' /\ Counted' /\ DeadAfterAllAttempts'
      BY <1>6 DEF WorkerLosesBatch, TypeOK, UnusedIsBlank, WorkerInv, Counted, DeadAfterAllAttempts
    <2>3. Taken'
      BY <1>6, <2>0 DEF WorkerLosesBatch, TypeOK, Taken
    <2> QED BY <2>1, <2>2, <2>3
  <1>7. CASE UpdateFails
    BY <1>6, <1>7 DEF UpdateFails, TypeOK
  <1>8. CASE Restart
    BY <1>6, <1>8 DEF Restart, TypeOK
  <1> HIDE DEF OutboxInv
  <1> QED BY <1>1, <1>2, <1>3, <1>4, <1>5, <1>7, <1>8 DEF drain_once

(* No step of the outbox leaves the invariant.                              *)
LEMMA StepInv == OutboxInv /\ [Next]_vars => OutboxInv'
  <1> SUFFICES ASSUME OutboxInv, [Next]_vars PROVE OutboxInv'
    OBVIOUS
  <1>1. CASE UNCHANGED vars
    BY <1>1 DEF vars, hookVars, producerVars, rowVars, workerVars, historyVars, OutboxInv,
                TypeOK, UnusedIsBlank, WorkerInv, Taken, Counted, DeadAfterAllAttempts
  <1>2. CASE Next
    BY <1>2, RowsInv, WorkerStepsInv DEF Next
  <1> QED BY <1>1, <1>2

(* A repetition is explained by the invariant's account of what was taken.  *)
LEMMA InvImplies == OutboxInv => RepetitionExplained /\ DeadAfterAllAttempts
  BY SMTT(30) DEF OutboxInv, TypeOK, Taken, RepetitionExplained

(* The invariant holds throughout: whatever producers, the API, crashes and  *)
(* failing updates do.                                                       *)
THEOREM OutboxInvariance == Spec => []OutboxInv
  BY InitInv, StepInv, PTL DEF Spec

(* Hence a receiver gets a delivery twice only when an earlier success was   *)
(* lost on the way back to the table (drain_once),                           *)
THEOREM OutboxSafe == Spec => []RepetitionExplained
  BY OutboxInvariance, InvImplies, PTL

(* and dead deliveries had all their attempts (maybe_retry), across          *)
(* restarts and retries asked for by the API.                                *)
THEOREM DeadHadAttempts == Spec => []DeadAfterAllAttempts
  BY OutboxInvariance, InvImplies, PTL

-----------------------------------------------------------------------------
(* The refinement.  Items and HandedOver name the mapped variables.       *)
Items == [d \in Ids |-> QueueState(d)]
HandedOver == {d \in Ids : accepted[d] > 0}

(* No row and no POST: the queue starts empty.                              *)
LEMMA QueueInit == Init => Queue!Init
  BY SMTT(30) DEF Init, Queue!Init, QueueState

(* A step that leaves statuses, removals and receivers alone is a stutter.  *)
LEMMA QueueStutter ==
    ASSUME UNCHANGED <<status, gone, accepted>> PROVE UNCHANGED <<Items, HandedOver>>
  BY DEF Items, HandedOver, QueueState

(* Steps of producers, of the API and of time are steps of the queue.       *)
LEMMA QueueRows ==
    ASSUME OutboxInv,
           \/ \E p \in Producers : enqueue(p)
           \/ \E h \in Hooks : create(h) \/ update(h) \/ delete(h)
           \/ \E d \in Ids : retry_delivery(d) \/ RetryDue(d)
    PROVE  Queue!Next \/ UNCHANGED <<Items, HandedOver>>
  <1> USE DEF OutboxInv, hookVars, producerVars, rowVars, workerVars, historyVars
  <1>1. ASSUME NEW p \in Producers, EnqueueSelect(p) \/ EnqueueAborts(p) \/ EnqueueEnds(p)
        PROVE  UNCHANGED <<Items, HandedOver>>
    BY <1>1, QueueStutter DEF EnqueueSelect, EnqueueAborts, EnqueueEnds
  <1>2. ASSUME NEW p \in Producers, EnqueueInsert(p) PROVE Queue!Next
    <2> PICK h \in todo[p], d \in Ids : EnqueueInsert(p)!(h, d)
      BY <1>2 DEF EnqueueInsert
    <2>1. status[d] = "none" /\ d \notin gone
      BY DEF NextId, UnusedIsBlank
    <2>4. QueueState(d) = "absent" /\ QueueState(d)' = "queued"
      BY <2>1 DEF QueueState, TypeOK
    <2>5. \A e \in Ids : e # d => QueueState(e)' = QueueState(e)
      BY DEF QueueState, TypeOK
    <2>6. HandedOver' = HandedOver
      BY DEF HandedOver
    <2>2. Items[d] = "absent" /\ Items' = [Items EXCEPT ![d] = "queued"] /\ HandedOver' = HandedOver
      BY <2>4, <2>5, <2>6 DEF Items
    <2>3. Queue!Put(d)
      BY <2>2 DEF Queue!Put, Items, HandedOver
    <2> QED BY <2>3 DEF Queue!Next
  <1>3. ASSUME NEW h \in Hooks, create(h) \/ update(h) PROVE UNCHANGED <<Items, HandedOver>>
    BY <1>3, QueueStutter DEF create, update, Request
  <1>4. ASSUME NEW h \in Hooks, delete(h) PROVE Queue!Next
    <2> DEFINE D == {d \in Ids : owner[d] = h /\ d \notin gone /\ status[d] \in {"pending", "failed"}}
    <2>1. \A d \in D : Items[d] = "queued"
      BY DEF Items, QueueState
    <2>2. \A d \in Ids : owner[d] = h => status[d] # "none"
      BY DEF UnusedIsBlank
    <2>3. Items' = [d \in Ids |-> IF d \in D THEN "dropped" ELSE Items[d]]
      BY <1>4, <2>2 DEF delete, Items, QueueState, TypeOK
    <2>4. HandedOver' = HandedOver
      BY <1>4 DEF delete, Request, HandedOver
    <2>5. Queue!Drop(D)
      BY <2>1, <2>3, <2>4 DEF Queue!Drop, Items, HandedOver
    <2> QED BY <2>5 DEF Queue!Next
  <1>5. ASSUME NEW d \in Ids, retry_delivery(d) PROVE Queue!Next \/ UNCHANGED <<Items, HandedOver>>
    <2>1. HandedOver' = HandedOver
      BY <1>5 DEF retry_delivery, Request, HandedOver
    <2>2. CASE status[d] = "failed"
      <3>1. Items' = Items
        BY <1>5, <2>2 DEF retry_delivery, Items, QueueState, TypeOK
      <3> QED BY <2>1, <3>1
    <2>3. CASE status[d] = "dead"
      <3>3. QueueState(d) = "dropped" /\ QueueState(d)' = "queued"
        BY <1>5, <2>3 DEF retry_delivery, Live, QueueState, TypeOK
      <3>4. \A e \in Ids : e # d => QueueState(e)' = QueueState(e)
        BY <1>5 DEF retry_delivery, QueueState, TypeOK
      <3>1. Items[d] = "dropped" /\ Items' = [Items EXCEPT ![d] = "queued"]
        BY <3>3, <3>4 DEF Items
      <3>2. Queue!Requeue(d)
        BY <2>1, <3>1 DEF Queue!Requeue, Items, HandedOver
      <3> QED BY <3>2 DEF Queue!Next
    <2> QED BY <1>5, <2>2, <2>3 DEF retry_delivery
  <1>6. ASSUME NEW d \in Ids, RetryDue(d) PROVE UNCHANGED <<Items, HandedOver>>
    BY <1>6, QueueStutter DEF RetryDue
  <1> HIDE DEF OutboxInv
  <1> QED BY <1>1, <1>2, <1>3, <1>4, <1>5, <1>6 DEF enqueue

(* Steps of the worker are steps of the queue.                              *)
LEMMA QueueWorker ==
    ASSUME OutboxInv, drain_once \/ UpdateFails \/ Restart
    PROVE  Queue!Next \/ UNCHANGED <<Items, HandedOver>>
  <1> USE DEF OutboxInv, hookVars, producerVars, rowVars, workerVars, historyVars
  <1>1. CASE DrainSelect \/ BatchEnds \/ UpdateFails \/ Restart
    BY <1>1, QueueStutter DEF DrainSelect, BatchEnds, UpdateFails, Restart, WorkerLosesBatch
  <1>2. CASE Post
    <2>0. PICK d \in batch : Post!(d)
      BY <1>2 DEF Post
    <2>1. d \in Ids /\ Items[d] \in {"queued", "dropped"}
      BY DEF TypeOK, WorkerInv, Items, QueueState
    <2>2. Items' = Items
      BY <2>0 DEF Items, QueueState
    <2>5. \/ accepted' = accepted
          \/ accepted' = [accepted EXCEPT ![d] = accepted[d] + 1]
      BY <2>0
    <2>6. CASE accepted' = accepted
      BY <2>2, <2>6 DEF HandedOver
    <2>7. CASE accepted' = [accepted EXCEPT ![d] = accepted[d] + 1]
      <3>0. \A e \in Ids : accepted'[e] > 0 <=> accepted[e] > 0 \/ e = d
        BY <2>1, <2>7, SMTT(30) DEF TypeOK
      <3>1. HandedOver' = HandedOver \cup {d}
        BY <2>1, <3>0 DEF HandedOver
      <3>3. \E i \in Ids : Queue!Hand(i)
        BY <2>1, <2>2, <3>1 DEF Queue!Hand, Items, HandedOver
      <3> QED BY <3>3 DEF Queue!Next
    <2> QED BY <2>5, <2>6, <2>7
  <1>3. CASE RecordDelivered
    <2>0. current \in Ids /\ current \in HandedOver /\ status[current] \in {"pending", "failed"} /\ HandedOver' = HandedOver
      BY <1>3 DEF RecordDelivered, Recorded, WorkerInv, HandedOver
    <2>1. CASE Live(current)
      <3>3. QueueState(current) = "queued"
        BY <2>0, <2>1 DEF Live, QueueState
      <3>4. \A e \in Ids : QueueState(e)' = IF e = current THEN "done" ELSE QueueState(e)
        BY <1>3, <2>0, <2>1 DEF RecordDelivered, Recorded, QueueState, TypeOK
      <3>1. Items[current] = "queued" /\ Items' = [Items EXCEPT ![current] = "done"]
        BY <2>0, <3>3, <3>4 DEF Items
      <3>2. Queue!Finish(current)
        BY <2>0, <3>1 DEF Queue!Finish, Items, HandedOver
      <3> QED BY <2>0, <3>2 DEF Queue!Next
    <2>2. CASE ~Live(current)
      BY <1>3, <2>2, QueueStutter DEF RecordDelivered, Recorded
    <2> QED BY <2>1, <2>2
  <1>4. CASE maybe_retry
    <2>0. current \in Ids /\ status[current] \in {"pending", "failed"} /\ HandedOver' = HandedOver
      BY <1>4 DEF maybe_retry, Recorded, WorkerInv, HandedOver
    <2>1. CASE Live(current) /\ readAt[current] + 1 >= MAX_ATTEMPTS
      <3>1. Items[current] = "queued" /\ Items' = [d \in Ids |-> IF d \in {current} THEN "dropped" ELSE Items[d]]
        BY <1>4, <2>0, <2>1, ZenonT(120) DEF maybe_retry, Recorded, Live, Items, QueueState, TypeOK
      <3>2. Queue!Drop({current})
        BY <2>0, <3>1 DEF Queue!Drop, Items, HandedOver
      <3> QED BY <2>0, <3>2 DEF Queue!Next
    <2>2. CASE Live(current) /\ ~(readAt[current] + 1 >= MAX_ATTEMPTS)
      <3>1. Items' = Items
        BY <1>4, <2>0, <2>2, ZenonT(120) DEF maybe_retry, Recorded, Live, Items, QueueState, TypeOK
      <3> QED BY <2>0, <3>1
    <2>3. CASE ~Live(current)
      BY <1>4, <2>3, QueueStutter DEF maybe_retry, Recorded
    <2> QED BY <2>1, <2>2, <2>3
  <1> HIDE DEF OutboxInv
  <1> QED BY <1>1, <1>2, <1>3, <1>4 DEF drain_once

(* Every behaviour of the outbox, with any crashes, lost answers, failing    *)
(* updates, retries and deletions of webhooks, is one of the at-least-once   *)
(* queue: what is marked delivered was received, and it is not posted again. *)
THEOREM OutboxImplementsQueue == Spec => ImplementsQueue
  <1>2. OutboxInv /\ [Next]_vars => [Queue!Next]_(Queue!queueVars)
    <2> SUFFICES ASSUME OutboxInv, [Next]_vars PROVE Queue!Next \/ UNCHANGED <<Items, HandedOver>>
      BY DEF Queue!queueVars, Items, HandedOver
    <2>1. CASE UNCHANGED vars
      BY <2>1, QueueStutter DEF vars, rowVars, historyVars
    <2>2. CASE Next
      BY <2>2, QueueRows, QueueWorker DEF Next
    <2> QED BY <2>1, <2>2
  <1>3. Init => Queue!Init
    BY QueueInit
  <1> QED BY OutboxInvariance, <1>2, <1>3, PTL DEF Spec, ImplementsQueue, Queue!Spec

HIDE OutboxAssumption

-----------------------------------------------------------------------------
(* y may come after x in what a client sends; only the first line can be    *)
(* the rest of one.                                                         *)
Follows(x, y) ==
    /\ x.part = "crlf" => y.part = "head" /\ y.n = x.n
    /\ x.part = "head" => y.part \in {"len", "blank"} /\ y.n = x.n
    /\ x.part = "len" => y.part = "blank" /\ y.n = x.n
    /\ x.part \in {"blank", "body", "rest"} =>
          \/ y.part \in {"crlf", "head"} /\ y.n = x.n + 1
          \/ x.part = "blank" /\ y.part = "body" /\ y.n = x.n
          \/ x.part = "rest" /\ y.part \in {"len", "blank"} /\ y.n = x.n
    /\ x.part = "frame" => y.part = "frame" /\ y.n = x.n + 1

(* What is unread of a connection on which the client has sent k messages:  *)
(* whole messages, of which the first lines may be gone.                    *)
Unread(s, k, ws) ==
    /\ s \in Seq(Line)
    /\ \A i \in 1 .. Len(s) : (s[i].part = "frame") = ws /\ s[i].n >= 1
    /\ \A i \in 2 .. Len(s) : s[i].part # "rest"
    /\ \A i \in 1 .. Len(s) - 1 : Follows(s[i], s[i + 1])
    /\ \A i \in 1 .. Len(s) : s[i].part \in {"head", "crlf"} => i < Len(s)
    /\ \A i \in 1 .. Len(s) : s[i].part = "len" => i + 2 <= Len(s) /\ s[i + 2].part = "body"
    /\ \A i \in 1 .. Len(s) - 2 :
          s[i].part = "head" /\ s[i + 1].part = "blank" => s[i + 2].part # "body"
    /\ \A i, j \in 1 .. Len(s) : i <= j => s[i].n <= s[j].n
    /\ s # <<>> => s[Len(s)].n = k

(* What a read holds: no message is complete, a body is awaited after a     *)
(* Content-Length, and the lines are of the first message and the next.     *)
Held(p) ==
    /\ p \in Seq(Line)
    /\ \A i \in 1 .. Len(p) : IsBlank(p[i]) => i = Len(p) /\ i > 1 /\ p[i - 1].part = "len"
    /\ \A i \in 2 .. Len(p) : (p[i].part = "head" => i = 2) /\ p[i].part # "body"
    /\ \A i \in 1 .. Len(p) : p[i].n = p[1].n \/ (p[1].part # "head" /\ p[i].n = p[1].n + 1)

(* A stream is read in step when its next line starts a message.  Out of    *)
(* step, that message and the next may be lost, and as many mangled ones    *)
(* may be handed on as this counts.                                         *)
InStep(s) == s = <<>> \/ s[1].part \in {"head", "crlf", "frame"}
Doomed(s) == IF InStep(s) THEN {} ELSE {s[1].n, s[1].n + 1}
Owed(s) == IF InStep(s) THEN 0 ELSE IF s[1].part = "rest" THEN 2 ELSE 1

(* The same of the message in the handler's hands.                          *)
Garbled(b) == b # <<>> /\ Message(b) = Mangled
DoomedIn(b) == IF Garbled(b) THEN Numbers(b) ELSE {}
OwedIn(b) == IF Garbled(b) THEN 1 ELSE 0

(* Messages that were read to the end and not handled, and those that will  *)
(* be.                                                                      *)
WholeIn(h) == {i \in DOMAIN h : h[i] # Mangled}
Lost(s, b, k, h) == ((1 .. k) \ (Numbers(s) \cup Numbers(b))) \ {h[i] : i \in WholeIn(h)}
Damaged(s, b, k, h) == Lost(s, b, k, h) \cup Doomed(s) \cup DoomedIn(b)

(* What was handled is older than what is in the handler's hands, and that  *)
(* is older than what is unread.                                            *)
Ordered(s, b, k, h) ==
    /\ \A i, j \in WholeIn(h) : i < j => h[i] < h[j]
    /\ \A i \in WholeIn(h) : h[i] <= k
    /\ \A i \in WholeIn(h) : \A j \in DOMAIN s : h[i] < s[j].n
    /\ \A i \in WholeIn(h) : \A j \in DOMAIN b : h[i] < b[j].n
    /\ \A j \in DOMAIN b : b[j].n <= k
    /\ b # <<>> /\ ~Garbled(b) => \A j \in DOMAIN s : b[1].n < s[j].n

(* The two sums are what DamageIsBounded bounds, with what is still to      *)
(* come.                                                                    *)
Bounded(s, b, k, h, m) ==
    /\ Cardinality(Damaged(s, b, k, h)) <= 2 * m
    /\ Cardinality(DOMAIN h \ WholeIn(h)) + OwedIn(b) + Owed(s) <= 2 * m

Sound(ws, w, p, b, k, h, m) ==
    /\ Unread(p \o w, k, ws)
    /\ Held(p)
    /\ Ordered(p \o w, b, k, h)
    /\ Bounded(p \o w, b, k, h, m)

SoundInv ==
    \A c \in Conns :
        Sound(c \in Ws, wire[c], partial[c], inbound[c], sent[c], handled[c], cuts[c])

StreamsInv == StreamsTypeOK /\ RegistryFollows /\ SoundInv

-----------------------------------------------------------------------------
(* A concatenation has the elements of both parts.                          *)
LEMMA Joined ==
    ASSUME NEW S, NEW p \in Seq(S), NEW w \in Seq(S)
    PROVE  /\ p \o w \in Seq(S)
           /\ Len(p) \in Nat /\ Len(w) \in Nat
           /\ Len(p \o w) = Len(p) + Len(w)
           /\ \A i \in 1 .. Len(p) : (p \o w)[i] = p[i]
           /\ \A i \in 1 .. Len(w) : (p \o w)[Len(p) + i] = w[i]
  BY SMTT(30)

(* Tail drops one element.                                                  *)
LEMMA Dropped ==
    ASSUME NEW S, NEW w \in Seq(S), w # <<>>
    PROVE  /\ Tail(w) \in Seq(S) /\ Head(w) \in S /\ Head(w) = w[1]
           /\ Len(w) \in Nat /\ Len(w) >= 1
           /\ Len(Tail(w)) = Len(w) - 1
           /\ \A i \in 1 .. Len(w) - 1 : Tail(w)[i] = w[i + 1]
  BY SMTT(30)

(* Append adds one element.                                                 *)
LEMMA Appended ==
    ASSUME NEW S, NEW p \in Seq(S), NEW x \in S
    PROVE  /\ Append(p, x) \in Seq(S) /\ Append(p, x) # <<>>
           /\ Len(Append(p, x)) = Len(p) + 1
           /\ \A i \in 1 .. Len(p) : Append(p, x)[i] = p[i]
           /\ Append(p, x)[Len(p) + 1] = x
  BY SMTT(30)

(* Sequences with the same elements are the same.                           *)
LEMMA Equal ==
    ASSUME NEW S, NEW s \in Seq(S), NEW t \in Seq(S), Len(s) = Len(t),
           \A i \in 1 .. Len(s) : s[i] = t[i]
    PROVE  s = t
  BY SMTT(30)

(* A line that is read goes from the wire to the read.                      *)
LEMMA ReadOn ==
    ASSUME NEW S, NEW p \in Seq(S), NEW w \in Seq(S), w # <<>>
    PROVE  Append(p, Head(w)) \o Tail(w) = p \o w
  <1> DEFINE a == Append(p, Head(w)) t == Tail(w)
  <1>1. /\ t \in Seq(S) /\ Head(w) \in S /\ Head(w) = w[1] /\ Len(w) \in Nat /\ Len(w) >= 1
        /\ Len(t) = Len(w) - 1 /\ \A i \in 1 .. Len(w) - 1 : t[i] = w[i + 1]
    BY Dropped, SMTT(30)
  <1>2. /\ a \in Seq(S) /\ Len(a) = Len(p) + 1
        /\ \A i \in 1 .. Len(p) : a[i] = p[i]
        /\ a[Len(p) + 1] = w[1]
    BY <1>1, Appended, SMTT(30)
  <1>3. /\ p \o w \in Seq(S)
        /\ Len(p) \in Nat
        /\ Len(p \o w) = Len(p) + Len(w)
        /\ \A i \in 1 .. Len(p) : (p \o w)[i] = p[i]
        /\ \A i \in 1 .. Len(w) : (p \o w)[Len(p) + i] = w[i]
    BY Joined, SMTT(30)
  <1>4. /\ a \o t \in Seq(S)
        /\ Len(a \o t) = Len(a) + Len(t)
        /\ \A i \in 1 .. Len(a) : (a \o t)[i] = a[i]
        /\ \A i \in 1 .. Len(t) : (a \o t)[Len(a) + i] = t[i]
    BY <1>1, <1>2, Joined, SMTT(30)
  <1> HIDE DEF a, t
  <1>5. Len(a \o t) = Len(p \o w)
    BY <1>1, <1>2, <1>3, <1>4, SMTT(30)
  <1>6. ASSUME NEW i \in 1 .. Len(a \o t) PROVE (a \o t)[i] = (p \o w)[i]
    <2>1. CASE i <= Len(p)
      BY <2>1, <1>2, <1>3, <1>4, SMTT(30)
    <2>2. CASE i = Len(p) + 1
      <3>1. (a \o t)[i] = w[1]
        BY <2>2, <1>2, <1>3, <1>4, SMTT(30)
      <3>2. (p \o w)[Len(p) + 1] = w[1]
        BY <1>3, <1>1, SMTT(30)
      <3> QED BY <3>1, <3>2, <2>2
    <2>3. CASE i > Len(p) + 1
      <3> DEFINE j == i - Len(p) - 1
      <3>1. j \in 1 .. Len(t) /\ i = Len(a) + j /\ i = Len(p) + (j + 1) /\ j + 1 \in 1 .. Len(w)
        BY <2>3, <1>1, <1>2, <1>3, <1>4, SMTT(30)
      <3> HIDE DEF j
      <3>2. (a \o t)[i] = t[j]
        BY <3>1, <1>4
      <3>3. (p \o w)[i] = w[j + 1]
        BY <3>1, <1>3
      <3>4. t[j] = w[j + 1]
        BY <3>1, <1>1, SMTT(30)
      <3> QED BY <3>2, <3>3, <3>4
    <2> QED BY <2>1, <2>2, <2>3, <1>1, <1>2, <1>3, <1>4, SMTT(30)
  <1>7. a \o t = p \o w
    BY <1>3, <1>4, <1>5, <1>6, Equal
  <1> QED BY <1>7 DEF a, t

(* The numbers of a concatenation.                                          *)
LEMMA NumbersJoined ==
    ASSUME NEW p \in Seq(Line), NEW w \in Seq(Line)
    PROVE  Numbers(p \o w) = Numbers(p) \cup Numbers(w)
  <1>1. DOMAIN p = 1 .. Len(p) /\ DOMAIN w = 1 .. Len(w) /\ DOMAIN (p \o w) = 1 .. Len(p \o w)
    BY Joined, SMTT(30)
  <1>2. /\ Len(p) \in Nat /\ Len(w) \in Nat
        /\ Len(p \o w) = Len(p) + Len(w)
        /\ \A i \in 1 .. Len(p) : (p \o w)[i] = p[i]
        /\ \A i \in 1 .. Len(w) : (p \o w)[Len(p) + i] = w[i]
    BY Joined, SMTT(30)
  <1>3. ASSUME NEW i \in DOMAIN (p \o w) PROVE (p \o w)[i].n \in Numbers(p) \cup Numbers(w)
    <2>1. CASE i <= Len(p)
      BY <2>1, <1>1, <1>2, SMTT(30) DEF Numbers
    <2>2. CASE i > Len(p)
      <3> DEFINE j == i - Len(p)
      <3>1. j \in 1 .. Len(w) /\ i = Len(p) + j
        BY <2>2, <1>1, <1>2, SMTT(30)
      <3> HIDE DEF j
      <3> QED BY <3>1, <1>1, <1>2 DEF Numbers
    <2> QED BY <2>1, <2>2, <1>1, <1>2, SMTT(30)
  <1>4. ASSUME NEW i \in DOMAIN p PROVE p[i].n \in Numbers(p \o w)
    BY <1>1, <1>2, SMTT(30) DEF Numbers
  <1>5. ASSUME NEW i \in DOMAIN w PROVE w[i].n \in Numbers(p \o w)
    <2>1. Len(p) + i \in DOMAIN (p \o w)
      BY <1>1, <1>2, SMTT(30)
    <2>2. w[i] = (p \o w)[Len(p) + i]
      BY <1>1, <1>2
    <2> QED BY <2>1, <2>2 DEF Numbers
  <1> QED BY <1>3, <1>4, <1>5 DEF Numbers

(* The end of a stream is a stream.                                         *)
LEMMA Suffix ==
    ASSUME NEW s, NEW k, NEW ws \in BOOLEAN, Unread(s, k, ws), NEW t \in Seq(Line), NEW d \in Nat,
           Len(t) = Len(s) - d, \A i \in 1 .. Len(t) : t[i] = s[i + d]
    PROVE  Unread(t, k, ws)
  <1>0. s \in Seq(Line) /\ Len(s) \in Nat /\ Len(t) \in Nat
    BY SMTT(30) DEF Unread
  <1>i. \A i \in 1 .. Len(t) : i + d \in 1 .. Len(s)
    BY <1>0, SMTT(30)
  <1>1. \A i \in 1 .. Len(t) : (t[i].part = "frame") = ws /\ t[i].n >= 1
    <2> TAKE i \in 1 .. Len(t)
    <2>1. t[i] = s[i + d] /\ i + d \in 1 .. Len(s)
      BY <1>i
    <2>2. (s[i + d].part = "frame") = ws /\ s[i + d].n >= 1
      BY <2>1 DEF Unread
    <2> QED BY <2>1, <2>2
  <1>2. ASSUME NEW i \in 2 .. Len(t) PROVE t[i].part # "rest"
    <2>1. i \in 1 .. Len(t) /\ i + d \in 2 .. Len(s)
      BY <1>0, SMTT(30)
    <2> QED BY <2>1 DEF Unread
  <1>3. ASSUME NEW i \in 1 .. Len(t) - 1 PROVE Follows(t[i], t[i + 1])
    <2>1. /\ i \in 1 .. Len(t) /\ i + 1 \in 1 .. Len(t) /\ i + d \in 1 .. Len(s) - 1
          /\ (i + 1) + d = (i + d) + 1
      BY <1>0, SMTT(30)
    <2>2. t[i] = s[i + d] /\ t[i + 1] = s[(i + d) + 1]
      BY <2>1, SMTT(30)
    <2> QED BY <2>1, <2>2 DEF Unread
  <1>4. ASSUME NEW i \in 1 .. Len(t), t[i].part \in {"head", "crlf"} PROVE i < Len(t)
    <2>1. i + d < Len(s)
      BY <1>i, <1>4 DEF Unread
    <2> QED BY <2>1, <1>0, SMTT(30)
  <1>5. ASSUME NEW i \in 1 .. Len(t), t[i].part = "len"
        PROVE  i + 2 <= Len(t) /\ t[i + 2].part = "body"
    <2>1. (i + d) + 2 <= Len(s) /\ s[(i + d) + 2].part = "body"
      BY <1>i, <1>5 DEF Unread
    <2>2. i + 2 <= Len(t) /\ i + 2 \in 1 .. Len(t) /\ (i + 2) + d = (i + d) + 2
      BY <2>1, <1>0, SMTT(30)
    <2> QED BY <2>1, <2>2
  <1>6. ASSUME NEW i \in 1 .. Len(t) - 2, t[i].part = "head", t[i + 1].part = "blank"
        PROVE  t[i + 2].part # "body"
    <2>1. /\ i \in 1 .. Len(t) /\ i + 1 \in 1 .. Len(t) /\ i + 2 \in 1 .. Len(t)
          /\ i + d \in 1 .. Len(s) - 2
          /\ (i + 1) + d = (i + d) + 1 /\ (i + 2) + d = (i + d) + 2
      BY <1>0, SMTT(30)
    <2>2. t[i] = s[i + d] /\ t[i + 1] = s[(i + d) + 1] /\ t[i + 2] = s[(i + d) + 2]
      BY <2>1, SMTT(30)
    <2> QED BY <2>1, <2>2, <1>6 DEF Unread
  <1>7. ASSUME NEW i \in 1 .. Len(t), NEW j \in 1 .. Len(t), i <= j PROVE t[i].n <= t[j].n
    <2>1. i + d <= j + d
      BY <1>7, <1>0, SMTT(30)
    <2> QED BY <2>1, <1>i DEF Unread
  <1>8. ASSUME t # <<>> PROVE t[Len(t)].n = k
    <2>1. Len(t) \in 1 .. Len(t) /\ Len(t) + d = Len(s) /\ s # <<>>
      BY <1>0, <1>8, SMTT(30)
    <2> QED BY <2>1 DEF Unread
  <1> QED BY <1>1, <1>2, <1>3, <1>4, <1>5, <1>6, <1>7, <1>8 DEF Unread

(* What is on the wire, and that without its first line.                    *)
LEMMA OnWire ==
    ASSUME NEW p \in Seq(Line), NEW w \in Seq(Line), NEW k, NEW ws \in BOOLEAN, Unread(p \o w, k, ws)
    PROVE  /\ Unread(w, k, ws)
           /\ w # <<>> => Unread(Tail(w), k, ws)
  <1>1. /\ Len(p) \in Nat /\ Len(w) \in Nat
        /\ Len(p \o w) = Len(p) + Len(w)
        /\ \A i \in 1 .. Len(w) : (p \o w)[Len(p) + i] = w[i]
    BY Joined, SMTT(30)
  <1>2. Len(w) = Len(p \o w) - Len(p) /\ \A i \in 1 .. Len(w) : w[i] = (p \o w)[i + Len(p)]
    BY <1>1, SMTT(30)
  <1>3. Unread(w, k, ws)
    BY <1>1, <1>2, Suffix
  <1>4. ASSUME w # <<>> PROVE Unread(Tail(w), k, ws)
    <2>1. /\ Tail(w) \in Seq(Line) /\ Len(Tail(w)) = Len(w) - 1
          /\ \A i \in 1 .. Len(Tail(w)) : Tail(w)[i] = w[i + 1]
      BY <1>4, Dropped, SMTT(30)
    <2>2. 1 \in Nat
      BY SMTT(30)
    <2> QED BY <1>3, <2>1, <2>2, Suffix
  <1> QED BY <1>3, <1>4

(* The rest of a line, and what follows it.                                 *)
LEMMA HalvedLine ==
    ASSUME NEW x \in Line
    PROVE  /\ Rest(x) \in Line /\ Rest(x).n = x.n
           /\ Rest(x).part # "frame" \/ x.part = "frame"
           /\ IsBlank(x) => Rest(x) = x
           /\ ~IsBlank(x) => Rest(x).part = "rest"
           /\ \A y : x.part # "frame" /\ x.part # "rest" /\ Follows(x, y) => Follows(Rest(x), y)
  BY SMTT(30) DEF Rest, Part, Line, IsBlank, Follows

(* A stream of which a part of the first line is gone.                      *)
LEMMA HalvedStream ==
    ASSUME NEW w, NEW k, Unread(w, k, FALSE), w # <<>>, Head(w).part # "rest"
    PROVE  LET t == [w EXCEPT ![1] = Rest(@)]
           IN  /\ t \in Seq(Line) /\ Len(t) = Len(w) /\ t # <<>>
               /\ Unread(t, k, FALSE)
               /\ \A i \in 1 .. Len(w) : t[i].n = w[i].n
  <1> DEFINE t == [w EXCEPT ![1] = Rest(@)]
  <1>0. w \in Seq(Line) /\ Len(w) \in Nat /\ Len(w) >= 1 /\ w[1] \in Line /\ Head(w) = w[1]
    BY SMTT(30) DEF Unread
  <1>a. w[1].part # "frame" /\ w[1].part # "rest"
    BY <1>0, SMTT(30) DEF Unread
  <1>b. /\ Rest(w[1]) \in Line /\ Rest(w[1]).n = w[1].n /\ Rest(w[1]).part # "frame"
        /\ IsBlank(w[1]) => Rest(w[1]) = w[1]
        /\ ~IsBlank(w[1]) => Rest(w[1]).part = "rest"
        /\ \A y : Follows(w[1], y) => Follows(Rest(w[1]), y)
    BY <1>0, <1>a, HalvedLine
  <1>c. /\ t \in Seq(Line) /\ Len(t) = Len(w) /\ t # <<>> /\ t[1] = Rest(w[1])
        /\ \A i \in 2 .. Len(w) : t[i] = w[i]
    BY <1>0, <1>b, SMTT(30)
  <1> HIDE DEF t
  <1>d. \A i \in 1 .. Len(w) : i = 1 \/ i \in 2 .. Len(w)
    BY <1>0, SMTT(30)
  <1>e. \A i \in 1 .. Len(w) : t[i].n = w[i].n
    BY <1>b, <1>c, <1>d
  <1>f. \A i \in 1 .. Len(w) : t[i] = w[i] \/ (i = 1 /\ t[i].part = "rest")
    BY <1>b, <1>c, <1>d
  <1>1. \A i \in 1 .. Len(t) : (t[i].part = "frame") = FALSE /\ t[i].n >= 1
    BY <1>b, <1>c, <1>d, <1>e DEF Unread
  <1>2. \A i \in 2 .. Len(t) : t[i].part # "rest"
    BY <1>c DEF Unread
  <1>3. ASSUME NEW i \in 1 .. Len(t) - 1 PROVE Follows(t[i], t[i + 1])
    <2>1. i \in 1 .. Len(w) - 1 /\ i + 1 \in 2 .. Len(w) /\ i \in 1 .. Len(w)
      BY <1>0, <1>c, SMTT(30)
    <2>2. Follows(w[i], w[i + 1]) /\ t[i + 1] = w[i + 1]
      BY <2>1, <1>c DEF Unread
    <2>3. CASE i = 1
      <3>1. t[i] = Rest(w[1])
        BY <2>3, <1>c
      <3>2. Follows(w[1], w[i + 1])
        BY <2>2, <2>3
      <3>3. Follows(Rest(w[1]), w[i + 1])
        BY <3>2, <1>b
      <3> QED BY <3>1, <3>3, <2>2
    <2>4. CASE i \in 2 .. Len(w)
      BY <2>4, <2>2, <1>c
    <2> QED BY <2>1, <2>3, <2>4, <1>d
  <1>4. \A i \in 1 .. Len(t) : t[i].part \in {"head", "crlf"} => i < Len(t)
    <2> TAKE i \in 1 .. Len(t)
    <2> HAVE t[i].part \in {"head", "crlf"}
    <2>1. t[i] = w[i]
      BY <1>f, <1>c
    <2> QED BY <2>1, <1>c DEF Unread
  <1>5. ASSUME NEW i \in 1 .. Len(t), t[i].part = "len"
        PROVE  i + 2 <= Len(t) /\ t[i + 2].part = "body"
    <2>1. t[i] = w[i]
      BY <1>f, <1>c, <1>5
    <2>2. i + 2 <= Len(w) /\ w[i + 2].part = "body"
      BY <2>1, <1>c, <1>5 DEF Unread
    <2>3. i + 2 \in 2 .. Len(w)
      BY <2>2, <1>0, <1>c, SMTT(30)
    <2> QED BY <2>2, <2>3, <1>c
  <1>6. ASSUME NEW i \in 1 .. Len(t) - 2, t[i].part = "head", t[i + 1].part = "blank"
        PROVE  t[i + 2].part # "body"
    <2>1. /\ i \in 1 .. Len(w) - 2 /\ i \in 1 .. Len(w)
          /\ i + 1 \in 2 .. Len(w) /\ i + 2 \in 2 .. Len(w)
      BY <1>0, <1>c, SMTT(30)
    <2>2. t[i] = w[i]
      BY <1>f, <2>1, <1>6
    <2> QED BY <2>1, <2>2, <1>c, <1>6 DEF Unread
  <1>7. \A i, j \in 1 .. Len(t) : i <= j => t[i].n <= t[j].n
    BY <1>c, <1>e DEF Unread
  <1>8. t[Len(t)].n = k
    <2>1. Len(w) \in 1 .. Len(w)
      BY <1>0, SMTT(30)
    <2> QED BY <2>1, <1>c, <1>e DEF Unread
  <1>9. Unread(t, k, FALSE)
    BY <1>c, <1>1, <1>2, <1>3, <1>4, <1>5, <1>6, <1>7, <1>8 DEF Unread
  <1> QED BY <1>9, <1>c, <1>e DEF t

(* A message as a client sends it, perhaps after a keep-alive.              *)
Messages(n, ws) ==
    IF ws THEN {<<Part(n, "frame")>>}
    ELSE {Lines(n, TRUE), Lines(n, FALSE), <<Part(n, "crlf")>> \o Lines(n, FALSE)}

(* It is a stream of its own, all of one message.                           *)
LEMMA NewMessage ==
    ASSUME NEW n \in Nat, n >= 1, NEW ws \in BOOLEAN, NEW l \in Messages(n, ws)
    PROVE  /\ Unread(l, n, ws)
           /\ l # <<>> /\ l[1].part \in {"head", "crlf", "frame"}
           /\ \A i \in 1 .. Len(l) : l[i].n = n
  <1>a. \A q \in {"head", "len", "blank", "body", "crlf", "frame"} :
            Part(n, q) \in Line /\ Part(n, q).n = n /\ Part(n, q).part = q
    BY SMTT(30) DEF Part, Line
  <1>1. CASE ws
    <2>1. l = <<Part(n, "frame")>>
      BY <1>1 DEF Messages
    <2>2. l \in Seq(Line) /\ Len(l) = 1 /\ l[1] = Part(n, "frame") /\ l # <<>>
      BY <2>1, <1>a, SMTT(30)
    <2> HIDE <2>1
    <2>3. \A i \in 1 .. Len(l) : i = 1
      BY <2>2, SMTT(30)
    <2>4. 1 .. Len(l) - 1 = {} /\ 1 .. Len(l) - 2 = {} /\ 2 .. Len(l) = {} /\ n <= n /\ ws = TRUE
      BY <2>2, <1>1, SMTT(30)
    <2> QED BY <2>2, <2>3, <2>4, <1>a DEF Unread
  <1>2. CASE ~ws /\ l = Lines(n, TRUE)
    <2>1. l = <<Part(n, "head"), Part(n, "len"), Part(n, "blank"), Part(n, "body")>>
      BY <1>2 DEF Lines
    <2>2. /\ l \in Seq(Line) /\ Len(l) = 4
          /\ l[1] = Part(n, "head") /\ l[2] = Part(n, "len")
          /\ l[3] = Part(n, "blank") /\ l[4] = Part(n, "body")
      BY <2>1, <1>a, SMTT(30)
    <2> HIDE <2>1
    <2>3. Follows(l[1], l[2]) /\ Follows(l[2], l[3]) /\ Follows(l[3], l[4])
      BY <2>2, <1>a, SMTT(30) DEF Follows
    <2>4. \A i \in 1 .. Len(l) - 1 : Follows(l[i], l[i + 1])
      BY <2>2, <2>3, SMTT(30)
    <2>5. \A i \in 1 .. Len(l) : l[i].n = n /\ l[i].part # "rest" /\ (l[i].part = "frame") = FALSE
      BY <2>2, <1>a, SMTT(30)
    <2>6. \A i \in 1 .. Len(l) : l[i].part \in {"head", "crlf"} => i < Len(l)
      BY <2>2, <1>a, SMTT(30)
    <2>7. \A i \in 1 .. Len(l) : l[i].part = "len" => i + 2 <= Len(l) /\ l[i + 2].part = "body"
      BY <2>2, <1>a, SMTT(30)
    <2>8. \A i \in 1 .. Len(l) - 2 :
             l[i].part = "head" /\ l[i + 1].part = "blank" => l[i + 2].part # "body"
      BY <2>2, <1>a, SMTT(30)
    <2>9. Len(l) \in 1 .. Len(l) /\ \A i \in 2 .. Len(l) : i \in 1 .. Len(l)
      BY <2>2, SMTT(30)
    <2>p. l[1].part \in {"head", "crlf", "frame"}
      BY <2>2, <1>a
    <2>q. l # <<>>
      <3>1. Len(l) # 0 /\ Len(<<>>) = 0
        BY <2>9, SMTT(30)
      <3> QED BY <3>1
    <2>10. ws = FALSE /\ n <= n
      BY <1>2, SMTT(30)
    <2> QED BY <2>2, <2>4, <2>5, <2>6, <2>7, <2>8, <2>9, <2>10, <2>p, <2>q DEF Unread
  <1>3. CASE ~ws /\ l = Lines(n, FALSE)
    <2>1. l = <<Part(n, "head"), Part(n, "blank")>>
      BY <1>3 DEF Lines
    <2>2. l \in Seq(Line) /\ Len(l) = 2 /\ l[1] = Part(n, "head") /\ l[2] = Part(n, "blank")
      BY <2>1, <1>a, SMTT(30)
    <2> HIDE <2>1
    <2>3. Follows(l[1], l[2])
      BY <2>2, <1>a, SMTT(30) DEF Follows
    <2>4. \A i \in 1 .. Len(l) - 1 : Follows(l[i], l[i + 1])
      BY <2>2, <2>3, SMTT(30)
    <2>5. \A i \in 1 .. Len(l) : l[i].n = n /\ l[i].part # "rest" /\ (l[i].part = "frame") = FALSE
      BY <2>2, <1>a, SMTT(30)
    <2>6. \A i \in 1 .. Len(l) : l[i].part \in {"head", "crlf"} => i < Len(l)
      BY <2>2, <1>a, SMTT(30)
    <2>7. \A i \in 1 .. Len(l) : l[i].part = "len" => i + 2 <= Len(l) /\ l[i + 2].part = "body"
      BY <2>2, <1>a, SMTT(30)
    <2>8. \A i \in 1 .. Len(l) - 2 :
             l[i].part = "head" /\ l[i + 1].part = "blank" => l[i + 2].part # "body"
      BY <2>2, <1>a, SMTT(30)
    <2>9. Len(l) \in 1 .. Len(l) /\ \A i \in 2 .. Len(l) : i \in 1 .. Len(l)
      BY <2>2, SMTT(30)
    <2>p. l[1].part \in {"head", "crlf", "frame"}
      BY <2>2, <1>a
    <2>q. l # <<>>
      <3>1. Len(l) # 0 /\ Len(<<>>) = 0
        BY <2>9, SMTT(30)
      <3> QED BY <3>1
    <2>10. ws = FALSE /\ n <= n
      BY <1>3, SMTT(30)
    <2> QED BY <2>2, <2>4, <2>5, <2>6, <2>7, <2>8, <2>9, <2>10, <2>p, <2>q DEF Unread
  <1>4. CASE ~ws /\ l = <<Part(n, "crlf")>> \o Lines(n, FALSE)
    <2>1. l = <<Part(n, "crlf")>> \o <<Part(n, "head"), Part(n, "blank")>>
      BY <1>4 DEF Lines
    <2>2. /\ l \in Seq(Line) /\ Len(l) = 3
          /\ l[1] = Part(n, "crlf") /\ l[2] = Part(n, "head") /\ l[3] = Part(n, "blank")
      BY <2>1, <1>a, SMTT(30)
    <2> HIDE <2>1
    <2>3. Follows(l[1], l[2]) /\ Follows(l[2], l[3])
      BY <2>2, <1>a, SMTT(30) DEF Follows
    <2>4. \A i \in 1 .. Len(l) - 1 : Follows(l[i], l[i + 1])
      BY <2>2, <2>3, SMTT(30)
    <2>5. \A i \in 1 .. Len(l) : l[i].n = n /\ l[i].part # "rest" /\ (l[i].part = "frame") = FALSE
      BY <2>2, <1>a, SMTT(30)
    <2>6. \A i \in 1 .. Len(l) : l[i].part \in {"head", "crlf"} => i < Len(l)
      BY <2>2, <1>a, SMTT(30)
    <2>7. \A i \in 1 .. Len(l) : l[i].part = "len" => i + 2 <= Len(l) /\ l[i + 2].part = "body"
      BY <2>2, <1>a, SMTT(30)
    <2>8. \A i \in 1 .. Len(l) - 2 :
             l[i].part = "head" /\ l[i + 1].part = "blank" => l[i + 2].part # "body"
      BY <2>2, <1>a, SMTT(30)
    <2>9. Len(l) \in 1 .. Len(l) /\ \A i \in 2 .. Len(l) : i \in 1 .. Len(l)
      BY <2>2, SMTT(30)
    <2>p. l[1].part \in {"head", "crlf", "frame"}
      BY <2>2, <1>a
    <2>q. l # <<>>
      <3>1. Len(l) # 0 /\ Len(<<>>) = 0
        BY <2>9, SMTT(30)
      <3> QED BY <3>1
    <2>10. ws = FALSE /\ n <= n
      BY <1>4, SMTT(30)
    <2> QED BY <2>2, <2>4, <2>5, <2>6, <2>7, <2>8, <2>9, <2>10, <2>p, <2>q DEF Unread
  <1> QED BY <1>1, <1>2, <1>3, <1>4 DEF Messages

(* A stream goes on with the next message.                                  *)
LEMMA Extended ==
    ASSUME NEW k \in Nat, NEW ws \in BOOLEAN, NEW s, Unread(s, k, ws),
           NEW l \in Messages(k + 1, ws)
    PROVE  Unread(s \o l, k + 1, ws)
  <1> DEFINE t == s \o l
  <1>a. k + 1 \in Nat /\ k + 1 >= 1
    BY SMTT(30)
  <1>b. /\ Unread(l, k + 1, ws)
        /\ l # <<>> /\ l[1].part \in {"head", "crlf", "frame"}
        /\ \A i \in 1 .. Len(l) : l[i].n = k + 1
    BY <1>a, NewMessage
  <1>c. s \in Seq(Line) /\ l \in Seq(Line) /\ Len(l) >= 1
    BY <1>b, SMTT(30) DEF Unread
  <1>d. /\ t \in Seq(Line) /\ Len(s) \in Nat /\ Len(l) \in Nat
        /\ Len(t) = Len(s) + Len(l)
        /\ \A i \in 1 .. Len(s) : t[i] = s[i]
        /\ \A i \in 1 .. Len(l) : t[Len(s) + i] = l[i]
    BY <1>c, Joined, SMTT(30)
  <1> HIDE DEF t
  <1>e. ASSUME NEW i \in 1 .. Len(t)
        PROVE  \/ i \in 1 .. Len(s)
               \/ \E j \in 1 .. Len(l) : i = Len(s) + j
    <2>1. i \in 1 .. Len(s) \/ (i - Len(s) \in 1 .. Len(l) /\ i = Len(s) + (i - Len(s)))
      BY <1>d, SMTT(30)
    <2> QED BY <2>1
  <1>f. \A i \in 1 .. Len(s) : s[i].n <= k
    <2> TAKE i \in 1 .. Len(s)
    <2>1. Len(s) \in 1 .. Len(s) /\ i <= Len(s) /\ s # <<>>
      BY <1>c, <1>d, SMTT(30)
    <2> QED BY <2>1 DEF Unread
  <1>1. \A i \in 1 .. Len(t) : (t[i].part = "frame") = ws /\ t[i].n >= 1
    <2> TAKE i \in 1 .. Len(t)
    <2>1. CASE i \in 1 .. Len(s)
      <3>1. (s[i].part = "frame") = ws /\ s[i].n >= 1
        BY <2>1 DEF Unread
      <3> QED BY <2>1, <3>1, <1>d
    <2>2. CASE \E j \in 1 .. Len(l) : i = Len(s) + j
      <3>1. PICK j \in 1 .. Len(l) : i = Len(s) + j
        BY <2>2
      <3>2. (l[j].part = "frame") = ws /\ l[j].n >= 1
        BY <1>b DEF Unread
      <3> QED BY <3>1, <3>2, <1>d
    <2> QED BY <2>1, <2>2, <1>e
  <1>2. ASSUME NEW i \in 2 .. Len(t) PROVE t[i].part # "rest"
    <2>0. i \in 1 .. Len(t)
      BY <1>d, SMTT(30)
    <2>1. CASE i \in 1 .. Len(s)
      <3>1. i \in 2 .. Len(s)
        BY <2>1, <1>d, SMTT(30)
      <3> QED BY <2>1, <3>1, <1>d DEF Unread
    <2>2. CASE \E j \in 1 .. Len(l) : i = Len(s) + j
      <3>1. PICK j \in 1 .. Len(l) : i = Len(s) + j
        BY <2>2
      <3>2. j = 1 \/ j \in 2 .. Len(l)
        BY <1>d, SMTT(30)
      <3>3. l[j].part # "rest"
        BY <3>2, <1>b DEF Unread
      <3> QED BY <3>1, <3>3, <1>d
    <2> QED BY <2>0, <2>1, <2>2, <1>e
  <1>last. ASSUME Len(s) >= 1
           PROVE  /\ s[Len(s)].n = k /\ s[Len(s)].part \in {"blank", "body", "rest", "frame"}
                  /\ s[Len(s)].part = "frame" <=> ws
    <2>1. Len(s) \in 1 .. Len(s) /\ s # <<>> /\ ~(Len(s) < Len(s)) /\ ~(Len(s) + 2 <= Len(s))
      BY <1>last, <1>d, SMTT(30)
    <2>2. /\ s[Len(s)].n = k /\ s[Len(s)].part \notin {"head", "crlf", "len"}
          /\ (s[Len(s)].part = "frame") = ws
      BY <2>1 DEF Unread
    <2>3. s[Len(s)] \in Line
      BY <2>1, <1>c, SMTT(30)
    <2> QED BY <2>2, <2>3, SMTT(30) DEF Line
  <1>first. l[1].n = k + 1 /\ (l[1].part = "frame" <=> ws) /\ 1 \in 1 .. Len(l)
    <2>1. 1 \in 1 .. Len(l)
      BY <1>c, <1>d, SMTT(30)
    <2>2. (l[1].part = "frame") = ws
      BY <2>1, <1>b DEF Unread
    <2> QED BY <2>1, <2>2, <1>b
  <1>3. ASSUME NEW i \in 1 .. Len(t) - 1 PROVE Follows(t[i], t[i + 1])
    <2>1. CASE i < Len(s)
      <3>1. i \in 1 .. Len(s) - 1 /\ i \in 1 .. Len(s) /\ i + 1 \in 1 .. Len(s)
        BY <2>1, <1>d, SMTT(30)
      <3>2. Follows(s[i], s[i + 1])
        BY <3>1 DEF Unread
      <3> QED BY <3>1, <3>2, <1>d
    <2>2. CASE i = Len(s)
      <3>1. Len(s) >= 1 /\ i \in 1 .. Len(s)
        BY <2>2, <1>d, SMTT(30)
      <3>2. t[i] = s[Len(s)] /\ t[i + 1] = l[1]
        BY <3>1, <2>2, <1>d, <1>first
      <3> QED BY <3>1, <3>2, <1>last, <1>first, <1>b, SMTT(30) DEF Follows
    <2>3. CASE i > Len(s)
      <3> DEFINE j == i - Len(s)
      <3>1. j \in 1 .. Len(l) - 1 /\ j \in 1 .. Len(l) /\ j + 1 \in 1 .. Len(l)
            /\ i = Len(s) + j /\ i + 1 = Len(s) + (j + 1)
        BY <2>3, <1>d, SMTT(30)
      <3> HIDE DEF j
      <3>2. Follows(l[j], l[j + 1])
        BY <3>1, <1>b DEF Unread
      <3>3. t[i] = l[j] /\ t[i + 1] = l[j + 1]
        BY <3>1, <1>d
      <3> QED BY <3>2, <3>3
    <2> QED BY <2>1, <2>2, <2>3, <1>d, SMTT(30)
  <1>4. ASSUME NEW i \in 1 .. Len(t), t[i].part \in {"head", "crlf"} PROVE i < Len(t)
    <2>1. CASE i \in 1 .. Len(s)
      BY <2>1, <1>c, <1>d, SMTT(30)
    <2>2. CASE \E j \in 1 .. Len(l) : i = Len(s) + j
      <3>1. PICK j \in 1 .. Len(l) : i = Len(s) + j
        BY <2>2
      <3>2. t[i] = l[j]
        BY <3>1, <1>d
      <3>3. j < Len(l)
        BY <3>2, <1>4, <1>b DEF Unread
      <3> QED BY <3>1, <3>3, <1>d, SMTT(30)
    <2> QED BY <2>1, <2>2, <1>e
  <1>5. ASSUME NEW i \in 1 .. Len(t), t[i].part = "len"
        PROVE  i + 2 <= Len(t) /\ t[i + 2].part = "body"
    <2>1. CASE i \in 1 .. Len(s)
      <3>1. i + 2 <= Len(s) /\ s[i + 2].part = "body"
        BY <2>1, <1>d, <1>5 DEF Unread
      <3>2. i + 2 \in 1 .. Len(s) /\ i + 2 <= Len(t)
        BY <3>1, <1>d, SMTT(30)
      <3> QED BY <3>1, <3>2, <1>d
    <2>2. CASE \E j \in 1 .. Len(l) : i = Len(s) + j
      <3>1. PICK j \in 1 .. Len(l) : i = Len(s) + j
        BY <2>2
      <3>2. t[i] = l[j]
        BY <3>1, <1>d
      <3>3. j + 2 <= Len(l) /\ l[j + 2].part = "body"
        BY <3>2, <1>5, <1>b DEF Unread
      <3>4. j + 2 \in 1 .. Len(l) /\ i + 2 = Len(s) + (j + 2) /\ i + 2 <= Len(t)
        BY <3>1, <3>3, <1>d, SMTT(30)
      <3>5. t[i + 2] = l[j + 2]
        BY <3>4, <1>d, SMTT(30)
      <3> QED BY <3>3, <3>4, <3>5
    <2> QED BY <2>1, <2>2, <1>e
  <1>6. ASSUME NEW i \in 1 .. Len(t) - 2, t[i].part = "head", t[i + 1].part = "blank"
        PROVE  t[i + 2].part # "body"
    <2>1. CASE i + 2 <= Len(s)
      <3>1. /\ i \in 1 .. Len(s) - 2 /\ i \in 1 .. Len(s)
            /\ i + 1 \in 1 .. Len(s) /\ i + 2 \in 1 .. Len(s)
        BY <2>1, <1>d, SMTT(30)
      <3>2. t[i] = s[i] /\ t[i + 1] = s[i + 1] /\ t[i + 2] = s[i + 2]
        BY <3>1, <1>d
      <3> QED BY <3>1, <3>2, <1>6 DEF Unread
    <2>2. CASE i + 1 = Len(s)
      <3>1. i + 2 = Len(s) + 1
        BY <2>2, <1>d, SMTT(30)
      <3>2. t[i + 2] = l[1]
        BY <3>1, <1>d, <1>first
      <3> QED BY <3>2, <1>b
    <2>3. CASE i = Len(s)
      <3>1. Len(s) >= 1 /\ i \in 1 .. Len(s)
        BY <2>3, <1>d, SMTT(30)
      <3>2. t[i] = s[Len(s)]
        BY <3>1, <2>3, <1>d
      <3> QED BY <3>1, <3>2, <1>last, <1>6
    <2>4. CASE i > Len(s)
      <3> DEFINE j == i - Len(s)
      <3>1. /\ j \in 1 .. Len(l) - 2 /\ j \in 1 .. Len(l) /\ j + 1 \in 1 .. Len(l) /\ j + 2 \in 1 .. Len(l)
            /\ i = Len(s) + j /\ i + 1 = Len(s) + (j + 1) /\ i + 2 = Len(s) + (j + 2)
        BY <2>4, <1>d, SMTT(30)
      <3> HIDE DEF j
      <3>2. t[i] = l[j] /\ t[i + 1] = l[j + 1] /\ t[i + 2] = l[j + 2]
        BY <3>1, <1>d
      <3> QED BY <3>1, <3>2, <1>6, <1>b DEF Unread
    <2> QED BY <2>1, <2>2, <2>3, <2>4, <1>d, SMTT(30)
  <1>n. \A i \in 1 .. Len(t) : (i \in 1 .. Len(s) /\ t[i].n = s[i].n) \/ (i > Len(s) /\ t[i].n = k + 1)
    <2> TAKE i \in 1 .. Len(t)
    <2>1. CASE i \in 1 .. Len(s)
      BY <2>1, <1>d
    <2>2. CASE \E j \in 1 .. Len(l) : i = Len(s) + j
      <3>1. PICK j \in 1 .. Len(l) : i = Len(s) + j
        BY <2>2
      <3>2. i > Len(s)
        BY <3>1, <1>d, SMTT(30)
      <3>3. t[i].n = k + 1
        BY <3>1, <1>b, <1>d
      <3> QED BY <3>2, <3>3
    <2> QED BY <2>1, <2>2, <1>e
  <1>7. ASSUME NEW i \in 1 .. Len(t), NEW j \in 1 .. Len(t), i <= j PROVE t[i].n <= t[j].n
    <2>1. CASE j \in 1 .. Len(s) /\ t[j].n = s[j].n
      <3>1. i \in 1 .. Len(s)
        BY <2>1, <1>7, <1>d, SMTT(30)
      <3>2. s[i].n <= s[j].n
        BY <3>1, <2>1, <1>7 DEF Unread
      <3>3. t[i].n = s[i].n
        BY <3>1, <1>d
      <3> QED BY <3>2, <3>3, <2>1
    <2>2. CASE t[j].n = k + 1
      <3>1. CASE i \in 1 .. Len(s) /\ t[i].n = s[i].n
        <4>1. s[i].n <= k /\ s[i] \in Line
          BY <3>1, <1>f, <1>c, SMTT(30)
        <4>2. s[i].n \in Nat
          BY <4>1, SMTT(30) DEF Line
        <4> QED BY <4>1, <4>2, <3>1, <2>2, SMTT(30)
      <3>2. CASE t[i].n = k + 1
        BY <3>2, <2>2, SMTT(30)
      <3> QED BY <3>1, <3>2, <1>n
    <2> QED BY <2>1, <2>2, <1>n
  <1>8. t[Len(t)].n = k + 1
    <2>1. Len(t) \in 1 .. Len(t) /\ Len(t) \notin 1 .. Len(s)
      BY <1>c, <1>d, SMTT(30)
    <2> QED BY <2>1, <1>n
  <1>9. Unread(t, k + 1, ws)
    BY <1>d, <1>1, <1>2, <1>3, <1>4, <1>5, <1>6, <1>7, <1>8 DEF Unread
  <1> QED BY <1>9 DEF t

-----------------------------------------------------------------------------
(* AwaitsBody, of the lines that a read holds.                              *)
Waits(p) == p # <<>> /\ IsBlank(p[Len(p)])

(* A number of a range is its first or a later one.                         *)
LEMMA OneOrMore ==
    ASSUME NEW a \in Nat, a >= 1, NEW m, NEW d \in Nat, m = a + d
    PROVE  a = 1 \/ (a \in 2 .. a /\ a \in 2 .. m)
  BY SMTT(30)

(* One more than nothing.                                                   *)
LEMMA NoneBefore ==
    ASSUME NEW a \in Nat, NEW m, m = 1, m = a + 1
    PROVE  a = 0
  BY SMTT(30)

(* The three facts about what a read holds.                                 *)
LEMMA HeldIf ==
    ASSUME NEW b \in Seq(Line),
           \A i \in 1 .. Len(b) : IsBlank(b[i]) => i = Len(b) /\ i > 1 /\ b[i - 1].part = "len",
           \A i \in 2 .. Len(b) : (b[i].part = "head" => i = 2) /\ b[i].part # "body",
           \A i \in 1 .. Len(b) : b[i].n = b[1].n \/ (b[1].part # "head" /\ b[i].n = b[1].n + 1)
    PROVE  Held(b)
  BY DEF Held

(* The line after those that a read holds.                                  *)
LEMMA NextLine ==
    ASSUME NEW p, NEW w \in Seq(Line), NEW k, Unread(p \o w, k, FALSE), Held(p),
           w # <<>>, p # <<>>, ~Waits(p)
    PROVE  LET x == p[Len(p)]
               y == Head(w)
           IN  /\ Len(p) \in Nat /\ Len(p) >= 1 /\ x \in Line /\ y \in Line
               /\ Follows(x, y)
               /\ x.part \in {"head", "len", "body", "rest"}
               /\ y.part \notin {"rest", "frame", "body"}
               /\ x.part = "rest" \/ x.part = "body" => Len(p) = 1
               /\ y.part \in {"head", "crlf"} => Len(p) = 1 /\ x.part \in {"body", "rest"} /\ y.n = x.n + 1
               /\ y.part \notin {"head", "crlf"} => y.n = x.n
               /\ y.part = "blank" => x.part \in {"head", "len", "rest"}
  <1> DEFINE x == p[Len(p)] y == Head(w) s == p \o w
  <1>1. p \in Seq(Line) /\ Len(p) \in Nat /\ Len(p) >= 1 /\ Len(p) \in 1 .. Len(p) /\ x \in Line
    BY SMTT(30) DEF Held
  <1>2. y \in Line /\ y = w[1] /\ Len(w) \in Nat /\ Len(w) >= 1
    BY Dropped, SMTT(30)
  <1>3. /\ s \in Seq(Line)
        /\ Len(s) = Len(p) + Len(w)
        /\ \A i \in 1 .. Len(p) : s[i] = p[i]
        /\ \A i \in 1 .. Len(w) : s[Len(p) + i] = w[i]
    BY <1>1, Joined, SMTT(30)
  <1>4. s[Len(p)] = x /\ s[Len(p) + 1] = y
    BY <1>1, <1>2, <1>3, SMTT(30)
  <1> HIDE DEF x, y, s
  <1>5. Unread(s, k, FALSE)
    BY DEF s
  <1>6. Len(p) \in 1 .. Len(s) - 1 /\ Len(p) \in 1 .. Len(s) /\ Len(p) + 1 \in 2 .. Len(s) /\ Len(p) + 1 \in 1 .. Len(s)
    BY <1>1, <1>2, <1>3, SMTT(30)
  <1>7. Follows(x, y)
    BY <1>4, <1>5, <1>6 DEF Unread
  <1>8. x.part # "frame" /\ y.part # "frame" /\ y.part # "rest"
    BY <1>4, <1>5, <1>6 DEF Unread
  <1>9. ~IsBlank(x)
    BY DEF Waits, x
  <1>10. x.part \in {"head", "len", "body", "rest"}
    BY <1>1, <1>8, <1>9, SMTT(30) DEF Line, IsBlank
  <1>11. ASSUME x.part = "rest" \/ x.part = "body" PROVE Len(p) = 1
    <2>0. Len(s) = Len(p) + Len(w)
      BY <1>3
    <2>1. Len(p) = 1 \/ (Len(p) \in 2 .. Len(p) /\ Len(p) \in 2 .. Len(s))
      BY <2>0, <1>1, <1>2, OneOrMore
    <2>2. Len(p) \in 2 .. Len(s) => x.part # "rest"
      BY <1>4, <1>5 DEF Unread
    <2>3. Len(p) \in 2 .. Len(p) => x.part # "body"
      BY DEF Held, x
    <2> QED BY <2>1, <2>2, <2>3, <1>11
  <1>12. y.part \in {"head", "len", "blank", "body", "crlf"}
    BY <1>2, <1>8, SMTT(30) DEF Line
  <1>13. /\ y.part # "body"
         /\ y.part \in {"head", "crlf"} => x.part \in {"body", "rest"} /\ y.n = x.n + 1
         /\ y.part \notin {"head", "crlf"} => y.n = x.n
         /\ y.part = "blank" => x.part \in {"head", "len", "rest"}
    BY <1>7, <1>10, <1>12, SMTT(30) DEF Follows
  <1>14. y.part \in {"head", "crlf"} => Len(p) = 1
    BY <1>11, <1>13
  <1> QED BY <1>1, <1>2, <1>7, <1>8, <1>10, <1>11, <1>13, <1>14 DEF x, y

(* When a header ends and the line before is no Content-Length, there is    *)
(* none.                                                                    *)
LEMMA NoLength ==
    ASSUME NEW p, NEW w \in Seq(Line), NEW k, Unread(p \o w, k, FALSE), Held(p),
           w # <<>>, p # <<>>, ~Waits(p), IsBlank(Head(w)), p[Len(p)].part # "len"
    PROVE  \A i \in 1 .. Len(p) : p[i].part # "len"
  <1> DEFINE x == p[Len(p)] y == Head(w) s == p \o w
  <1>1. /\ Len(p) \in Nat /\ Len(p) >= 1
        /\ x.part \in {"head", "len", "body", "rest"}
        /\ x.part = "rest" \/ x.part = "body" => Len(p) = 1
    BY NextLine
  <1>2. p \in Seq(Line)
    BY DEF Held
  <1>3. /\ Len(s) = Len(p) + Len(w) /\ Len(w) \in Nat
        /\ \A i \in 1 .. Len(p) : s[i] = p[i]
    BY <1>2, Joined, SMTT(30)
  <1>4. CASE Len(p) = 1
    <2>1. \A i \in 1 .. Len(p) : i = Len(p)
      BY <1>4, SMTT(30)
    <2> QED BY <2>1
  <1>5. CASE Len(p) >= 2
    <2>1. x.part = "head" /\ Len(p) \in 2 .. Len(p)
      BY <1>1, <1>5, SMTT(30)
    <2>2. Len(p) = 2
      BY <2>1 DEF Held
    <2>3. 1 \in 1 .. Len(s) - 1 /\ 1 \in 1 .. Len(p) /\ 1 + 1 \in 1 .. Len(p) /\ 1 + 1 = Len(p)
      BY <1>3, <2>2, SMTT(30)
    <2>4. Follows(p[1], x)
      <3>1. Follows(s[1], s[1 + 1])
        BY <2>3 DEF Unread
      <3>2. s[1] = p[1] /\ s[1 + 1] = p[1 + 1]
        BY <2>3, <1>3
      <3>3. s[1 + 1] = x
        BY <2>3, <3>2
      <3> QED BY <3>1, <3>2, <3>3
    <2>5. p[1].part # "len"
      BY <2>1, <2>4 DEF Follows
    <2>6. \A i \in 1 .. Len(p) : i = 1 \/ i = Len(p)
      BY <2>2, SMTT(30)
    <2> QED BY <2>5, <2>6
  <1> QED BY <1>1, <1>4, <1>5, SMTT(30)

(* A read that goes on holds one line more.                                 *)
LEMMA HeldOn ==
    ASSUME NEW p, NEW w \in Seq(Line), NEW k, Unread(p \o w, k, FALSE), Held(p),
           w # <<>>, ~Waits(p),
           LET lines == Append(p, Head(w))
           IN  IsBlank(Head(w)) => Len(lines) # 1 /\ \E i \in DOMAIN lines : lines[i].part = "len"
    PROVE  Held(Append(p, Head(w)))
  <1> DEFINE y == Head(w) b == Append(p, y) m == Len(p)
  <1>1. p \in Seq(Line) /\ m \in Nat
    BY SMTT(30) DEF Held
  <1>2. y \in Line
    BY Dropped
  <1>3. /\ b \in Seq(Line) /\ Len(b) = m + 1 /\ DOMAIN b = 1 .. m + 1
        /\ \A i \in 1 .. m : b[i] = p[i]
        /\ b[m + 1] = y
    BY <1>1, <1>2, Appended, SMTT(30)
  <1>4. IsBlank(y) => Len(b) # 1 /\ \E i \in DOMAIN b : b[i].part = "len"
    OBVIOUS
  <1>w. p # <<>> => ~IsBlank(p[m])
    BY DEF Waits
  <1>g. p # <<>> =>
          /\ m >= 1 /\ p[m].part \in {"head", "len", "body", "rest"}
          /\ y.part \notin {"rest", "frame", "body"}
          /\ y.part \in {"head", "crlf"} => m = 1 /\ p[m].part \in {"body", "rest"} /\ y.n = p[m].n + 1
          /\ y.part \notin {"head", "crlf"} => y.n = p[m].n
          /\ y.part = "blank" => p[m].part \in {"head", "len", "rest"}
    BY NextLine
  <1>h. p # <<>> /\ IsBlank(y) /\ p[m].part # "len" => \A i \in 1 .. m : p[i].part # "len"
    BY NoLength
  <1> HIDE DEF y, b, m
  <1>i. \A i \in 1 .. Len(b) : i \in 1 .. m \/ i = m + 1
    BY <1>1, <1>3, SMTT(30)
  <1>5. ASSUME p = <<>> PROVE Held(b)
    <2>1. m = 0
      BY <1>5, SMTT(30) DEF m
    <2>2. Len(b) = 1 /\ b[1] = y /\ ~IsBlank(y)
      BY <2>1, <1>3, <1>4, SMTT(30)
    <2>3. \A i \in 1 .. Len(b) : i = 1
      BY <2>2, SMTT(30)
    <2>4. \A i \in 2 .. Len(b) : FALSE
      BY <2>2, SMTT(30)
    <2>5. \A i \in 1 .. Len(b) : ~IsBlank(b[i]) /\ b[i].n = b[1].n
      BY <2>2, <2>3
    <2> QED BY <2>4, <2>5, <1>3, HeldIf
  <1>6. ASSUME p # <<>> PROVE Held(b)
    <2>0. m >= 1 /\ 1 \in 1 .. m /\ m \in 1 .. m
      BY <1>6, <1>g, <1>1, SMTT(30)
    <2>a. b[1] = p[1] /\ b[m] = p[m]
      BY <2>0, <1>3
    <2>b. IsBlank(y) => p[m].part = "len"
      <3> SUFFICES ASSUME IsBlank(y), p[m].part # "len" PROVE FALSE
        OBVIOUS
      <3>1. PICK i \in DOMAIN b : b[i].part = "len"
        BY <1>4
      <3>2. i \in 1 .. m \/ i = m + 1
        BY <1>3, <1>1, SMTT(30)
      <3>3. CASE i \in 1 .. m
        BY <3>1, <3>3, <1>3, <1>h, <1>6
      <3>4. CASE i = m + 1
        BY <3>1, <3>4, <1>3 DEF IsBlank
      <3> QED BY <3>2, <3>3, <3>4
    <2>1. ASSUME NEW i \in 1 .. Len(b), IsBlank(b[i])
          PROVE  i = Len(b) /\ i > 1 /\ b[i - 1].part = "len"
      <3>1. CASE i \in 1 .. m
        <4>1. b[i] = p[i]
          BY <3>1, <1>3
        <4>2. i = m
          BY <3>1, <4>1, <2>1 DEF Held, m
        <4> QED BY <4>1, <4>2, <1>w, <1>6, <2>1
      <3>2. CASE i = m + 1
        <4>1. IsBlank(y)
          BY <2>1, <3>2, <1>3
        <4>2. i - 1 = m /\ i > 1 /\ i = Len(b)
          BY <3>2, <2>0, <1>1, <1>3, SMTT(30)
        <4> QED BY <4>1, <4>2, <2>a, <2>b
      <3> QED BY <3>1, <3>2, <1>i
    <2>2. ASSUME NEW i \in 2 .. Len(b) PROVE (b[i].part = "head" => i = 2) /\ b[i].part # "body"
      <3>1. CASE i \in 1 .. m
        <4>1. i \in 2 .. m
          BY <3>1, <1>1, SMTT(30)
        <4> QED BY <3>1, <4>1, <1>3 DEF Held, m
      <3>2. CASE i = m + 1
        <4>1. m = 1 => i = 2
          BY <3>2, SMTT(30)
        <4> QED BY <3>2, <4>1, <1>3, <1>g, <1>6
      <3> QED BY <3>1, <3>2, <1>1, <1>3, SMTT(30)
    <2>3. ASSUME NEW i \in 1 .. Len(b)
          PROVE  b[i].n = b[1].n \/ (b[1].part # "head" /\ b[i].n = b[1].n + 1)
      <3>1. CASE i \in 1 .. m
        <4>1. p[i].n = p[1].n \/ (p[1].part # "head" /\ p[i].n = p[1].n + 1)
          BY <3>1 DEF Held, m
        <4> QED BY <4>1, <3>1, <1>3, <2>a
      <3>2. CASE i = m + 1
        <4>1. p[m].n = p[1].n \/ (p[1].part # "head" /\ p[m].n = p[1].n + 1)
          BY <2>0 DEF Held, m
        <4>2. CASE y.part \in {"head", "crlf"}
          BY <4>2, <3>2, <2>a, <1>3, <1>g, <1>6
        <4>3. CASE y.part \notin {"head", "crlf"}
          BY <4>1, <4>3, <3>2, <2>a, <1>3, <1>g, <1>6
        <4> QED BY <4>2, <4>3
      <3> QED BY <3>1, <3>2, <1>i
    <2> QED BY <2>1, <2>2, <2>3, <1>3, HeldIf
  <1> QED BY <1>5, <1>6 DEF b, y

-----------------------------------------------------------------------------
(* The unread s became b, which is handed on, and t.  In step, b is a whole *)
(* message and t is in step; out of step, b is of the two doomed messages,  *)
(* and t is in step unless s began with the rest of a line.                 *)
Handed(s, b, t) ==
    /\ b \in Seq(Line) /\ b # <<>> /\ b[1] = s[1]
    /\ Numbers(s) = Numbers(b) \cup Numbers(t)
    /\ InStep(s) => Message(b) = s[1].n /\ InStep(t) /\ (t # <<>> => t[1].n = s[1].n + 1)
    /\ ~InStep(s) =>
          /\ Numbers(b) \subseteq {s[1].n, s[1].n + 1}
          /\ InStep(t) \/ (s[1].part = "rest" /\ t[1].n = s[1].n /\ t[1].part # "rest")

(* What a read takes and what it leaves.                                    *)
LEMMA TakenLines ==
    ASSUME NEW p \in Seq(Line), NEW w \in Seq(Line), w # <<>>
    PROVE  LET s == p \o w
               b == Append(p, Head(w))
               t == Tail(w)
           IN  /\ b \in Seq(Line) /\ b # <<>> /\ t \in Seq(Line)
               /\ Numbers(s) = Numbers(b) \cup Numbers(t)
               /\ Len(p) \in Nat /\ Len(t) \in Nat /\ Len(b) = Len(p) + 1
               /\ Len(s) = Len(p) + 1 + Len(t)
               /\ b[1] = s[1]
               /\ \A i \in 1 .. Len(p) : s[i] = p[i] /\ b[i] = p[i]
               /\ s[Len(p) + 1] = Head(w) /\ b[Len(p) + 1] = Head(w)
               /\ t # <<>> => Len(t) >= 1 /\ s[Len(p) + 2] = t[1]
  <1> DEFINE s == p \o w b == Append(p, Head(w)) t == Tail(w)
  <1>1. t \in Seq(Line) /\ Head(w) \in Line
    BY Dropped
  <1>2. /\ b \in Seq(Line) /\ b # <<>> /\ Len(b) = Len(p) + 1
        /\ \A i \in 1 .. Len(p) : b[i] = p[i]
        /\ b[Len(p) + 1] = Head(w)
    BY <1>1, Appended, SMTT(30)
  <1>3. s = b \o t
    BY ReadOn
  <1> HIDE DEF s, b, t
  <1>4. /\ Len(b) \in Nat /\ Len(t) \in Nat
        /\ Len(s) = Len(b) + Len(t)
        /\ \A i \in 1 .. Len(b) : s[i] = b[i]
        /\ \A i \in 1 .. Len(t) : s[Len(b) + i] = t[i]
    <2>0. b \in Seq(Line) /\ t \in Seq(Line)
      BY <1>1, <1>2
    <2>1. /\ Len(b) \in Nat /\ Len(t) \in Nat
          /\ Len(b \o t) = Len(b) + Len(t)
          /\ \A i \in 1 .. Len(b) : (b \o t)[i] = b[i]
          /\ \A i \in 1 .. Len(t) : (b \o t)[Len(b) + i] = t[i]
      BY <2>0, Joined, SMTT(30)
    <2> QED BY <2>1, <1>3
  <1>5. Numbers(s) = Numbers(b) \cup Numbers(t)
    BY <1>1, <1>2, <1>3, NumbersJoined
  <1>6. Len(p) \in Nat
    BY SMTT(30)
  <1>7. \A i \in 1 .. Len(p) : i \in 1 .. Len(b)
    BY <1>2, <1>4, <1>6, SMTT(30)
  <1>8. Len(p) + 1 \in 1 .. Len(b) /\ 1 \in 1 .. Len(b)
    BY <1>2, <1>6, SMTT(30)
  <1>9. t # <<>> => Len(t) >= 1 /\ 1 \in 1 .. Len(t)
    BY <1>1, SMTT(30)
  <1>10. Len(b) + 1 = Len(p) + 2 /\ Len(b) + Len(t) = Len(p) + 1 + Len(t)
    BY <1>2, <1>4, <1>6, SMTT(30)
  <1>11. t # <<>> => Len(t) >= 1 /\ s[Len(p) + 2] = t[1]
    <2>1. t # <<>> => s[Len(b) + 1] = t[1]
      BY <1>4, <1>9
    <2> QED BY <2>1, <1>9, <1>10
  <1>12. \A i \in 1 .. Len(p) : s[i] = p[i] /\ b[i] = p[i]
    BY <1>2, <1>4, <1>7
  <1>13. s[Len(p) + 1] = Head(w) /\ b[1] = s[1]
    BY <1>2, <1>4, <1>8
  <1>14. Len(s) = Len(p) + 1 + Len(t)
    BY <1>4, <1>10
  <1> QED BY <1>1, <1>2, <1>4, <1>5, <1>6, <1>11, <1>12, <1>13, <1>14 DEF s, b, t

(* A line is made of its fields.                                            *)
LEMMA LineIs ==
    ASSUME NEW x \in Line
    PROVE  x = Part(x.n, x.part) /\ x.n \in Nat
  BY SMTT(30) DEF Part, Line

(* Lines that are no mangled message start with the start of one.           *)
LEMMA MessageStarts ==
    ASSUME NEW b, Message(b) # Mangled
    PROVE  b[1].part \in {"head", "frame"} /\ Message(b) = b[1].n
  <1> DEFINE n == b[1].n
  <1>1. b \in {Lines(n, TRUE), Lines(n, FALSE), <<Part(n, "frame")>>} /\ Message(b) = n
    BY DEF Message
  <1> HIDE DEF n
  <1>2. Part(n, "head").part = "head" /\ Part(n, "frame").part = "frame"
    BY SMTT(30) DEF Part
  <1>3. Lines(n, TRUE)[1] = Part(n, "head") /\ Lines(n, FALSE)[1] = Part(n, "head")
    BY SMTT(30) DEF Lines
  <1>4. <<Part(n, "frame")>>[1] = Part(n, "frame")
    BY SMTT(30)
  <1>5. b[1].part \in {"head", "frame"}
    BY <1>1, <1>2, <1>3, <1>4
  <1> QED BY <1>1, <1>5 DEF n

(* They are of one message.                                                 *)
LEMMA OneMessage ==
    ASSUME NEW b, Message(b) # Mangled
    PROVE  \A i \in DOMAIN b : b[i].n = b[1].n
  <1> DEFINE n == b[1].n
  <1>1. b \in {Lines(n, TRUE), Lines(n, FALSE), <<Part(n, "frame")>>}
    BY DEF Message
  <1> HIDE DEF n
  <1>2. \A q : Part(n, q).n = n
    BY SMTT(30) DEF Part
  <1>3. \A i \in DOMAIN Lines(n, TRUE) : Lines(n, TRUE)[i].n = n
    BY <1>2, SMTT(30) DEF Lines
  <1>4. \A i \in DOMAIN Lines(n, FALSE) : Lines(n, FALSE)[i].n = n
    BY <1>2, SMTT(30) DEF Lines
  <1>5. \A i \in DOMAIN <<Part(n, "frame")>> : <<Part(n, "frame")>>[i].n = n
    BY <1>2, SMTT(30)
  <1>6. \A i \in DOMAIN b : b[i].n = n
    BY <1>1, <1>3, <1>4, <1>5
  <1> QED BY <1>6 DEF n

(* A message without a body.                                                *)
LEMMA MessageShort ==
    ASSUME NEW x \in Line, NEW y \in Line, x.part = "head", y.part = "blank", y.n = x.n
    PROVE  Message(<<x, y>>) = x.n
  <1>1. x = Part(x.n, "head") /\ y = Part(x.n, "blank")
    BY LineIs
  <1>2. <<x, y>>[1] = x
    BY SMTT(30)
  <1>3. <<x, y>> = Lines(x.n, FALSE)
    BY <1>1 DEF Lines
  <1> QED BY <1>2, <1>3 DEF Message

(* A message with a body.                                                   *)
LEMMA MessageLong ==
    ASSUME NEW x \in Line, NEW y \in Line, NEW z \in Line, NEW u \in Line,
           x.part = "head", y.part = "len", z.part = "blank", u.part = "body",
           y.n = x.n, z.n = x.n, u.n = x.n
    PROVE  Message(<<x, y, z, u>>) = x.n
  <1>1. x = Part(x.n, "head") /\ y = Part(x.n, "len") /\ z = Part(x.n, "blank") /\ u = Part(x.n, "body")
    BY LineIs
  <1>2. <<x, y, z, u>>[1] = x
    BY SMTT(30)
  <1>3. <<x, y, z, u>> = Lines(x.n, TRUE)
    BY <1>1 DEF Lines
  <1> QED BY <1>2, <1>3 DEF Message

(* A WebSocket message.                                                     *)
LEMMA MessageFrame ==
    ASSUME NEW x \in Line, x.part = "frame"
    PROVE  Message(<<x>>) = x.n
  <1>1. x = Part(x.n, "frame")
    BY LineIs
  <1>2. <<x>>[1] = x
    BY SMTT(30)
  <1>3. <<x>> = <<Part(x.n, "frame")>>
    BY <1>1
  <1> QED BY <1>2, <1>3 DEF Message

(* A message whose header ends it is handed on.                             *)
LEMMA HandedShort ==
    ASSUME NEW p, NEW w \in Seq(Line), NEW k, Unread(p \o w, k, FALSE), Held(p),
           w # <<>>, p # <<>>, ~Waits(p), IsBlank(Head(w)),
           \A i \in 1 .. Len(p) : p[i].part # "len"
    PROVE  Handed(p \o w, Append(p, Head(w)), Tail(w))
  <1> DEFINE s == p \o w b == Append(p, Head(w)) t == Tail(w) m == Len(p) y == Head(w)
  <1>0. p \in Seq(Line)
    BY DEF Held
  <1>1. /\ b \in Seq(Line) /\ b # <<>> /\ t \in Seq(Line)
        /\ Numbers(s) = Numbers(b) \cup Numbers(t)
        /\ m \in Nat /\ Len(t) \in Nat /\ Len(b) = m + 1
        /\ Len(s) = m + 1 + Len(t)
        /\ b[1] = s[1]
        /\ \A i \in 1 .. m : s[i] = p[i] /\ b[i] = p[i]
        /\ s[m + 1] = y /\ b[m + 1] = y
        /\ t # <<>> => Len(t) >= 1 /\ s[m + 2] = t[1]
    BY <1>0, TakenLines
  <1>2. /\ m >= 1 /\ p[m] \in Line /\ y \in Line
        /\ Follows(p[m], y)
        /\ p[m].part \in {"head", "len", "body", "rest"}
        /\ p[m].part = "rest" \/ p[m].part = "body" => m = 1
        /\ y.part \in {"head", "crlf"} => m = 1 /\ p[m].part \in {"body", "rest"} /\ y.n = p[m].n + 1
        /\ y.part \notin {"head", "crlf"} => y.n = p[m].n
        /\ y.part = "blank" => p[m].part \in {"head", "len", "rest"}
    BY NextLine
  <1>3. /\ \A i \in 1 .. m : IsBlank(p[i]) => i = m /\ i > 1 /\ p[i - 1].part = "len"
        /\ \A i \in 1 .. m : p[i].n = p[1].n \/ (p[1].part # "head" /\ p[i].n = p[1].n + 1)
    BY DEF Held
  <1>4. Unread(s, k, FALSE)
    OBVIOUS
  <1> HIDE DEF s, b, t, m, y
  <1>5. y.part \in {"blank", "crlf"}
    BY DEF IsBlank, y
  <1>6. 1 \in 1 .. m /\ m \in 1 .. m /\ p[m].part # "len"
    <2>1. 1 \in 1 .. m /\ m \in 1 .. m
      BY <1>1, <1>2, SMTT(30)
    <2> QED BY <2>1 DEF m
  <1>7. s[1] = p[1] /\ s[m] = p[m]
    BY <1>1, <1>6
  <1>8. t # <<>> => m + 2 \in 1 .. Len(s) /\ m + 1 \in 1 .. Len(s) - 1 /\ m \in 1 .. Len(s) - 2 /\ (m + 1) + 1 = m + 2
    BY <1>1, <1>2, SMTT(30)
  <1>9. t # <<>> => Follows(y, t[1])
    BY <1>1, <1>4, <1>8 DEF Unread
  <1>10. t # <<>> /\ p[m].part = "head" /\ y.part = "blank" => t[1].part # "body"
    BY <1>1, <1>4, <1>7, <1>8 DEF Unread
  <1>11. ASSUME InStep(s) PROVE Message(b) = s[1].n /\ InStep(t) /\ (t # <<>> => t[1].n = s[1].n + 1)
    <2>1. p[1].part = "head"
      <3>1. s # <<>>
        BY <1>1, <1>2, SMTT(30) DEF m
      <3>2. p[1].part \in {"head", "crlf", "frame"}
        BY <3>1, <1>7, <1>11 DEF InStep
      <3>3. ~IsBlank(p[1])
        <4>1. ~(1 > 1)
          BY SMTT(30)
        <4> QED BY <4>1, <1>3, <1>6
      <3>4. 1 \in 1 .. Len(s)
        BY <1>1, <1>2, SMTT(30)
      <3>5. p[1].part # "frame"
        BY <3>4, <1>4, <1>7 DEF Unread
      <3> QED BY <3>2, <3>3, <3>5 DEF IsBlank
    <2>2. m = 1
      <3> SUFFICES ASSUME m # 1 PROVE FALSE
        OBVIOUS
      <3>1. 2 \in 1 .. m /\ 1 + 1 = 2 /\ 1 \in 1 .. Len(s) - 1 /\ 2 - 1 = 1
        BY <1>1, <1>2, SMTT(30)
      <3>2. Follows(p[1], p[2])
        <4>1. Follows(s[1], s[1 + 1])
          BY <3>1, <1>4 DEF Unread
        <4>2. s[1 + 1] = p[2]
          BY <3>1, <1>1
        <4> QED BY <4>1, <4>2, <1>7
      <3>3. p[2].part \in {"len", "blank"}
        BY <3>2, <2>1 DEF Follows
      <3>4. p[2].part # "len"
        BY <3>1 DEF m
      <3>5. p[2 - 1].part = "len"
        BY <3>1, <3>3, <3>4, <1>3 DEF IsBlank
      <3> QED BY <3>1, <3>5, <2>1
    <2>3. p[m].part = "head" /\ y.part = "blank" /\ y.n = p[m].n
      BY <2>1, <2>2, <1>2, <1>5
    <2>4. Message(<<p[m], y>>) = p[m].n
      BY <2>3, <1>2, MessageShort
    <2>5. b = <<p[m], y>>
      <3>1. b \in Seq(Line) /\ Len(b) = 2 /\ b[1] = p[m] /\ b[2] = y
        <4>1. Len(b) = 2 /\ m + 1 = 2
          BY <2>2, <1>1, SMTT(30)
        <4> QED BY <4>1, <2>2, <1>1, <1>7
      <3> QED BY <3>1, <1>2, SMTT(30)
    <2>6. t # <<>> => t[1].part \in {"crlf", "head"} /\ t[1].n = y.n + 1
      BY <2>3, <1>9, <1>10 DEF Follows
    <2> QED BY <2>2, <2>3, <2>4, <2>5, <2>6, <1>7 DEF InStep
  <1>12. ASSUME ~InStep(s)
         PROVE  /\ Numbers(b) \subseteq {s[1].n, s[1].n + 1}
                /\ InStep(t) \/ (s[1].part = "rest" /\ t[1].n = s[1].n /\ t[1].part # "rest")
    <2>1. y.n \in {p[1].n, p[1].n + 1}
      <3>1. CASE y.part = "crlf"
        BY <3>1, <1>2
      <3>2. CASE y.part = "blank"
        BY <3>2, <1>2, <1>3, <1>6
      <3> QED BY <3>1, <3>2, <1>5
    <2>2. ASSUME NEW i \in DOMAIN b PROVE b[i].n \in {p[1].n, p[1].n + 1}
      <3>1. i \in 1 .. m \/ i = m + 1
        BY <1>1, SMTT(30)
      <3>2. CASE i \in 1 .. m
        BY <3>2, <1>1, <1>3
      <3>3. CASE i = m + 1
        BY <3>3, <1>1, <2>1
      <3> QED BY <3>1, <3>2, <3>3
    <2>3. Numbers(b) \subseteq {s[1].n, s[1].n + 1}
      BY <2>2, <1>7 DEF Numbers
    <2>4. CASE t = <<>>
      BY <2>3, <2>4 DEF InStep
    <2>5. CASE t # <<>> /\ y.part = "crlf"
      <3>1. t[1].part = "head"
        BY <2>5, <1>9 DEF Follows
      <3> QED BY <3>1, <2>3 DEF InStep
    <2>6. CASE t # <<>> /\ y.part = "blank" /\ p[m].part = "head"
      <3>1. t[1].part \in {"crlf", "head"}
        BY <2>6, <1>9, <1>10 DEF Follows
      <3> QED BY <3>1, <2>3 DEF InStep
    <2>7. CASE t # <<>> /\ y.part = "blank" /\ p[m].part = "rest"
      <3>1. m = 1 /\ y.n = p[m].n
        BY <2>7, <1>2
      <3>2. t[1].part \in {"crlf", "head"} \/ (t[1].part = "body" /\ t[1].n = y.n)
        BY <2>7, <1>9 DEF Follows
      <3> QED BY <3>1, <3>2, <2>3, <2>7, <1>7 DEF InStep
    <2> QED BY <2>4, <2>5, <2>6, <2>7, <1>2, <1>5, <1>6
  <1>13. Handed(s, b, t)
    BY <1>1, <1>11, <1>12 DEF Handed
  <1> QED BY <1>13 DEF s, b, t, y

(* A message whose body has been read is handed on.                         *)
LEMMA HandedLong ==
    ASSUME NEW p, NEW w \in Seq(Line), NEW k, Unread(p \o w, k, FALSE), Held(p),
           w # <<>>, Waits(p)
    PROVE  Handed(p \o w, Append(p, Head(w)), Tail(w))
  <1> DEFINE s == p \o w b == Append(p, Head(w)) t == Tail(w) m == Len(p) y == Head(w)
  <1>0. p \in Seq(Line)
    BY DEF Held
  <1>1. /\ b \in Seq(Line) /\ b # <<>> /\ t \in Seq(Line)
        /\ Numbers(s) = Numbers(b) \cup Numbers(t)
        /\ m \in Nat /\ Len(t) \in Nat /\ Len(b) = m + 1
        /\ Len(s) = m + 1 + Len(t)
        /\ b[1] = s[1]
        /\ \A i \in 1 .. m : s[i] = p[i] /\ b[i] = p[i]
        /\ s[m + 1] = y /\ b[m + 1] = y
        /\ t # <<>> => Len(t) >= 1 /\ s[m + 2] = t[1]
    BY <1>0, TakenLines
  <1>2. m >= 1 /\ m \in 1 .. m /\ IsBlank(p[m])
    <2>1. p # <<>> /\ IsBlank(p[m])
      BY DEF Waits
    <2> QED BY <2>1, <1>0, SMTT(30)
  <1>3. /\ \A i \in 1 .. m : IsBlank(p[i]) => i = m /\ i > 1 /\ p[i - 1].part = "len"
        /\ \A i \in 1 .. m : p[i].n = p[1].n \/ (p[1].part # "head" /\ p[i].n = p[1].n + 1)
    BY DEF Held
  <1>4. Unread(s, k, FALSE)
    OBVIOUS
  <1>y. y \in Line
    BY Dropped
  <1>p. \A i \in 1 .. m : p[i] \in Line
    BY <1>0, SMTT(30)
  <1> HIDE DEF s, b, t, m, y
  <1>5. m > 1 /\ p[m - 1].part = "len"
    BY <1>2, <1>3
  <1>6. /\ 1 \in 1 .. m /\ m - 1 \in 1 .. m /\ (m - 1) + 1 = m /\ (m - 1) + 2 = m + 1
        /\ m - 1 \in 1 .. Len(s) /\ m - 1 \in 1 .. Len(s) - 1 /\ m \in 1 .. Len(s) - 1
    BY <1>1, <1>5, SMTT(30)
  <1>7. s[1] = p[1] /\ s[m] = p[m] /\ s[m - 1] = p[m - 1]
    BY <1>1, <1>2, <1>6
  <1>8. p[m].part = "blank"
    <2>1. Follows(s[m - 1], s[m])
      BY <1>4, <1>6 DEF Unread
    <2> QED BY <2>1, <1>5, <1>7 DEF Follows
  <1>9. y.part = "body"
    <2>1. s[(m - 1) + 2].part = "body"
      BY <1>4, <1>5, <1>6, <1>7 DEF Unread
    <2> QED BY <2>1, <1>1, <1>6
  <1>10. y.n = p[m].n
    <2>1. Follows(s[m], s[m + 1])
      BY <1>4, <1>6 DEF Unread
    <2> QED BY <2>1, <1>1, <1>7, <1>8, <1>9 DEF Follows
  <1>11. t # <<>> => t[1].part \in {"crlf", "head"} /\ t[1].n = y.n + 1
    <2> SUFFICES ASSUME t # <<>> PROVE t[1].part \in {"crlf", "head"} /\ t[1].n = y.n + 1
      OBVIOUS
    <2>1. m + 1 \in 1 .. Len(s) - 1 /\ (m + 1) + 1 = m + 2
      BY <1>1, <1>5, SMTT(30)
    <2>2. Follows(s[m + 1], s[m + 2])
      BY <2>1, <1>4 DEF Unread
    <2> QED BY <2>2, <1>1, <1>9 DEF Follows
  <1>12. ASSUME InStep(s) PROVE Message(b) = s[1].n /\ (t # <<>> => t[1].n = s[1].n + 1)
    <2>1. p[1].part = "head"
      <3>1. s # <<>>
        BY <1>1, <1>5, SMTT(30) DEF m
      <3>2. p[1].part \in {"head", "crlf", "frame"}
        BY <3>1, <1>7, <1>12 DEF InStep
      <3>3. ~IsBlank(p[1])
        <4>1. ~(1 > 1)
          BY SMTT(30)
        <4> QED BY <4>1, <1>3, <1>6
      <3>4. 1 \in 1 .. Len(s)
        BY <1>1, <1>5, SMTT(30)
      <3>5. p[1].part # "frame"
        BY <3>4, <1>4, <1>7 DEF Unread
      <3> QED BY <3>2, <3>3, <3>5 DEF IsBlank
    <2>2. 2 \in 1 .. m /\ 1 + 1 = 2 /\ 1 \in 1 .. Len(s) - 1 /\ 2 - 1 = 1
      BY <1>1, <1>5, SMTT(30)
    <2>3. p[2].part \in {"len", "blank"} /\ p[2].n = p[1].n
      <3>1. Follows(s[1], s[2])
        BY <2>2, <1>4 DEF Unread
      <3>2. s[2] = p[2]
        BY <2>2, <1>1
      <3> QED BY <3>1, <3>2, <2>1, <1>7 DEF Follows
    <2>4. p[2].part = "len"
      <3> SUFFICES ASSUME p[2].part = "blank" PROVE FALSE
        BY <2>3
      <3>1. p[2 - 1].part = "len"
        BY <2>2, <1>3 DEF IsBlank
      <3> QED BY <3>1, <2>1, <2>2
    <2>5. m # 2
      BY <2>4, <1>8
    <2>6. 3 \in 1 .. m /\ 2 + 1 = 3 /\ 2 \in 1 .. Len(s) - 1
      BY <2>5, <1>1, <1>5, SMTT(30)
    <2>7. p[3].part = "blank" /\ p[3].n = p[2].n
      <3>1. Follows(s[2], s[3])
        BY <2>6, <1>4 DEF Unread
      <3>2. s[2] = p[2] /\ s[3] = p[3]
        BY <2>2, <2>6, <1>1
      <3> QED BY <3>1, <3>2, <2>4 DEF Follows
    <2>8. m = 3
      BY <2>6, <2>7, <1>3 DEF IsBlank
    <2>9. Message(<<p[1], p[2], p[3], y>>) = p[1].n
      <3>1. p[1] \in Line /\ p[2] \in Line /\ p[3] \in Line
        BY <1>p, <1>6, <2>2, <2>6
      <3> QED BY <3>1, <1>y, <1>9, <1>10, <2>1, <2>3, <2>4, <2>7, <2>8, MessageLong
    <2>10. b = <<p[1], p[2], p[3], y>>
      <3>1. b \in Seq(Line) /\ Len(b) = 4 /\ b[1] = p[1] /\ b[2] = p[2] /\ b[3] = p[3] /\ b[4] = y
        <4>1. Len(b) = 4 /\ m + 1 = 4
          BY <2>8, <1>1, SMTT(30)
        <4> QED BY <4>1, <2>2, <2>6, <1>1, <1>7
      <3> QED BY <3>1, SMTT(30)
    <2> QED BY <2>3, <2>7, <2>8, <2>9, <2>10, <1>7, <1>10, <1>11
  <1>13. ASSUME NEW i \in DOMAIN b PROVE b[i].n \in {p[1].n, p[1].n + 1}
    <2>1. i \in 1 .. m \/ i = m + 1
      BY <1>1, SMTT(30)
    <2>2. CASE i \in 1 .. m
      BY <2>2, <1>1, <1>3
    <2>3. CASE i = m + 1
      BY <2>3, <1>1, <1>2, <1>3, <1>10
    <2> QED BY <2>1, <2>2, <2>3
  <1>14. Numbers(b) \subseteq {s[1].n, s[1].n + 1}
    BY <1>13, <1>7 DEF Numbers
  <1>15. InStep(t)
    BY <1>11 DEF InStep
  <1>16. Handed(s, b, t)
    BY <1>1, <1>12, <1>14, <1>15 DEF Handed
  <1> QED BY <1>16 DEF s, b, t, y

(* A WebSocket frame is handed on.                                          *)
LEMMA HandedFrame ==
    ASSUME NEW w, NEW k, Unread(<<>> \o w, k, TRUE), w \in Seq(Line), w # <<>>
    PROVE  Handed(<<>> \o w, <<Head(w)>>, Tail(w))
  <1> DEFINE s == <<>> \o w b == <<Head(w)>> t == Tail(w)
  <1>1. s = w /\ <<>> \in Seq(Line) /\ Len(<<>>) = 0 /\ b = Append(<<>>, Head(w))
    BY SMTT(30)
  <1>2. /\ b \in Seq(Line) /\ b # <<>> /\ t \in Seq(Line)
        /\ Numbers(s) = Numbers(b) \cup Numbers(t)
        /\ b[1] = s[1]
    <2>1. LET a == Append(<<>>, Head(w))
          IN  /\ a \in Seq(Line) /\ a # <<>> /\ t \in Seq(Line)
              /\ Numbers(s) = Numbers(a) \cup Numbers(t)
              /\ a[1] = s[1]
      BY <1>1, TakenLines
    <2> QED BY <2>1, <1>1
  <1>3. /\ Len(w) \in Nat /\ Len(w) >= 1 /\ Head(w) \in Line /\ Head(w) = w[1]
        /\ Len(t) = Len(w) - 1 /\ \A i \in 1 .. Len(w) - 1 : t[i] = w[i + 1]
    BY Dropped, SMTT(30)
  <1>4. Unread(w, k, TRUE)
    BY <1>1
  <1> HIDE DEF t
  <1>5. 1 \in 1 .. Len(w)
    BY <1>3, SMTT(30)
  <1>6. w[1].part = "frame"
    BY <1>4, <1>5 DEF Unread
  <1>7. Message(b) = w[1].n
    BY <1>3, <1>6, MessageFrame
  <1>8. t # <<>> => t[1].part = "frame" /\ t[1].n = w[1].n + 1
    <2> SUFFICES ASSUME t # <<>> PROVE t[1].part = "frame" /\ t[1].n = w[1].n + 1
      OBVIOUS
    <2>1. 1 \in 1 .. Len(w) - 1 /\ 1 + 1 = 2
      BY <1>2, <1>3, SMTT(30)
    <2>2. Follows(w[1], w[2]) /\ t[1] = w[2]
      BY <2>1, <1>3, <1>4 DEF Unread
    <2> QED BY <2>2, <1>6 DEF Follows
  <1>9. InStep(w) /\ InStep(t)
    BY <1>6, <1>8 DEF InStep
  <1> HIDE DEF b, s
  <1>10. Handed(s, b, t)
    BY <1>1, <1>2, <1>7, <1>8, <1>9 DEF Handed
  <1> QED BY <1>10 DEF s, b, t

-----------------------------------------------------------------------------
(* What the proofs use about the sizes of finite sets (see SizesHold).      *)
Sizes ==
    /\ IsFiniteSet({}) /\ Cardinality({}) = 0
    /\ \A A : IsFiniteSet(A) => Cardinality(A) \in Nat
    /\ \A A, B : IsFiniteSet(A) /\ B \subseteq A => IsFiniteSet(B) /\ Cardinality(B) <= Cardinality(A)
    /\ \A A, x : IsFiniteSet(A) =>
          /\ IsFiniteSet(A \cup {x})
          /\ Cardinality(A \cup {x}) = IF x \in A THEN Cardinality(A) ELSE Cardinality(A) + 1
    /\ \A a, b \in Int : IsFiniteSet(a .. b)

(* A subset is no larger.                                                   *)
LEMMA NoMore ==
    ASSUME Sizes, NEW A, NEW B, IsFiniteSet(A), B \subseteq A
    PROVE  /\ IsFiniteSet(B) /\ Cardinality(A) \in Nat /\ Cardinality(B) \in Nat
           /\ Cardinality(B) <= Cardinality(A)
  <1>1. IsFiniteSet(B) /\ Cardinality(B) <= Cardinality(A)
    BY DEF Sizes
  <1> QED BY <1>1 DEF Sizes

(* One element more.                                                        *)
LEMMA OneMore ==
    ASSUME Sizes, NEW A, NEW x, IsFiniteSet(A)
    PROVE  /\ IsFiniteSet(A \cup {x})
           /\ Cardinality(A \cup {x}) = IF x \in A THEN Cardinality(A) ELSE Cardinality(A) + 1
  BY DEF Sizes

(* Two elements more.                                                       *)
LEMMA TwoMore ==
    ASSUME Sizes, NEW A, NEW B, NEW x, NEW y, IsFiniteSet(A), B \subseteq A \cup {x, y}
    PROVE  Cardinality(B) <= Cardinality(A) + 2 /\ Cardinality(B) \in Nat /\ Cardinality(A) \in Nat
  <1> DEFINE A1 == A \cup {x} A2 == A1 \cup {y}
  <1>1. IsFiniteSet(A1) /\ (Cardinality(A1) = IF x \in A THEN Cardinality(A) ELSE Cardinality(A) + 1)
    BY OneMore
  <1>2. IsFiniteSet(A2) /\ (Cardinality(A2) = IF y \in A1 THEN Cardinality(A1) ELSE Cardinality(A1) + 1)
    BY <1>1, OneMore
  <1>3. B \subseteq A2
    OBVIOUS
  <1>4. Cardinality(B) <= Cardinality(A2) /\ Cardinality(B) \in Nat /\ Cardinality(A2) \in Nat
    BY <1>2, <1>3, NoMore
  <1>5. Cardinality(A) \in Nat /\ Cardinality(A1) \in Nat
    BY <1>1 DEF Sizes
  <1> HIDE DEF A1, A2
  <1> QED BY <1>1, <1>2, <1>4, <1>5, SMTT(30)

(* No numbers in nothing.                                                   *)
LEMMA NoNumbers ==
    /\ Numbers(<<>>) = {} /\ DoomedIn(<<>>) = {} /\ OwedIn(<<>>) = 0 /\ Doomed(<<>>) = {} /\ Owed(<<>>) = 0
    /\ DOMAIN <<>> = {}
  <1>1. DOMAIN <<>> = {}
    BY SMTT(30)
  <1>2. ~Garbled(<<>>) /\ InStep(<<>>)
    BY DEF Garbled, InStep
  <1> QED BY <1>1, <1>2 DEF Numbers, DoomedIn, OwedIn, Doomed, Owed

(* How much is owed.                                                        *)
LEMMA OwedTypes ==
    ASSUME NEW s
    PROVE  Owed(s) \in Nat /\ Owed(s) \in 0 .. 2 /\ OwedIn(s) \in Nat
  BY SMTT(30) DEF Owed, OwedIn

(* The numbers of a stream are of messages that were sent.                  *)
LEMMA NumbersSent ==
    ASSUME NEW s, NEW k \in Nat, NEW ws, Unread(s, k, ws)
    PROVE  /\ s \in Seq(Line) /\ DOMAIN s = 1 .. Len(s)
           /\ \A i \in DOMAIN s : s[i].n \in Nat /\ 1 <= s[i].n /\ s[i].n <= k /\ s[1].n <= s[i].n
           /\ s # <<>> => 1 \in DOMAIN s
           /\ Numbers(s) \subseteq 1 .. k
  <1>1. s \in Seq(Line) /\ DOMAIN s = 1 .. Len(s) /\ Len(s) \in Nat
    BY SMTT(30) DEF Unread
  <1>2. ASSUME NEW i \in DOMAIN s
        PROVE  s[i].n \in Nat /\ 1 <= s[i].n /\ s[i].n <= k /\ s[1].n <= s[i].n
    <2>1. /\ i \in 1 .. Len(s) /\ 1 \in 1 .. Len(s) /\ Len(s) \in 1 .. Len(s)
          /\ 1 <= i /\ i <= Len(s) /\ s # <<>>
      BY <1>1, SMTT(30)
    <2>2. s[i].n >= 1 /\ s[i].n <= s[Len(s)].n /\ s[1].n <= s[i].n /\ s[Len(s)].n = k
      BY <2>1 DEF Unread
    <2>3. s[i] \in Line
      BY <1>1, SMTT(30)
    <2>4. s[i].n \in Nat
      BY <2>3, LineIs
    <2> QED BY <2>2, <2>4, SMTT(30)
  <1>3. s # <<>> => 1 \in DOMAIN s
    BY <1>1, SMTT(30)
  <1>4. \A i \in DOMAIN s : s[i].n \in 1 .. k
    BY <1>2, SMTT(30)
  <1> QED BY <1>1, <1>2, <1>3, <1>4 DEF Numbers

(* Damage is finite.                                                        *)
LEMMA FiniteDamage ==
    ASSUME Sizes, NEW s, NEW b \in Seq(Line), NEW k \in Nat, NEW h \in Seq(Nat), NEW ws,
           Unread(s, k, ws), Ordered(s, b, k, h)
    PROVE  /\ IsFiniteSet(Damaged(s, b, k, h))
           /\ IsFiniteSet(DOMAIN h) /\ IsFiniteSet(DOMAIN h \ WholeIn(h))
           /\ Cardinality(DOMAIN h \ WholeIn(h)) \in Nat
  <1>1. Lost(s, b, k, h) \subseteq 0 .. k + 1
    BY SMTT(30) DEF Lost
  <1>2. Doomed(s) \subseteq 0 .. k + 1
    <2>1. CASE InStep(s)
      BY <2>1 DEF Doomed
    <2>2. CASE ~InStep(s)
      <3>1. s # <<>>
        BY <2>2 DEF InStep
      <3>2. s[1].n \in Nat /\ s[1].n <= k
        BY <3>1, NumbersSent
      <3>3. s[1].n \in 0 .. k + 1 /\ s[1].n + 1 \in 0 .. k + 1
        BY <3>2, SMTT(30)
      <3> QED BY <2>2, <3>3 DEF Doomed
    <2> QED BY <2>1, <2>2
  <1>3. DoomedIn(b) \subseteq 0 .. k + 1
    <2>1. \A i \in DOMAIN b : b[i] \in Line /\ b[i].n <= k
      <3>1. \A i \in DOMAIN b : b[i] \in Line
        BY SMTT(30)
      <3> QED BY <3>1 DEF Ordered
    <2>2. \A i \in DOMAIN b : b[i].n \in 0 .. k + 1
      <3> TAKE i \in DOMAIN b
      <3>1. b[i].n \in Nat /\ b[i].n <= k
        BY <2>1, LineIs
      <3> QED BY <3>1, SMTT(30)
    <2> QED BY <2>2 DEF DoomedIn, Numbers
  <1>4. IsFiniteSet(0 .. k + 1)
    <2>1. 0 \in Int /\ k + 1 \in Int
      BY SMTT(30)
    <2> QED BY <2>1 DEF Sizes
  <1>5. Damaged(s, b, k, h) \subseteq 0 .. k + 1
    BY <1>1, <1>2, <1>3 DEF Damaged
  <1>6. DOMAIN h = 1 .. Len(h) /\ 1 \in Int /\ Len(h) \in Int
    BY SMTT(30)
  <1>7. IsFiniteSet(DOMAIN h)
    BY <1>6 DEF Sizes
  <1>8. DOMAIN h \ WholeIn(h) \subseteq DOMAIN h
    OBVIOUS
  <1> QED BY <1>4, <1>5, <1>7, <1>8, NoMore

-----------------------------------------------------------------------------
(* What is below a number within the bound is within the bound.             *)
LEMMA Below ==
    ASSUME NEW x \in Nat, NEW y \in Nat, NEW m \in Nat, x <= y, y <= 2 * m
    PROVE  x <= 2 * m
  BY SMTT(30)

(* The sum that is bounded is a number.                                     *)
LEMMA SumIsNat ==
    ASSUME NEW x \in Nat, NEW y \in Nat, NEW z \in Nat
    PROVE  x + y + z \in Nat
  BY SMTT(30)

(* Messages are numbered from 1.                                            *)
LEMMA NotZero ==
    ASSUME NEW x \in Nat, 1 <= x
    PROVE  x # 0
  BY SMTT(30)

(* Less damage and fewer mangled messages to come stay within the bound.    *)
LEMMA StaysBounded ==
    ASSUME Sizes, NEW s, NEW b \in Seq(Line), NEW k \in Nat, NEW h \in Seq(Nat), NEW m \in Nat, NEW ws,
           Unread(s, k, ws), Ordered(s, b, k, h), Bounded(s, b, k, h, m),
           NEW t, NEW c, NEW n, NEW g,
           Damaged(t, c, n, g) \subseteq Damaged(s, b, k, h),
           Cardinality(DOMAIN g \ WholeIn(g)) + OwedIn(c) + Owed(t)
               <= Cardinality(DOMAIN h \ WholeIn(h)) + OwedIn(b) + Owed(s),
           Cardinality(DOMAIN g \ WholeIn(g)) \in Nat
    PROVE  Bounded(t, c, n, g, m)
  <1>1. IsFiniteSet(Damaged(s, b, k, h)) /\ Cardinality(DOMAIN h \ WholeIn(h)) \in Nat
    BY FiniteDamage
  <1>2. /\ Cardinality(Damaged(t, c, n, g)) <= Cardinality(Damaged(s, b, k, h))
        /\ Cardinality(Damaged(t, c, n, g)) \in Nat /\ Cardinality(Damaged(s, b, k, h)) \in Nat
    BY <1>1, NoMore
  <1>3. OwedIn(b) \in Nat /\ OwedIn(c) \in Nat /\ Owed(s) \in Nat /\ Owed(t) \in Nat
    BY OwedTypes
  <1>4. Cardinality(Damaged(t, c, n, g)) <= 2 * m
    BY <1>2, Below DEF Bounded
  <1>5. Cardinality(DOMAIN g \ WholeIn(g)) + OwedIn(c) + Owed(t) <= 2 * m
    <2>1. /\ Cardinality(DOMAIN g \ WholeIn(g)) + OwedIn(c) + Owed(t) \in Nat
          /\ Cardinality(DOMAIN h \ WholeIn(h)) + OwedIn(b) + Owed(s) \in Nat
      BY <1>1, <1>3, SumIsNat
    <2> QED BY <2>1, Below DEF Bounded
  <1> QED BY <1>4, <1>5 DEF Bounded

(* Handing a message on costs what was counted.                             *)
LEMMA HandedSafe ==
    ASSUME Sizes, NEW s, NEW k \in Nat, NEW h \in Seq(Nat), NEW m \in Nat, NEW ws, NEW b, NEW t,
           Unread(s, k, ws), Unread(t, k, ws), s # <<>>,
           Ordered(s, <<>>, k, h), Bounded(s, <<>>, k, h, m), Handed(s, b, t)
    PROVE  Ordered(t, b, k, h) /\ Bounded(t, b, k, h, m)
  <1>1. /\ b \in Seq(Line) /\ b # <<>> /\ b[1] = s[1]
        /\ Numbers(s) = Numbers(b) \cup Numbers(t)
        /\ InStep(s) => Message(b) = s[1].n /\ InStep(t) /\ (t # <<>> => t[1].n = s[1].n + 1)
        /\ ~InStep(s) =>
             /\ Numbers(b) \subseteq {s[1].n, s[1].n + 1}
             /\ InStep(t) \/ (s[1].part = "rest" /\ t[1].n = s[1].n /\ t[1].part # "rest")
    BY DEF Handed
  <1>2. /\ \A i \in DOMAIN s : s[i].n \in Nat /\ 1 <= s[i].n /\ s[i].n <= k
        /\ 1 \in DOMAIN s
    BY NumbersSent
  <1>3. \A x \in Numbers(s) : \E i \in DOMAIN s : x = s[i].n
    BY DEF Numbers
  <1>4. \A j \in DOMAIN b : b[j].n \in Numbers(s)
    BY <1>1 DEF Numbers
  <1>5. \A j \in DOMAIN t : t[j].n \in Numbers(s)
    BY <1>1 DEF Numbers
  <1>6. InStep(s) => Message(b) # Mangled
    <2>1. s[1].n # 0
      BY <1>2, NotZero
    <2> QED BY <1>1, <2>1 DEF Mangled
  <1>7. ~Garbled(b) => InStep(s)
    <2> SUFFICES ASSUME ~Garbled(b) PROVE InStep(s)
      OBVIOUS
    <2>1. b[1].part \in {"head", "frame"}
      BY <1>1, MessageStarts DEF Garbled
    <2> QED BY <2>1, <1>1 DEF InStep
  <1>8. Ordered(t, b, k, h)
    <2>1. \A i, j \in WholeIn(h) : i < j => h[i] < h[j]
      BY DEF Ordered
    <2>2. \A i \in WholeIn(h) : h[i] <= k
      BY DEF Ordered
    <2>3. \A i \in WholeIn(h) : \A x \in Numbers(s) : h[i] < x
      BY <1>3 DEF Ordered
    <2>4. \A j \in DOMAIN b : b[j].n <= k
      BY <1>2, <1>3, <1>4
    <2>5. ASSUME ~Garbled(b) PROVE \A j \in DOMAIN t : b[1].n < t[j].n
      <3> TAKE j \in DOMAIN t
      <3>1. t # <<>>
        BY NoNumbers
      <3>2. t[1].n = s[1].n + 1
        BY <1>1, <1>7, <2>5, <3>1
      <3>3. t[1].n <= t[j].n /\ t[j].n \in Nat
        BY NumbersSent
      <3>4. s[1].n \in Nat /\ b[1] = s[1]
        BY <1>1, <1>2
      <3>5. s[1].n < t[j].n
        BY <3>2, <3>3, <3>4, SMTT(30)
      <3> QED BY <3>4, <3>5
    <2> QED BY <2>1, <2>2, <2>3, <2>4, <2>5, <1>4, <1>5 DEF Ordered
  <1>9. Damaged(t, b, k, h) \subseteq Damaged(s, <<>>, k, h)
    <2>1. Lost(t, b, k, h) \subseteq Lost(s, <<>>, k, h)
      BY <1>1, NoNumbers DEF Lost
    <2>2. Doomed(t) \subseteq Doomed(s)
      BY <1>1 DEF Doomed
    <2>3. DoomedIn(b) \subseteq Doomed(s)
      BY <1>1, <1>6 DEF Doomed, DoomedIn, Garbled
    <2> QED BY <2>1, <2>2, <2>3 DEF Damaged
  <1>10. OwedIn(b) + Owed(t) <= OwedIn(<<>>) + Owed(s)
    <2>0. OwedIn(<<>>) = 0 /\ OwedIn(b) \in 0 .. 1
      BY NoNumbers, SMTT(30) DEF OwedIn
    <2>1. CASE InStep(s)
      <3>1. OwedIn(b) = 0 /\ Owed(t) = 0 /\ Owed(s) = 0
        BY <2>1, <1>1, <1>6 DEF Owed, OwedIn, Garbled
      <3> QED BY <3>1, <2>0, SMTT(30)
    <2>2. CASE ~InStep(s) /\ InStep(t)
      <3>1. Owed(t) = 0 /\ Owed(s) \in {1, 2}
        BY <2>2 DEF Owed
      <3> QED BY <3>1, <2>0, SMTT(30)
    <2>3. CASE ~InStep(s) /\ ~InStep(t)
      <3>1. Owed(t) = 1 /\ Owed(s) = 2
        BY <2>3, <1>1 DEF Owed
      <3> QED BY <3>1, <2>0, SMTT(30)
    <2> QED BY <2>1, <2>2, <2>3
  <1>11. <<>> \in Seq(Line)
    BY SMTT(30)
  <1>12. Cardinality(DOMAIN h \ WholeIn(h)) \in Nat
    BY <1>11, FiniteDamage
  <1>13. /\ OwedIn(b) \in Nat /\ Owed(t) \in Nat /\ OwedIn(<<>>) \in Nat /\ Owed(s) \in Nat
    BY OwedTypes
  <1>14. Cardinality(DOMAIN h \ WholeIn(h)) + OwedIn(b) + Owed(t)
             <= Cardinality(DOMAIN h \ WholeIn(h)) + OwedIn(<<>>) + Owed(s)
    BY <1>10, <1>12, <1>13, SMTT(30)
  <1> QED BY <1>8, <1>9, <1>11, <1>12, <1>14, StaysBounded

(* A blank line that is skipped takes its message's number, at most, with   *)
(* it.                                                                      *)
LEMMA SkippedSafe ==
    ASSUME Sizes, NEW s, NEW k \in Nat, NEW h \in Seq(Nat), NEW m \in Nat, NEW ws \in BOOLEAN,
           Unread(s, k, ws), s # <<>>, IsBlank(Head(s)),
           Ordered(s, <<>>, k, h), Bounded(s, <<>>, k, h, m)
    PROVE  Ordered(Tail(s), <<>>, k, h) /\ Bounded(Tail(s), <<>>, k, h, m)
  <1> DEFINE t == Tail(s)
  <1>0. s \in Seq(Line) /\ <<>> \in Seq(Line)
    BY SMTT(30) DEF Unread
  <1>1. /\ t \in Seq(Line) /\ Head(s) = s[1] /\ Len(s) \in Nat /\ Len(s) >= 1
        /\ Len(t) = Len(s) - 1 /\ \A i \in 1 .. Len(s) - 1 : t[i] = s[i + 1]
    BY <1>0, Dropped, SMTT(30)
  <1> HIDE DEF t
  <1>2. s[1].part \in {"blank", "crlf"}
    BY <1>1 DEF IsBlank
  <1>3. DOMAIN t = 1 .. Len(s) - 1 /\ DOMAIN s = 1 .. Len(s) /\ Len(t) \in Nat
    BY <1>0, <1>1, SMTT(30)
  <1>4. \A i \in DOMAIN t : i + 1 \in DOMAIN s /\ t[i] = s[i + 1]
    BY <1>1, <1>3, SMTT(30)
  <1>5. \A i \in DOMAIN s : i = 1 \/ (i - 1 \in DOMAIN t /\ s[i] = t[i - 1])
    <2> TAKE i \in DOMAIN s
    <2>1. i = 1 \/ (i - 1 \in DOMAIN t /\ (i - 1) + 1 = i)
      BY <1>1, <1>3, SMTT(30)
    <2> QED BY <2>1, <1>4
  <1>6. Numbers(s) \subseteq Numbers(t) \cup {s[1].n} /\ Numbers(t) \subseteq Numbers(s)
    <2>1. \A i \in DOMAIN s : s[i].n \in Numbers(t) \cup {s[1].n}
      BY <1>5 DEF Numbers
    <2>2. \A i \in DOMAIN t : t[i].n \in Numbers(s)
      BY <1>4 DEF Numbers
    <2> QED BY <2>1, <2>2 DEF Numbers
  <1>7. t # <<>> => Follows(s[1], t[1])
    <2> SUFFICES ASSUME t # <<>> PROVE Follows(s[1], t[1])
      OBVIOUS
    <2>1. 1 \in 1 .. Len(s) - 1 /\ 1 + 1 = 2
      BY <1>1, SMTT(30)
    <2>2. t[1] = s[2] /\ Follows(s[1], s[2])
      BY <2>1, <1>1 DEF Unread
    <2> QED BY <2>2
  <1>8. Ordered(t, <<>>, k, h)
    <2>1. \A i \in WholeIn(h) : \A j \in DOMAIN t : h[i] < t[j].n
      BY <1>4 DEF Ordered
    <2> QED BY <2>1, NoNumbers DEF Ordered, Garbled
  <1>9. ASSUME s[1].part = "crlf"
        PROVE  Damaged(t, <<>>, k, h) \subseteq Damaged(s, <<>>, k, h) /\ Owed(t) = 0 /\ Owed(s) = 0
    <2>1. 1 \in 1 .. Len(s) /\ ~(1 < 1)
      BY <1>1, SMTT(30)
    <2>2. Len(s) # 1
      BY <2>1, <1>9 DEF Unread
    <2>3. t # <<>> /\ 1 \in DOMAIN t
      BY <2>2, <1>1, <1>3, SMTT(30)
    <2>4. t[1].part = "head" /\ t[1].n = s[1].n
      BY <2>3, <1>7, <1>9 DEF Follows
    <2>5. s[1].n \in Numbers(t)
      BY <2>3, <2>4 DEF Numbers
    <2>6. Lost(t, <<>>, k, h) \subseteq Lost(s, <<>>, k, h)
      BY <2>5, <1>6 DEF Lost
    <2>7. InStep(s) /\ InStep(t)
      BY <2>4, <1>9 DEF InStep
    <2> QED BY <2>6, <2>7 DEF Damaged, Doomed, Owed
  <1>10. ASSUME s[1].part = "blank"
         PROVE  Damaged(t, <<>>, k, h) \subseteq Damaged(s, <<>>, k, h) /\ Owed(t) \in {0, 1} /\ Owed(s) = 1
    <2>1. ~InStep(s)
      BY <1>10 DEF InStep
    <2>2. InStep(t) \/ (t[1].part = "body" /\ t[1].n = s[1].n)
      BY <1>7, <1>10 DEF Follows, InStep
    <2>3. Lost(t, <<>>, k, h) \subseteq Lost(s, <<>>, k, h) \cup {s[1].n}
      BY <1>6 DEF Lost
    <2>4. s[1].n \in Doomed(s)
      BY <2>1 DEF Doomed
    <2>5. Doomed(t) \subseteq Doomed(s)
      BY <2>1, <2>2 DEF Doomed
    <2>6. Owed(t) \in {0, 1} /\ Owed(s) = 1
      BY <2>1, <2>2, <1>10 DEF Owed
    <2> QED BY <2>3, <2>4, <2>5, <2>6 DEF Damaged
  <1>11. Cardinality(DOMAIN h \ WholeIn(h)) \in Nat
    BY <1>0, FiniteDamage
  <1>12. OwedIn(<<>>) = 0
    BY NoNumbers
  <1>13. Damaged(t, <<>>, k, h) \subseteq Damaged(s, <<>>, k, h)
    BY <1>2, <1>9, <1>10
  <1>14. (Owed(t) = 0 /\ Owed(s) = 0) \/ (Owed(t) \in {0, 1} /\ Owed(s) = 1)
    BY <1>2, <1>9, <1>10
  <1>15. Cardinality(DOMAIN h \ WholeIn(h)) + OwedIn(<<>>) + Owed(t)
             <= Cardinality(DOMAIN h \ WholeIn(h)) + OwedIn(<<>>) + Owed(s)
    BY <1>11, <1>12, <1>14, SMTT(30)
  <1>16. Bounded(t, <<>>, k, h, m)
    BY <1>0, <1>11, <1>13, <1>15, StaysBounded
  <1> QED BY <1>8, <1>16 DEF t

(* The lines of one message that a read in step holds have a successor of   *)
(* the same message on the wire.                                            *)
LEMMA StillOnWire ==
    ASSUME NEW p, NEW w \in Seq(Line), NEW k, Unread(p \o w, k, FALSE), Held(p),
           p # <<>>, p[1].part = "head"
    PROVE  w # <<>> /\ w[1].n = p[1].n
  <1> DEFINE s == p \o w m == Len(p)
  <1>1. p \in Seq(Line)
    BY DEF Held
  <1>2. /\ m \in Nat /\ Len(w) \in Nat
        /\ Len(s) = m + Len(w)
        /\ \A i \in 1 .. m : s[i] = p[i]
        /\ \A i \in 1 .. Len(w) : s[m + i] = w[i]
    BY <1>1, Joined, SMTT(30)
  <1>3. m \in 1 .. m /\ m >= 1
    BY <1>1, SMTT(30)
  <1>4. p[m].n = p[1].n /\ p[m] \in Line
    <2>1. p[m] \in Line
      BY <1>1, <1>3, SMTT(30)
    <2> QED BY <2>1, <1>3 DEF Held
  <1>5. Unread(s, k, FALSE)
    OBVIOUS
  <1>h. /\ \A i \in 1 .. m : IsBlank(p[i]) => i = m /\ i > 1 /\ p[i - 1].part = "len"
        /\ \A i \in 2 .. m : p[i].part # "body"
    BY DEF Held
  <1> HIDE DEF s, m
  <1>6. m \in 1 .. Len(s)
    BY <1>2, <1>3, SMTT(30)
  <1>7. p[m].part \in {"head", "len", "blank"}
    <2>1. m = 1 \/ m \in 2 .. m
      BY <1>2, <1>3, SMTT(30)
    <2>2. CASE m = 1
      BY <2>2
    <2>3. CASE m \in 2 .. m
      <3>1. p[m].part # "body"
        BY <2>3, <1>h
      <3>2. m \in 2 .. Len(s)
        BY <2>3, <1>2, <1>6, SMTT(30)
      <3>3. p[m].part # "rest" /\ p[m].part # "frame"
        BY <3>2, <1>2, <1>3, <1>5, <1>6 DEF Unread
      <3>4. p[m].part # "crlf"
        <4> SUFFICES ASSUME p[m].part = "crlf" PROVE FALSE
          OBVIOUS
        <4>1. m > 1 /\ p[m - 1].part = "len"
          BY <1>3, <1>h DEF IsBlank
        <4>2. m - 1 \in 1 .. Len(s) - 1 /\ m - 1 \in 1 .. m /\ (m - 1) + 1 = m
          BY <4>1, <1>2, <1>6, SMTT(30)
        <4>3. Follows(s[m - 1], s[m])
          BY <4>2, <1>5 DEF Unread
        <4>4. s[m - 1] = p[m - 1] /\ s[m] = p[m]
          BY <4>2, <1>2, <1>3
        <4> QED BY <4>1, <4>3, <4>4 DEF Follows
      <3> QED BY <3>1, <3>3, <3>4, <1>4, SMTT(30) DEF Line
    <2> QED BY <2>1, <2>2, <2>3
  <1>8. m < Len(s)
    <2>1. CASE p[m].part = "head"
      BY <2>1, <1>2, <1>3, <1>5, <1>6 DEF Unread
    <2>2. CASE p[m].part = "len"
      <3>1. m + 2 <= Len(s)
        BY <2>2, <1>2, <1>3, <1>5, <1>6 DEF Unread
      <3> QED BY <3>1, <1>2, SMTT(30)
    <2>3. CASE p[m].part = "blank"
      <3>1. m > 1 /\ p[m - 1].part = "len"
        BY <2>3, <1>3, <1>h DEF IsBlank
      <3>2. m - 1 \in 1 .. Len(s) /\ m - 1 \in 1 .. m
        BY <3>1, <1>2, <1>6, SMTT(30)
      <3>3. (m - 1) + 2 <= Len(s)
        BY <3>1, <3>2, <1>2, <1>5 DEF Unread
      <3> QED BY <3>3, <1>2, SMTT(30)
    <2> QED BY <2>1, <2>2, <2>3, <1>7
  <1>9. Len(w) >= 1 /\ 1 \in 1 .. Len(w) /\ m \in 1 .. Len(s) - 1
    BY <1>2, <1>3, <1>8, SMTT(30)
  <1>10. Follows(p[m], w[1])
    <2>1. Follows(s[m], s[m + 1])
      BY <1>5, <1>9 DEF Unread
    <2>2. s[m] = p[m] /\ s[m + 1] = w[1]
      BY <1>2, <1>3, <1>9
    <2> QED BY <2>1, <2>2
  <1>11. w[1].n = p[m].n
    <2>1. CASE p[m].part \in {"head", "len"}
      BY <2>1, <1>10 DEF Follows
    <2>2. CASE p[m].part = "blank"
      <3>1. m > 1 /\ p[m - 1].part = "len"
        BY <2>2, <1>3, <1>h DEF IsBlank
      <3>2. m - 1 \in 1 .. Len(s) /\ m - 1 \in 1 .. m /\ (m - 1) + 2 = m + 1
        BY <3>1, <1>2, <1>6, SMTT(30)
      <3>3. s[(m - 1) + 2].part = "body"
        BY <3>1, <3>2, <1>2, <1>5 DEF Unread
      <3>4. w[1].part = "body"
        BY <3>2, <3>3, <1>2, <1>9
      <3> QED BY <3>4, <2>2, <1>10 DEF Follows
    <2> QED BY <2>1, <2>2, <1>7
  <1>12. w # <<>>
    BY <1>9, SMTT(30)
  <1> QED BY <1>4, <1>11, <1>12

(* A read that is dropped costs two messages and two mangled ones at most.  *)
LEMMA CutSafe ==
    ASSUME Sizes, NEW p, NEW w \in Seq(Line), NEW k \in Nat, NEW h \in Seq(Nat), NEW m \in Nat, NEW t,
           Unread(p \o w, k, FALSE), Held(p), Unread(t, k, FALSE), Numbers(t) = Numbers(w),
           Ordered(p \o w, <<>>, k, h), Bounded(p \o w, <<>>, k, h, m)
    PROVE  Ordered(t, <<>>, k, h) /\ Bounded(t, <<>>, k, h, m + 1)
  <1> DEFINE s == p \o w A == Damaged(s, <<>>, k, h) B == Damaged(t, <<>>, k, h)
  <1>0. p \in Seq(Line) /\ <<>> \in Seq(Line)
    <2>1. <<>> \in Seq(Line)
      BY SMTT(30)
    <2> QED BY <2>1 DEF Held
  <1>1. Numbers(s) = Numbers(p) \cup Numbers(t)
    BY <1>0, NumbersJoined
  <1>2. /\ Unread(s, k, FALSE) /\ Ordered(s, <<>>, k, h) /\ Bounded(s, <<>>, k, h, m)
    OBVIOUS
  <1>3. Numbers(p) \subseteq Numbers(t) \cup Doomed(s)
    <2>1. CASE p = <<>>
      BY <2>1, NoNumbers
    <2>2. CASE p # <<>>
      <3>1. s # <<>> /\ s[1] = p[1] /\ 1 \in 1 .. Len(p) /\ DOMAIN p = 1 .. Len(p)
        BY <2>2, <1>0, SMTT(30)
      <3>2. \A i \in DOMAIN p : p[i].n = p[1].n \/ (p[1].part # "head" /\ p[i].n = p[1].n + 1)
        BY <3>1 DEF Held
      <3>3. p[1].part \notin {"crlf", "frame"}
        <4>1. ~(1 > 1)
          BY SMTT(30)
        <4>2. ~IsBlank(p[1])
          BY <4>1, <3>1 DEF Held
        <4>3. 1 \in DOMAIN s /\ DOMAIN s = 1 .. Len(s)
          BY <3>1, <1>2, NumbersSent
        <4>4. s[1].part # "frame"
          BY <4>3, <1>2 DEF Unread
        <4> QED BY <4>2, <4>4, <3>1 DEF IsBlank
      <3> HIDE DEF s
      <3>4. CASE p[1].part = "head"
        <4>1. w # <<>> /\ w[1].n = p[1].n
          BY <3>4, <2>2, StillOnWire
        <4>2. 1 \in DOMAIN w
          BY <4>1, SMTT(30)
        <4>3. p[1].n \in Numbers(t)
          BY <4>1, <4>2 DEF Numbers
        <4> QED BY <4>3, <3>2, <3>4 DEF Numbers
      <3>5. CASE p[1].part # "head"
        <4>1. ~InStep(s)
          BY <3>1, <3>3, <3>5 DEF InStep
        <4>2. Doomed(s) = {p[1].n, p[1].n + 1}
          BY <4>1, <3>1 DEF Doomed
        <4> QED BY <4>2, <3>2 DEF Numbers
      <3> QED BY <3>4, <3>5
    <2> QED BY <2>1, <2>2
  <1> HIDE DEF s
  <1>4. Ordered(t, <<>>, k, h)
    <2>1. \A i \in WholeIn(h) : \A x \in Numbers(s) : h[i] < x
      BY <1>2 DEF Ordered, Numbers
    <2>2. \A j \in DOMAIN t : t[j].n \in Numbers(s)
      BY <1>1 DEF Numbers
    <2>3. \A i \in WholeIn(h) : \A j \in DOMAIN t : h[i] < t[j].n
      BY <2>1, <2>2
    <2> QED BY <2>3, <1>2, NoNumbers DEF Ordered, Garbled
  <1>5. B \subseteq A \cup {t[1].n, t[1].n + 1}
    <2>1. Lost(t, <<>>, k, h) \subseteq A
      BY <1>1, <1>3 DEF Lost, Damaged
    <2>2. Doomed(t) \subseteq {t[1].n, t[1].n + 1}
      BY DEF Doomed
    <2> QED BY <2>1, <2>2, NoNumbers DEF Damaged
  <1>6. IsFiniteSet(A) /\ Cardinality(DOMAIN h \ WholeIn(h)) \in Nat
    BY <1>0, <1>2, FiniteDamage
  <1> HIDE DEF A, B
  <1>7. Cardinality(B) <= Cardinality(A) + 2 /\ Cardinality(A) \in Nat /\ Cardinality(B) \in Nat
    BY <1>5, <1>6, TwoMore
  <1>8. Cardinality(A) <= 2 * m
    BY <1>2 DEF Bounded, A
  <1>9. OwedIn(<<>>) = 0 /\ Owed(s) \in Nat /\ Owed(t) \in 0 .. 2
    BY NoNumbers, OwedTypes
  <1>10. Cardinality(DOMAIN h \ WholeIn(h)) + OwedIn(<<>>) + Owed(s) <= 2 * m
    BY <1>2 DEF Bounded
  <1>11. Cardinality(B) <= 2 * (m + 1)
    BY <1>7, <1>8, SMTT(30)
  <1>12. Cardinality(DOMAIN h \ WholeIn(h)) + OwedIn(<<>>) + Owed(t) <= 2 * (m + 1)
    BY <1>6, <1>9, <1>10, SMTT(30)
  <1> QED BY <1>4, <1>11, <1>12 DEF Bounded, B

(* The handler is given what it was handed.                                 *)
LEMMA ProcessedSafe ==
    ASSUME Sizes, NEW s, NEW b \in Seq(Line), NEW k \in Nat, NEW h \in Seq(Nat), NEW m \in Nat, NEW ws,
           Unread(s, k, ws), b # <<>>, Ordered(s, b, k, h), Bounded(s, b, k, h, m)
    PROVE  LET g == Append(h, Message(b))
           IN  g \in Seq(Nat) /\ Ordered(s, <<>>, k, g) /\ Bounded(s, <<>>, k, g, m)
  <1> DEFINE g == Append(h, Message(b)) n == Len(h) + 1 r == Message(b)
  <1>1. DOMAIN b = 1 .. Len(b) /\ 1 \in DOMAIN b /\ b[1] \in Line
    BY SMTT(30)
  <1>2. b[1].n \in Nat
    BY <1>1, LineIs
  <1>3. r \in Nat /\ (Garbled(b) <=> r = Mangled) /\ (r # Mangled => r = b[1].n)
    <2>1. r # Mangled => r = b[1].n
      BY MessageStarts
    <2>2. Mangled \in Nat
      BY SMTT(30) DEF Mangled
    <2> QED BY <2>1, <2>2, <1>2 DEF Garbled
  <1> HIDE DEF r
  <1>4. /\ g \in Seq(Nat) /\ DOMAIN h = 1 .. Len(h) /\ DOMAIN g = DOMAIN h \cup {n}
        /\ n \notin DOMAIN h /\ g[n] = r /\ n \in Nat
        /\ \A i \in DOMAIN h : g[i] = h[i] /\ i < n /\ i \in Nat
    <2>1. g = Append(h, r)
      BY DEF r
    <2> HIDE DEF g
    <2> QED BY <2>1, <1>3, SMTT(30)
  <1> HIDE DEF g, n
  <1>5. WholeIn(g) = WholeIn(h) \cup (IF r = Mangled THEN {} ELSE {n})
    BY <1>4 DEF WholeIn
  <1>6. WholeIn(h) \subseteq DOMAIN h
    BY DEF WholeIn
  <1>7. \A i \in WholeIn(h) : g[i] = h[i] /\ i < n /\ i \in Nat
    BY <1>4, <1>6
  <1>8. \A i \in WholeIn(g) : i \in WholeIn(h) \/ (i = n /\ r # Mangled /\ g[i] = b[1].n)
    BY <1>3, <1>4, <1>5
  <1>9. Ordered(s, <<>>, k, g)
    <2>1. ASSUME NEW i \in WholeIn(g), NEW j \in WholeIn(g), i < j PROVE g[i] < g[j]
      <3>1. CASE i \in WholeIn(h) /\ j \in WholeIn(h)
        BY <3>1, <2>1, <1>7 DEF Ordered
      <3>2. CASE i \in WholeIn(h) /\ j = n /\ g[j] = b[1].n
        BY <3>2, <1>1, <1>7 DEF Ordered
      <3>3. CASE i = n
        <4>1. j \in WholeIn(h) \/ j = n
          BY <1>8
        <4>2. j <= n /\ j \in Nat
          BY <4>1, <1>4, <1>7, SMTT(30)
        <4> QED BY <4>2, <3>3, <2>1, <1>4, SMTT(30)
      <3> QED BY <3>1, <3>2, <3>3, <1>8
    <2>2. ASSUME NEW i \in WholeIn(g)
          PROVE  g[i] <= k /\ \A j \in DOMAIN s : g[i] < s[j].n
      <3>1. CASE i \in WholeIn(h)
        BY <3>1, <1>7 DEF Ordered
      <3>2. CASE i = n /\ r # Mangled /\ g[i] = b[1].n
        BY <3>2, <1>1, <1>3 DEF Ordered
      <3> QED BY <3>1, <3>2, <1>8
    <2> QED BY <2>1, <2>2, NoNumbers DEF Ordered, Garbled
  <1>10. Damaged(s, <<>>, k, g) \subseteq Damaged(s, b, k, h)
    <2>1. ASSUME NEW x \in Lost(s, <<>>, k, g) PROVE x \in Lost(s, b, k, h) \cup DoomedIn(b)
      <3>1. /\ x \in 1 .. k /\ x \notin Numbers(s) /\ x \notin {g[i] : i \in WholeIn(g)}
        BY DEF Lost
      <3>2. x \notin {h[i] : i \in WholeIn(h)}
        BY <3>1, <1>5, <1>7
      <3>3. CASE x \notin Numbers(b)
        BY <3>1, <3>2, <3>3 DEF Lost
      <3>4. CASE Garbled(b)
        BY <3>1, <3>2, <3>4 DEF Lost, DoomedIn
      <3>5. CASE x \in Numbers(b) /\ ~Garbled(b)
        <4>1. Message(b) # Mangled
          BY <3>5 DEF Garbled
        <4>2. \A i \in DOMAIN b : b[i].n = b[1].n
          BY <4>1, OneMessage
        <4>3. x = b[1].n
          BY <3>5, <4>2 DEF Numbers
        <4>4. n \in WholeIn(g) /\ g[n] = b[1].n
          BY <3>5, <1>3, <1>4, <1>5
        <4> QED BY <3>1, <4>3, <4>4
      <3> QED BY <3>3, <3>4, <3>5
    <2> QED BY <2>1, NoNumbers DEF Damaged
  <1>11. IsFiniteSet(DOMAIN h \ WholeIn(h)) /\ Cardinality(DOMAIN h \ WholeIn(h)) \in Nat
    BY FiniteDamage
  <1>12. OwedIn(<<>>) = 0 /\ Owed(s) \in Nat
    BY NoNumbers, OwedTypes
  <1>13. CASE r = Mangled
    <2>1. DOMAIN g \ WholeIn(g) = (DOMAIN h \ WholeIn(h)) \cup {n} /\ n \notin DOMAIN h \ WholeIn(h)
      BY <1>4, <1>5, <1>6, <1>13
    <2>2. Cardinality(DOMAIN g \ WholeIn(g)) = Cardinality(DOMAIN h \ WholeIn(h)) + 1
      BY <2>1, <1>11, OneMore
    <2>3. OwedIn(b) = 1
      BY <1>3, <1>13 DEF OwedIn
    <2>4. Cardinality(DOMAIN g \ WholeIn(g)) \in Nat
      BY <2>2, <1>11, SMTT(30)
    <2>5. Cardinality(DOMAIN g \ WholeIn(g)) + OwedIn(<<>>) + Owed(s)
             <= Cardinality(DOMAIN h \ WholeIn(h)) + OwedIn(b) + Owed(s)
      BY <2>2, <2>3, <1>11, <1>12, SMTT(30)
    <2>6. Bounded(s, <<>>, k, g, m)
      BY <2>4, <2>5, <1>10, StaysBounded
    <2> QED BY <2>6, <1>4, <1>9 DEF g, r
  <1>14. CASE r # Mangled
    <2>1. DOMAIN g \ WholeIn(g) = DOMAIN h \ WholeIn(h)
      BY <1>4, <1>5, <1>6, <1>14
    <2>2. OwedIn(b) = 0
      BY <1>3, <1>14 DEF OwedIn
    <2>3. Cardinality(DOMAIN g \ WholeIn(g)) + OwedIn(<<>>) + Owed(s)
             <= Cardinality(DOMAIN h \ WholeIn(h)) + OwedIn(b) + Owed(s)
      <3>1. /\ Cardinality(DOMAIN g \ WholeIn(g)) = Cardinality(DOMAIN h \ WholeIn(h))
            /\ Cardinality(DOMAIN h \ WholeIn(h)) \in Nat
        BY <2>1, <1>11
      <3> QED BY <3>1, <2>2, <1>12, SMTT(30)
    <2>4. Bounded(s, <<>>, k, g, m)
      BY <2>1, <2>3, <1>10, <1>11, StaysBounded
    <2> QED BY <2>4, <1>4, <1>9 DEF g, r
  <1> QED BY <1>13, <1>14

(* The client's next message is no damage.                                  *)
LEMMA SentSafe ==
    ASSUME Sizes, NEW s, NEW b \in Seq(Line), NEW k \in Nat, NEW h \in Seq(Nat), NEW m \in Nat,
           NEW ws \in BOOLEAN, NEW l \in Messages(k + 1, ws),
           Unread(s, k, ws), Ordered(s, b, k, h), Bounded(s, b, k, h, m)
    PROVE  Ordered(s \o l, b, k + 1, h) /\ Bounded(s \o l, b, k + 1, h, m)
  <1> DEFINE t == s \o l
  <1>1. k + 1 \in Nat /\ k + 1 >= 1
    BY SMTT(30)
  <1>2. /\ Unread(l, k + 1, ws) /\ l # <<>> /\ l[1].part \in {"head", "crlf", "frame"}
        /\ \A i \in 1 .. Len(l) : l[i].n = k + 1
    BY <1>1, NewMessage
  <1>3. s \in Seq(Line) /\ l \in Seq(Line)
    BY <1>2 DEF Unread
  <1>4. DOMAIN l = 1 .. Len(l) /\ 1 \in DOMAIN l
    BY <1>2, <1>3, SMTT(30)
  <1>5. Numbers(l) = {k + 1}
    BY <1>2, <1>4 DEF Numbers
  <1>6. Numbers(t) = Numbers(s) \cup {k + 1}
    BY <1>3, <1>5, NumbersJoined
  <1>7. (s = <<>> /\ InStep(t)) \/ (s # <<>> /\ t # <<>> /\ t[1] = s[1])
    <2>1. CASE s = <<>>
      <3>1. t = l
        BY <2>1, <1>3, SMTT(30)
      <3> QED BY <2>1, <3>1, <1>2 DEF InStep
    <2>2. CASE s # <<>>
      BY <2>2, <1>3, SMTT(30)
    <2> QED BY <2>1, <2>2
  <1>8. Doomed(t) = Doomed(s) /\ Owed(t) = Owed(s)
    BY <1>7 DEF Doomed, Owed, InStep
  <1> HIDE DEF t
  <1>9. \A x \in Numbers(t) : x \in Numbers(s) \/ x = k + 1
    BY <1>6
  <1>10. \A j \in DOMAIN t : t[j].n \in Numbers(t)
    BY DEF Numbers
  <1>11. \A x \in Numbers(s) : \E j \in DOMAIN s : x = s[j].n
    BY DEF Numbers
  <1>12. \A i \in WholeIn(h) : h[i] \in Nat
    BY SMTT(30) DEF WholeIn
  <1>13. \A j \in DOMAIN b : b[j].n \in Nat
    <2>1. \A j \in DOMAIN b : b[j] \in Line
      BY SMTT(30)
    <2> QED BY <2>1, LineIs
  <1>14. \A x \in Nat : x <= k => x <= k + 1 /\ x < k + 1
    BY SMTT(30)
  <1>15. Ordered(t, b, k + 1, h)
    <2>1. \A i \in WholeIn(h) : h[i] <= k /\ h[i] <= k + 1 /\ h[i] < k + 1
      BY <1>12, <1>14 DEF Ordered
    <2>2. \A i \in WholeIn(h) : \A j \in DOMAIN t : h[i] < t[j].n
      <3> TAKE i \in WholeIn(h)
      <3> TAKE j \in DOMAIN t
      <3>1. t[j].n \in Numbers(s) \/ t[j].n = k + 1
        BY <1>9, <1>10
      <3>2. CASE t[j].n \in Numbers(s)
        BY <3>2, <1>11 DEF Ordered
      <3>3. CASE t[j].n = k + 1
        BY <3>3, <2>1
      <3> QED BY <3>1, <3>2, <3>3
    <2>3. \A j \in DOMAIN b : b[j].n <= k + 1 /\ b[j].n < k + 1
      BY <1>13, <1>14 DEF Ordered
    <2>4. ASSUME b # <<>>, ~Garbled(b), NEW j \in DOMAIN t PROVE b[1].n < t[j].n
      <3>0. 1 \in DOMAIN b
        BY <2>4, SMTT(30)
      <3>1. t[j].n \in Numbers(s) \/ t[j].n = k + 1
        BY <1>9, <1>10
      <3>2. CASE t[j].n \in Numbers(s)
        BY <3>2, <2>4, <1>11 DEF Ordered
      <3>3. CASE t[j].n = k + 1
        BY <3>0, <3>3, <2>3
      <3> QED BY <3>1, <3>2, <3>3
    <2>5. /\ \A i, j \in WholeIn(h) : i < j => h[i] < h[j]
          /\ \A i \in WholeIn(h) : \A j \in DOMAIN b : h[i] < b[j].n
      BY DEF Ordered
    <2> QED BY <2>1, <2>2, <2>3, <2>4, <2>5 DEF Ordered
  <1>16. Damaged(t, b, k + 1, h) \subseteq Damaged(s, b, k, h)
    <2>1. \A x \in 1 .. k + 1 : x = k + 1 \/ x \in 1 .. k
      BY SMTT(30)
    <2>2. Lost(t, b, k + 1, h) \subseteq Lost(s, b, k, h)
      BY <2>1, <1>6 DEF Lost
    <2> QED BY <2>2, <1>8 DEF Damaged
  <1>17. Cardinality(DOMAIN h \ WholeIn(h)) \in Nat
    BY FiniteDamage
  <1>18. Cardinality(DOMAIN h \ WholeIn(h)) + OwedIn(b) + Owed(t)
             <= Cardinality(DOMAIN h \ WholeIn(h)) + OwedIn(b) + Owed(s)
    <2>1. OwedIn(b) \in Nat /\ Owed(s) \in Nat
      BY OwedTypes
    <2> QED BY <2>1, <1>8, <1>17, SMTT(30)
  <1>19. Bounded(t, b, k + 1, h, m)
    BY <1>16, <1>17, <1>18, StaysBounded
  <1> QED BY <1>15, <1>19 DEF t

-----------------------------------------------------------------------------
(* One connection.                                                          *)
SoundConn(c) == Sound(c \in Ws, wire[c], partial[c], inbound[c], sent[c], handled[c], cuts[c])

(* Nothing changes about a connection's messages.                           *)
Same(c) ==
    /\ wire'[c] = wire[c] /\ partial'[c] = partial[c] /\ inbound'[c] = inbound[c]
    /\ sent'[c] = sent[c] /\ handled'[c] = handled[c] /\ cuts'[c] = cuts[c]

(* When one connection moves, the others stay sound.                        *)
LEMMA OneMoves ==
    ASSUME SoundInv, NEW c \in Conns, SoundConn(c)', \A d \in Conns \ {c} : Same(d)
    PROVE  SoundInv'
  <1>1. ASSUME NEW d \in Conns PROVE SoundConn(d)'
    <2>1. CASE d = c
      BY <2>1
    <2>2. CASE d # c
      <3>1. SoundConn(d) /\ Same(d)
        BY <2>2 DEF SoundInv, SoundConn
      <3> QED BY <3>1 DEF SoundConn, Same
    <2> QED BY <2>1, <2>2
  <1> QED BY <1>1 DEF SoundInv, SoundConn

(* Nothing has happened.                                                    *)
LEMMA InitStreams ==
    ASSUME Sizes
    PROVE  StreamsInit => StreamsInv
  <1> SUFFICES ASSUME StreamsInit PROVE StreamsInv
    OBVIOUS
  <1>1. <<>> \in Seq(Line) /\ <<>> \in Seq(Nat) /\ 0 \in Nat /\ Len(<<>>) = 0 /\ <<>> \o <<>> = <<>>
    BY SMTT(30)
  <1>2. StreamsTypeOK
    <2>1. \A c \in Conns : pc[c] = "new" /\ partial[c] = <<>> /\ inbound[c] = <<>> /\ cuts[c] = 0
      BY DEF StreamsInit
    <2>2. Ws \subseteq Conns
      BY DEF Conns
    <2> QED BY <1>1, <2>1, <2>2 DEF StreamsInit, StreamsTypeOK
  <1>3. RegistryFollows
    BY DEF StreamsInit, RegistryFollows, Running
  <1>4. ASSUME NEW ws PROVE Sound(ws, <<>>, <<>>, <<>>, 0, <<>>, 0)
    <2>0. 1 .. 0 = {} /\ 2 .. 0 = {} /\ 1 .. 0 - 1 = {} /\ 1 .. 0 - 2 = {} /\ 0 <= 2 * 0 /\ 0 + 0 + 0 <= 2 * 0
      BY SMTT(30)
    <2>1. Unread(<<>>, 0, ws)
      BY <2>0, <1>1 DEF Unread
    <2>2. Held(<<>>)
      BY <2>0, <1>1 DEF Held
    <2>3. WholeIn(<<>>) = {}
      BY NoNumbers DEF WholeIn
    <2>4. Ordered(<<>>, <<>>, 0, <<>>)
      BY <2>3, NoNumbers DEF Ordered
    <2>5. Damaged(<<>>, <<>>, 0, <<>>) = {} /\ DOMAIN <<>> \ WholeIn(<<>>) = {}
      BY <2>0, <2>3, NoNumbers DEF Damaged, Lost
    <2>6. Bounded(<<>>, <<>>, 0, <<>>, 0)
      BY <2>0, <2>5, NoNumbers DEF Bounded, Sizes
    <2> QED BY <1>1, <2>1, <2>2, <2>4, <2>6 DEF Sound
  <1>5. SoundInv
    BY <1>4 DEF SoundInv, StreamsInit
  <1> QED BY <1>2, <1>3, <1>5 DEF StreamsInv

(* The steps that read and hand on nothing.                                 *)
LEMMA QuietSteps ==
    ASSUME StreamsInv,
           \/ \E c \in Conns : \/ Connect(c) \/ ClientClose(c) \/ Accept(c) \/ HandshakeFails(c)
                               \/ ReadEnds(c) \/ End(c)
           \/ \E s \in Senders : SendClone(s) \/ SendPush(s)
           \/ UNCHANGED streamVars
    PROVE  StreamsInv'
  <1>1. UNCHANGED <<wire, partial, inbound, sent, handled, cuts>>
    BY DEF Connect, ClientClose, Accept, HandshakeFails, ReadEnds, End, SendClone, SendPush,
           connVars, streamVars
  <1>2. SoundInv'
    BY <1>1 DEF StreamsInv, SoundInv
  <1>3. ASSUME NEW c \in Conns, NEW l, Goto(c, l), pc[c] # "process", l # "process",
               l \in {"new", "handshake", "select", "process", "ending", "done"},
               registry' \in Conns \cup {NoConn}
        PROVE  StreamsTypeOK'
    <2>1. /\ pc' \in [Conns -> {"new", "handshake", "select", "process", "ending", "done"}]
          /\ pc'[c] = l /\ \A d \in Conns : d # c => pc'[d] = pc[d]
      BY <1>3 DEF StreamsInv, StreamsTypeOK, Goto
    <2>2. \A d \in Conns : pc'[d] = "process" <=> pc[d] = "process"
      BY <2>1, <1>3
    <2> QED BY <2>1, <2>2, <1>1, <1>3 DEF StreamsInv, StreamsTypeOK
  <1>4. ASSUME NEW c \in Conns, Connect(c) PROVE StreamsInv'
    <2>1. Goto(c, "handshake") /\ pc[c] = "new" /\ registry' = registry /\ shared' = shared
      BY <1>4 DEF Connect
    <2>2. StreamsTypeOK'
      BY <2>1, <1>3 DEF StreamsInv, StreamsTypeOK
    <2>3. \A d \in Conns : Running(d)' <=> Running(d)
      BY <2>1 DEF StreamsInv, StreamsTypeOK, Goto, Running
    <2>4. RegistryFollows'
      BY <2>1, <2>2, <2>3 DEF StreamsInv, StreamsTypeOK, RegistryFollows
    <2> QED BY <1>2, <2>2, <2>4 DEF StreamsInv
  <1>5. ASSUME NEW c \in Conns, Accept(c) PROVE StreamsInv'
    <2>1. Goto(c, "select") /\ pc[c] = "handshake" /\ registry' = c /\ shared' = (shared \cup Conns) \ {c}
      BY <1>5 DEF Accept, register
    <2>2. StreamsTypeOK'
      BY <2>1, <1>3
    <2>3. Running(c)'
      BY <2>1 DEF StreamsInv, StreamsTypeOK, Goto, Running
    <2>4. RegistryFollows'
      BY <2>1, <2>3 DEF RegistryFollows
    <2> QED BY <1>2, <2>2, <2>4 DEF StreamsInv
  <1>6. ASSUME NEW c \in Conns, HandshakeFails(c) PROVE StreamsInv'
    <2>1. Goto(c, "done") /\ pc[c] = "handshake" /\ registry' = registry /\ shared' = shared
      BY <1>6 DEF HandshakeFails
    <2>2. StreamsTypeOK'
      BY <2>1, <1>3 DEF StreamsInv, StreamsTypeOK
    <2>3. \A d \in Conns : Running(d)' <=> Running(d)
      BY <2>1 DEF StreamsInv, StreamsTypeOK, Goto, Running
    <2>4. RegistryFollows'
      BY <2>1, <2>2, <2>3 DEF StreamsInv, StreamsTypeOK, RegistryFollows
    <2> QED BY <1>2, <2>2, <2>4 DEF StreamsInv
  <1>7. ASSUME NEW c \in Conns, ReadEnds(c) PROVE StreamsInv'
    <2>1. Goto(c, "ending") /\ pc[c] = "select" /\ registry' = registry /\ shared' = shared
      BY <1>7 DEF ReadEnds
    <2>2. StreamsTypeOK'
      BY <2>1, <1>3 DEF StreamsInv, StreamsTypeOK
    <2>3. \A d \in Conns : Running(d)' <=> Running(d)
      BY <2>1 DEF StreamsInv, StreamsTypeOK, Goto, Running
    <2>4. RegistryFollows'
      BY <2>1, <2>2, <2>3 DEF StreamsInv, StreamsTypeOK, RegistryFollows
    <2> QED BY <1>2, <2>2, <2>4 DEF StreamsInv
  <1>8. ASSUME NEW c \in Conns, End(c) PROVE StreamsInv'
    <2>1. Goto(c, "done") /\ pc[c] = "ending" /\ registry' = NoConn /\ shared' = shared \cup (Conns \ {c})
      BY <1>8 DEF End, unregister
    <2>2. StreamsTypeOK'
      BY <2>1, <1>3
    <2>3. ~Running(c)'
      BY <2>1 DEF StreamsInv, StreamsTypeOK, Goto, Running
    <2>4. RegistryFollows'
      BY <2>1, <2>3 DEF RegistryFollows
    <2> QED BY <1>2, <2>2, <2>4 DEF StreamsInv
  <1>9. ASSUME UNCHANGED <<pc, registry, shared>> PROVE StreamsInv'
    <2>1. StreamsTypeOK' /\ RegistryFollows'
      BY <1>1, <1>9 DEF StreamsInv, StreamsTypeOK, RegistryFollows, Running
    <2> QED BY <2>1, <1>2 DEF StreamsInv
  <1>10. ASSUME NEW c \in Conns, ClientClose(c) PROVE StreamsInv'
    BY <1>9, <1>10 DEF ClientClose
  <1>11. ASSUME NEW s \in Senders, SendClone(s) \/ SendPush(s) PROVE StreamsInv'
    BY <1>9, <1>11 DEF SendClone, SendPush, connVars
  <1>12. ASSUME UNCHANGED streamVars PROVE StreamsInv'
    BY <1>9, <1>12 DEF streamVars, connVars
  <1> QED BY <1>4, <1>5, <1>6, <1>7, <1>8, <1>10, <1>11, <1>12

(* What a step of a running connection c has to keep.                       *)
Keeps(c) ==
    /\ pc \in [Conns -> {"new", "handshake", "select", "process", "ending", "done"}]
    /\ wire \in [Conns -> Seq(Line)] /\ partial \in [Conns -> Seq(Line)] /\ inbound \in [Conns -> Seq(Line)]
    /\ sent \in [Conns -> Nat] /\ handled \in [Conns -> Seq(Nat)] /\ cuts \in [Conns -> Nat]
    /\ pc[c] \in {"select", "process", "ending"}
    /\ partial[c] # <<>> => c \in Tls /\ pc[c] # "process"
    /\ (inbound[c] # <<>>) = (pc[c] = "process")
    /\ c \in Ws => cuts[c] = 0
    /\ SoundConn(c)

(* A step of one running connection that leaves the registry alone.         *)
LEMMA RunningStep ==
    ASSUME StreamsInv, NEW c \in Conns, Keeps(c), Keeps(c)',
           \A d \in Conns \ {c} : Same(d) /\ pc'[d] = pc[d],
           UNCHANGED <<registry, shared>>
    PROVE  StreamsInv'
  <1>1. SoundInv'
    BY OneMoves DEF StreamsInv, Keeps
  <1>2. \A d \in Conns : Running(d)' <=> Running(d)
    <2> TAKE d \in Conns
    <2>1. CASE d = c
      BY <2>1 DEF Keeps, Running
    <2>2. CASE d # c
      BY <2>2 DEF Running
    <2> QED BY <2>1, <2>2
  <1>3. RegistryFollows'
    BY <1>2 DEF StreamsInv, StreamsTypeOK, RegistryFollows
  <1>4. \A d \in Conns : partial'[d] # <<>> => d \in Tls /\ pc'[d] # "process"
    <2> TAKE d \in Conns
    <2>1. CASE d = c
      BY <2>1 DEF Keeps
    <2>2. CASE d # c
      BY <2>2 DEF Same, StreamsInv, StreamsTypeOK
    <2> QED BY <2>1, <2>2
  <1>5. \A d \in Conns : (inbound'[d] # <<>>) = (pc'[d] = "process")
    <2> TAKE d \in Conns
    <2>1. CASE d = c
      BY <2>1 DEF Keeps
    <2>2. CASE d # c
      <3>1. (inbound[d] # <<>>) = (pc[d] = "process")
        BY DEF StreamsInv, StreamsTypeOK
      <3>2. inbound'[d] = inbound[d] /\ pc'[d] = pc[d]
        BY <2>2 DEF Same
      <3> QED BY <3>1, <3>2
    <2> QED BY <2>1, <2>2
  <1>6. \A d \in Ws : cuts'[d] = 0
    <2> TAKE d \in Ws
    <2>0. d \in Conns
      BY DEF Conns
    <2>1. CASE d = c
      BY <2>1 DEF Keeps
    <2>2. CASE d # c
      BY <2>0, <2>2 DEF Same, StreamsInv, StreamsTypeOK
    <2> QED BY <2>1, <2>2
  <1>7. StreamsTypeOK'
    <2>1. registry' \in Conns \cup {NoConn}
      BY DEF StreamsInv, StreamsTypeOK
    <2> QED BY <2>1, <1>4, <1>5, <1>6 DEF Keeps, StreamsTypeOK
  <1> QED BY <1>1, <1>3, <1>7 DEF StreamsInv

(* What the invariant says of a running connection.                         *)
LEMMA RunningKeeps ==
    ASSUME StreamsInv, NEW c \in Conns, Running(c)
    PROVE  Keeps(c)
  BY DEF StreamsInv, StreamsTypeOK, SoundInv, SoundConn, Running, Keeps

(* A TLS connection carries no frames.                                      *)
LEMMA NoFrames ==
    ASSUME NEW c, c \notin Ws
    PROVE  (c \in Ws) = FALSE
  BY SMTT(30)

(* The types of one connection.                                             *)
LEMMA ConnTypes ==
    ASSUME NEW c \in Conns, Keeps(c)
    PROVE  /\ wire[c] \in Seq(Line) /\ partial[c] \in Seq(Line) /\ inbound[c] \in Seq(Line)
           /\ sent[c] \in Nat /\ handled[c] \in Seq(Nat) /\ cuts[c] \in Nat
           /\ (c \in Ws) \in BOOLEAN
           /\ c \in Tls <=> c \notin Ws
           /\ Unread(partial[c] \o wire[c], sent[c], c \in Ws)
           /\ Held(partial[c])
           /\ Ordered(partial[c] \o wire[c], inbound[c], sent[c], handled[c])
           /\ Bounded(partial[c] \o wire[c], inbound[c], sent[c], handled[c], cuts[c])
  <1>1. c \in Tls <=> c \notin Ws
    BY StreamsAssumption DEF Conns
  <1>2. /\ wire[c] \in Seq(Line) /\ partial[c] \in Seq(Line) /\ inbound[c] \in Seq(Line)
        /\ sent[c] \in Nat /\ handled[c] \in Seq(Nat) /\ cuts[c] \in Nat
    BY DEF Keeps
  <1>3. SoundConn(c)
    BY DEF Keeps
  <1>4. (c \in Ws) \in BOOLEAN
    BY SMTT(30)
  <1>5. /\ Unread(partial[c] \o wire[c], sent[c], c \in Ws)
        /\ Held(partial[c])
        /\ Ordered(partial[c] \o wire[c], inbound[c], sent[c], handled[c])
        /\ Bounded(partial[c] \o wire[c], inbound[c], sent[c], handled[c], cuts[c])
    BY <1>3 DEF SoundConn, Sound
  <1> QED BY <1>1, <1>2, <1>4, <1>5

(* Concatenation with nothing, and of three.                                *)
LEMMA NothingFirst ==
    ASSUME NEW w \in Seq(Line)
    PROVE  <<>> \o w = w /\ <<>> \in Seq(Line) /\ Held(<<>>)
  <1>1. <<>> \o w = w /\ <<>> \in Seq(Line) /\ Len(<<>>) = 0
    BY SMTT(30)
  <1>2. 1 .. 0 = {} /\ 2 .. 0 = {}
    BY SMTT(30)
  <1> QED BY <1>1, <1>2 DEF Held

(* Concatenation is associative.                                            *)
LEMMA Associative ==
    ASSUME NEW p \in Seq(Line), NEW w \in Seq(Line), NEW l \in Seq(Line)
    PROVE  p \o (w \o l) = (p \o w) \o l
  BY SMTT(30)

(* How a step moves one connection.                                         *)
Moves(c, l, w, p, b, k, h, m) ==
    /\ pc' = [pc EXCEPT ![c] = l]
    /\ wire' = [wire EXCEPT ![c] = w] /\ partial' = [partial EXCEPT ![c] = p]
    /\ inbound' = [inbound EXCEPT ![c] = b] /\ sent' = [sent EXCEPT ![c] = k]
    /\ handled' = [handled EXCEPT ![c] = h] /\ cuts' = [cuts EXCEPT ![c] = m]
    /\ UNCHANGED <<registry, shared>>

(* It keeps the invariant when the connection stays sound.                  *)
LEMMA MoveSound ==
    ASSUME StreamsInv, NEW c \in Conns, Keeps(c),
           NEW l \in {"select", "process", "ending"}, NEW w \in Seq(Line), NEW p \in Seq(Line),
           NEW b \in Seq(Line), NEW k \in Nat, NEW h \in Seq(Nat), NEW m \in Nat,
           Moves(c, l, w, p, b, k, h, m),
           p # <<>> => c \in Tls /\ l # "process",
           b # <<>> <=> l = "process",
           c \in Ws => m = 0,
           Sound(c \in Ws, w, p, b, k, h, m)
    PROVE  StreamsInv'
  <1>1. /\ pc \in [Conns -> {"new", "handshake", "select", "process", "ending", "done"}]
        /\ wire \in [Conns -> Seq(Line)] /\ partial \in [Conns -> Seq(Line)] /\ inbound \in [Conns -> Seq(Line)]
        /\ sent \in [Conns -> Nat] /\ handled \in [Conns -> Seq(Nat)] /\ cuts \in [Conns -> Nat]
    BY DEF Keeps
  <1>2. /\ pc' \in [Conns -> {"new", "handshake", "select", "process", "ending", "done"}]
        /\ wire' \in [Conns -> Seq(Line)] /\ partial' \in [Conns -> Seq(Line)] /\ inbound' \in [Conns -> Seq(Line)]
        /\ sent' \in [Conns -> Nat] /\ handled' \in [Conns -> Seq(Nat)] /\ cuts' \in [Conns -> Nat]
    BY <1>1 DEF Moves
  <1>3. /\ pc'[c] = l /\ wire'[c] = w /\ partial'[c] = p /\ inbound'[c] = b /\ sent'[c] = k
        /\ handled'[c] = h /\ cuts'[c] = m
    BY <1>1 DEF Moves
  <1>4. \A d \in Conns \ {c} : Same(d) /\ pc'[d] = pc[d]
    BY <1>1 DEF Moves, Same
  <1>5. SoundConn(c)'
    BY <1>3 DEF SoundConn
  <1>6. Keeps(c)'
    BY <1>2, <1>3, <1>5 DEF Keeps
  <1>7. UNCHANGED <<registry, shared>>
    BY DEF Moves
  <1> QED BY <1>4, <1>6, <1>7, RunningStep

(* A function changed to what it is.                                        *)
LEMMA NoChange ==
    ASSUME NEW S, NEW T, NEW f \in [S -> T], NEW x \in S
    PROVE  f = [f EXCEPT ![x] = f[x]]
  OBVIOUS

(* The client sends a message.                                              *)
LEMMA SendStep ==
    ASSUME Sizes, StreamsInv, NEW c \in Conns, ClientSend(c)
    PROVE  StreamsInv'
  <1>1. PICK l \in Messages(sent[c] + 1, c \in Ws) :
            /\ pc[c] \in {"select", "process"}
            /\ sent' = [sent EXCEPT ![c] = sent[c] + 1]
            /\ wire' = [wire EXCEPT ![c] = wire[c] \o l]
            /\ UNCHANGED <<pc, partial, inbound, registry, handled, cuts, shared>>
    BY DEF ClientSend, Messages
  <1>2. Keeps(c)
    BY <1>1, RunningKeeps DEF Running
  <1> DEFINE w == wire[c] p == partial[c] b == inbound[c] k == sent[c] h == handled[c] m == cuts[c]
             ws == c \in Ws
  <1>3. /\ w \in Seq(Line) /\ p \in Seq(Line) /\ b \in Seq(Line)
        /\ k \in Nat /\ h \in Seq(Nat) /\ m \in Nat /\ ws \in BOOLEAN
        /\ Unread(p \o w, k, ws) /\ Held(p)
        /\ Ordered(p \o w, b, k, h) /\ Bounded(p \o w, b, k, h, m)
    BY <1>2, ConnTypes
  <1>4. Moves(c, pc[c], w \o l, p, b, k + 1, h, m)
    <2>1. /\ pc' = [pc EXCEPT ![c] = pc[c]] /\ partial' = [partial EXCEPT ![c] = p]
          /\ inbound' = [inbound EXCEPT ![c] = b]
          /\ handled' = [handled EXCEPT ![c] = h] /\ cuts' = [cuts EXCEPT ![c] = m]
      BY <1>1, <1>2, NoChange DEF Keeps
    <2> QED BY <2>1, <1>1 DEF Moves
  <1>5. /\ pc[c] \in {"select", "process", "ending"} /\ (p # <<>> => c \in Tls /\ pc[c] # "process")
        /\ (b # <<>> <=> pc[c] = "process") /\ (c \in Ws => m = 0)
    BY <1>2 DEF Keeps
  <1>6. l \in Messages(k + 1, ws)
    OBVIOUS
  <1> HIDE DEF w, p, b, k, h, m, ws
  <1>7. k + 1 \in Nat /\ k + 1 >= 1
    BY <1>3, SMTT(30)
  <1>8. l \in Seq(Line)
    BY <1>3, <1>6, <1>7, NewMessage DEF Unread
  <1>9. w \o l \in Seq(Line) /\ p \o (w \o l) = (p \o w) \o l
    BY <1>3, <1>8, Associative, SMTT(30)
  <1>10. /\ Unread((p \o w) \o l, k + 1, ws)
         /\ Ordered((p \o w) \o l, b, k + 1, h) /\ Bounded((p \o w) \o l, b, k + 1, h, m)
    BY <1>3, <1>6, Extended, SentSafe
  <1>11. Sound(ws, w \o l, p, b, k + 1, h, m)
    BY <1>3, <1>9, <1>10 DEF Sound
  <1>12. Sound(c \in Ws, w \o l, p, b, k + 1, h, m)
    BY <1>11 DEF ws
  <1>13. p \in Seq(Line) /\ b \in Seq(Line) /\ h \in Seq(Nat) /\ m \in Nat /\ k + 1 \in Nat /\ w \o l \in Seq(Line)
    BY <1>3, <1>7, <1>9
  <1> DEFINE q == pc[c] wl == w \o l kk == k + 1
  <1> HIDE DEF q, wl, kk
  <1>14. /\ Moves(c, q, wl, p, b, kk, h, m) /\ Sound(c \in Ws, wl, p, b, kk, h, m)
         /\ q \in {"select", "process", "ending"} /\ (p # <<>> => c \in Tls /\ q # "process")
         /\ (b # <<>> <=> q = "process") /\ (c \in Ws => m = 0)
         /\ wl \in Seq(Line) /\ kk \in Nat
    BY <1>4, <1>5, <1>12, <1>13 DEF q, wl, kk
  <1> QED BY <1>2, <1>13, <1>14, MoveSound

(* The handler is given the message.                                        *)
LEMMA ProcessStep ==
    ASSUME Sizes, StreamsInv, NEW c \in Conns, process_inbound(c)
    PROVE  StreamsInv'
  <1>1. PICK l \in {"select", "ending"} :
            /\ pc[c] = "process"
            /\ pc' = [pc EXCEPT ![c] = l]
            /\ handled' = [handled EXCEPT ![c] = Append(handled[c], Message(inbound[c]))]
            /\ inbound' = [inbound EXCEPT ![c] = <<>>]
            /\ UNCHANGED <<wire, partial, sent, registry, cuts, shared>>
    BY DEF process_inbound, Goto
  <1>2. Keeps(c)
    BY <1>1, RunningKeeps DEF Running
  <1> DEFINE w == wire[c] p == partial[c] b == inbound[c] k == sent[c] h == handled[c] m == cuts[c]
             ws == c \in Ws g == Append(h, Message(b))
  <1>3. /\ w \in Seq(Line) /\ p \in Seq(Line) /\ b \in Seq(Line)
        /\ k \in Nat /\ h \in Seq(Nat) /\ m \in Nat /\ ws \in BOOLEAN
        /\ Unread(p \o w, k, ws) /\ Held(p)
        /\ Ordered(p \o w, b, k, h) /\ Bounded(p \o w, b, k, h, m)
    BY <1>2, ConnTypes
  <1>4. Moves(c, l, w, p, <<>>, k, g, m)
    <2>1. /\ wire' = [wire EXCEPT ![c] = w] /\ partial' = [partial EXCEPT ![c] = p]
          /\ sent' = [sent EXCEPT ![c] = k] /\ cuts' = [cuts EXCEPT ![c] = m]
      BY <1>1, <1>2, NoChange DEF Keeps
    <2> QED BY <2>1, <1>1 DEF Moves
  <1>5. p = <<>> /\ b # <<>> /\ (c \in Ws => m = 0)
    BY <1>1, <1>2 DEF Keeps
  <1> HIDE DEF w, p, b, k, h, m, ws
  <1>6. g \in Seq(Nat) /\ Ordered(p \o w, <<>>, k, g) /\ Bounded(p \o w, <<>>, k, g, m)
    BY <1>3, <1>5, ProcessedSafe
  <1> HIDE DEF g
  <1>7. Sound(ws, w, p, <<>>, k, g, m)
    BY <1>3, <1>6 DEF Sound
  <1>8. l \in {"select", "process", "ending"} /\ l # "process" /\ <<>> \in Seq(Line)
    BY NothingFirst, <1>3
  <1>9. <<>> # <<>> <=> l = "process"
    BY <1>8
  <1> QED BY <1>2, <1>3, <1>4, <1>5, <1>6, <1>7, <1>8, <1>9, MoveSound DEF ws

(* A stream with something on the wire.                                     *)
LEMMA NotRead ==
    ASSUME NEW p \in Seq(Line), NEW w \in Seq(Line), w # <<>>
    PROVE  Tail(w) \in Seq(Line) /\ p \o w # <<>>
  BY SMTT(30)

(* A message is handed on: the connection's next state is sound.            *)
LEMMA HandOn ==
    ASSUME Sizes, StreamsInv, NEW c \in Conns, Keeps(c), inbound[c] = <<>>, wire[c] # <<>>,
           NEW b, Moves(c, "process", Tail(wire[c]), <<>>, b, sent[c], handled[c], cuts[c]),
           Handed(partial[c] \o wire[c], b, Tail(wire[c]))
    PROVE  StreamsInv'
  <1> DEFINE w == wire[c] p == partial[c] k == sent[c] h == handled[c] m == cuts[c]
             ws == c \in Ws t == Tail(w) s == p \o w
  <1>1. /\ w \in Seq(Line) /\ p \in Seq(Line)
        /\ k \in Nat /\ h \in Seq(Nat) /\ m \in Nat /\ ws \in BOOLEAN
        /\ Unread(s, k, ws)
        /\ Ordered(s, <<>>, k, h) /\ Bounded(s, <<>>, k, h, m)
    <2>1. /\ Ordered(partial[c] \o wire[c], inbound[c], sent[c], handled[c])
          /\ Bounded(partial[c] \o wire[c], inbound[c], sent[c], handled[c], cuts[c])
      BY ConnTypes
    <2> QED BY <2>1, ConnTypes
  <1>2. c \in Ws => m = 0
    BY DEF Keeps
  <1>3. w # <<>> /\ Handed(s, b, t) /\ Moves(c, "process", t, <<>>, b, k, h, m)
    OBVIOUS
  <1> HIDE DEF w, p, k, h, m, ws
  <1>4. Unread(t, k, ws)
    <2>1. w # <<>> /\ w \in Seq(Line) /\ p \in Seq(Line) /\ ws \in BOOLEAN /\ Unread(p \o w, k, ws)
      BY <1>1, <1>3
    <2>2. Unread(w, k, ws) /\ (w # <<>> => Unread(Tail(w), k, ws))
      BY <2>1, OnWire, SMTT(30)
    <2> QED BY <2>1, <2>2
  <1>5. t \in Seq(Line) /\ s # <<>>
    BY <1>1, <1>3, NotRead
  <1> HIDE DEF s, t
  <1>6. Ordered(t, b, k, h) /\ Bounded(t, b, k, h, m)
    BY <1>1, <1>3, <1>4, <1>5, HandedSafe
  <1>7. <<>> \o t = t /\ <<>> \in Seq(Line) /\ Held(<<>>)
    BY <1>5, NothingFirst
  <1>8. Sound(c \in Ws, t, <<>>, b, k, h, m)
    BY <1>4, <1>6, <1>7 DEF Sound, ws
  <1>9. b \in Seq(Line) /\ b # <<>>
    BY <1>3 DEF Handed
  <1>10. /\ "process" \in {"select", "process", "ending"}
         /\ (<<>> # <<>> => c \in Tls /\ "process" # "process")
         /\ (b # <<>> <=> "process" = "process")
         /\ k \in Nat /\ h \in Seq(Nat) /\ m \in Nat
    BY <1>1, <1>9
  <1> QED BY <1>2, <1>3, <1>5, <1>7, <1>8, <1>9, <1>10, MoveSound

(* A body, or a frame, completes a message.                                 *)
LEMMA ExactStep ==
    ASSUME Sizes, StreamsInv, NEW c \in Conns, read_exact(c) \/ next_frame(c)
    PROVE  StreamsInv'
  <1>1. pc[c] = "select" /\ wire[c] # <<>>
    BY DEF read_exact, next_frame
  <1>2. Keeps(c)
    BY <1>1, RunningKeeps DEF Running
  <1>3. inbound[c] = <<>>
    BY <1>1, <1>2 DEF Keeps
  <1>4. /\ wire[c] \in Seq(Line) /\ Unread(partial[c] \o wire[c], sent[c], c \in Ws) /\ Held(partial[c])
        /\ c \in Tls <=> c \notin Ws
    BY <1>2, ConnTypes
  <1>5. /\ sent = [sent EXCEPT ![c] = sent[c]] /\ handled = [handled EXCEPT ![c] = handled[c]]
        /\ cuts = [cuts EXCEPT ![c] = cuts[c]] /\ partial = [partial EXCEPT ![c] = partial[c]]
    BY <1>2, NoChange DEF Keeps
  <1>6. CASE read_exact(c)
    <2>1. c \notin Ws /\ Waits(partial[c])
      BY <1>6, <1>4 DEF read_exact, AwaitsBody, Waits
    <2>2. (c \in Ws) = FALSE
      BY <2>1, NoFrames
    <2>3. Unread(partial[c] \o wire[c], sent[c], FALSE)
      BY <2>2, <1>4
    <2>4. Handed(partial[c] \o wire[c], Append(partial[c], Head(wire[c])), Tail(wire[c]))
      BY <2>1, <2>3, <1>1, <1>4, HandedLong
    <2>5. Moves(c, "process", Tail(wire[c]), <<>>, Append(partial[c], Head(wire[c])), sent[c], handled[c], cuts[c])
      BY <1>5, <1>6 DEF read_exact, Goto, Moves
    <2> QED BY <2>4, <2>5, <1>1, <1>2, <1>3, HandOn
  <1>7. CASE next_frame(c)
    <2>1. c \in Ws /\ c \notin Tls
      BY <1>7, <1>4 DEF next_frame
    <2>2. (c \in Ws) = TRUE /\ partial[c] = <<>>
      BY <2>1, <1>2 DEF Keeps
    <2>3. Unread(<<>> \o wire[c], sent[c], TRUE)
      BY <2>2, <1>4
    <2>4. Handed(<<>> \o wire[c], <<Head(wire[c])>>, Tail(wire[c]))
      BY <2>3, <1>1, <1>4, HandedFrame
    <2>5. Moves(c, "process", Tail(wire[c]), <<>>, <<Head(wire[c])>>, sent[c], handled[c], cuts[c])
      BY <2>2, <1>5, <1>7 DEF next_frame, Goto, Moves
    <2>6. Handed(partial[c] \o wire[c], <<Head(wire[c])>>, Tail(wire[c]))
      BY <2>2, <2>4
    <2> QED BY <2>5, <2>6, <1>1, <1>2, <1>3, HandOn
  <1> QED BY <1>6, <1>7

(* A line is read.                                                          *)
LEMMA LineStep ==
    ASSUME Sizes, StreamsInv, NEW c \in Conns, read_line(c)
    PROVE  StreamsInv'
  <1> DEFINE w == wire[c] p == partial[c] k == sent[c] h == handled[c] m == cuts[c]
             lines == Append(p, Head(w)) t == Tail(w)
             whole == IsBlank(Head(w)) /\ Len(lines) > 1 /\ ~ \E i \in DOMAIN lines : lines[i].part = "len"
             skipped == IsBlank(Head(w)) /\ Len(lines) = 1
  <1>1. /\ c \in Tls /\ pc[c] = "select" /\ w # <<>> /\ ~Waits(p)
        /\ wire' = [wire EXCEPT ![c] = t]
        /\ partial' = [partial EXCEPT ![c] = IF whole \/ skipped THEN <<>> ELSE lines]
        /\ inbound' = [inbound EXCEPT ![c] = IF whole THEN lines ELSE inbound[c]]
        /\ pc' = [pc EXCEPT ![c] = IF whole THEN "process" ELSE "select"]
        /\ UNCHANGED <<registry, sent, handled, cuts, shared>>
    BY DEF read_line, AwaitsBody, Waits, Goto
  <1>2. Keeps(c)
    BY <1>1, RunningKeeps DEF Running
  <1>3. inbound[c] = <<>> /\ (c \in Ws => m = 0)
    BY <1>1, <1>2 DEF Keeps
  <1>4. /\ w \in Seq(Line) /\ p \in Seq(Line) /\ k \in Nat /\ h \in Seq(Nat) /\ m \in Nat
        /\ Held(p) /\ (c \in Tls <=> c \notin Ws)
    BY <1>2, ConnTypes
  <1>5. (c \in Ws) = FALSE
    BY <1>1, <1>4, NoFrames
  <1>6. Unread(p \o w, k, FALSE) /\ Ordered(p \o w, <<>>, k, h) /\ Bounded(p \o w, <<>>, k, h, m)
    <2>1. /\ Unread(p \o w, k, c \in Ws)
          /\ Ordered(p \o w, inbound[c], k, h) /\ Bounded(p \o w, inbound[c], k, h, m)
      BY <1>2, ConnTypes
    <2> QED BY <2>1, <1>3, <1>5
  <1>7. /\ sent = [sent EXCEPT ![c] = k] /\ handled = [handled EXCEPT ![c] = h]
        /\ cuts = [cuts EXCEPT ![c] = m]
    BY <1>2, NoChange DEF Keeps
  <1>8. /\ Head(w) \in Line /\ t \in Seq(Line) /\ lines \in Seq(Line) /\ lines # <<>> /\ Len(lines) = Len(p) + 1
        /\ Len(p) \in Nat /\ DOMAIN lines = 1 .. Len(p) + 1
        /\ \A i \in 1 .. Len(p) : lines[i] = p[i]
    <2>1. Head(w) \in Line /\ t \in Seq(Line)
      BY <1>1, <1>4, Dropped
    <2>2. /\ lines \in Seq(Line) /\ lines # <<>> /\ Len(lines) = Len(p) + 1
          /\ \A i \in 1 .. Len(p) : lines[i] = p[i]
      <3>1. p \in Seq(Line)
        BY <1>4
      <3> QED BY <2>1, <3>1, Appended, SMTT(30)
    <2> HIDE DEF lines
    <2>3. Len(p) \in Nat /\ DOMAIN lines = 1 .. Len(p) + 1
      BY <2>2, <1>4, SMTT(30)
    <2> QED BY <2>1, <2>2, <2>3
  <1>9. "select" \in {"select", "process", "ending"} /\ <<>> \in Seq(Line)
        /\ (<<>> # <<>> <=> "select" = "process") /\ "select" # "process"
    BY <1>4, NothingFirst
  <1>10. CASE whole
    <2>1. Moves(c, "process", t, <<>>, lines, k, h, m)
      BY <1>1, <1>7, <1>10 DEF Moves
    <2>2. IsBlank(Head(w)) /\ Len(lines) > 1 /\ ~ \E i \in DOMAIN lines : lines[i].part = "len"
      BY <1>10
    <2> HIDE DEF whole, skipped, lines
    <2>3. p # <<>>
      BY <2>2, <1>4, <1>8, SMTT(30)
    <2>4. \A i \in 1 .. Len(p) : i \in DOMAIN lines
      BY <1>8, SMTT(30)
    <2>5. \A i \in 1 .. Len(p) : p[i].part # "len"
      BY <2>2, <2>4, <1>8
    <2>6. Handed(p \o w, Append(p, Head(w)), t)
      BY <2>2, <2>3, <2>5, <1>1, <1>4, <1>6, HandedShort
    <2> QED BY <2>1, <2>6, <1>1, <1>2, <1>3, HandOn DEF lines
  <1>11. CASE skipped
    <2>0. IsBlank(Head(w)) /\ Len(lines) = 1 /\ ~(1 > 1)
      BY <1>11, SMTT(30)
    <2>1. ~whole
      BY <2>0
    <2>2. Moves(c, "select", t, <<>>, <<>>, k, h, m)
      BY <2>1, <1>1, <1>3, <1>7, <1>11 DEF Moves
    <2> HIDE DEF whole, skipped, lines
    <2>3. p = <<>>
      <3>1. Len(p) = 0
        <4>1. Len(lines) = 1 /\ Len(lines) = Len(p) + 1 /\ Len(p) \in Nat
          BY <2>0, <1>8
        <4> QED BY <4>1, NoneBefore
      <3>2. p \in Seq(Line)
        BY <1>4
      <3> HIDE DEF p
      <3> QED BY <3>1, <3>2, SMTT(30)
    <2>4. p \o w = w /\ <<>> \o t = t /\ Held(<<>>)
      BY <2>3, <1>4, <1>8, NothingFirst
    <2>5. Unread(w, k, FALSE) /\ Ordered(w, <<>>, k, h) /\ Bounded(w, <<>>, k, h, m)
      BY <2>4, <1>6
    <2>6. Ordered(t, <<>>, k, h) /\ Bounded(t, <<>>, k, h, m)
      BY <2>0, <2>5, <1>1, <1>4, SkippedSafe
    <2>7. Unread(t, k, FALSE)
      BY <1>1, <1>4, <1>6, OnWire
    <2>8. Sound(FALSE, t, <<>>, <<>>, k, h, m)
      BY <2>4, <2>6, <2>7 DEF Sound
    <2>9. Sound(c \in Ws, t, <<>>, <<>>, k, h, m)
      BY <2>8, <1>5
    <2> HIDE DEF w, p, k, h, m, t
    <2> QED BY <2>2, <2>9, <1>2, <1>3, <1>4, <1>8, <1>9, MoveSound
  <1>12. CASE ~whole /\ ~skipped
    <2>1. Moves(c, "select", t, lines, <<>>, k, h, m)
      BY <1>1, <1>3, <1>7, <1>12 DEF Moves
    <2>2. IsBlank(Head(w)) => Len(lines) # 1 /\ \E i \in DOMAIN lines : lines[i].part = "len"
      <3>1. Len(lines) > 1 \/ Len(lines) = 1
        BY <1>8, SMTT(30)
      <3> QED BY <3>1, <1>12
    <2>3. Held(lines)
      BY <2>2, <1>1, <1>4, <1>6, HeldOn
    <2>4. lines \o t = p \o w
      BY <1>1, <1>4, ReadOn
    <2> HIDE DEF whole, skipped, lines, t
    <2>5. Sound(FALSE, t, lines, <<>>, k, h, m)
      BY <2>3, <2>4, <1>6 DEF Sound
    <2>6. Sound(c \in Ws, t, lines, <<>>, k, h, m)
      BY <2>5, <1>5
    <2> HIDE DEF w, p, k, h, m
    <2> QED BY <2>1, <2>6, <1>1, <1>2, <1>3, <1>4, <1>8, <1>9, MoveSound
  <1> QED BY <1>10, <1>11, <1>12


(* An outbound message wins: a read that had begun is dropped.              *)
LEMMA CutStep ==
    ASSUME Sizes, StreamsInv, NEW c \in Conns, recv(c)
    PROVE  StreamsInv'
  <1> DEFINE w == wire[c] p == partial[c] k == sent[c] h == handled[c] m == cuts[c]
  <1>1. PICK half \in BOOLEAN, l \in {"select", "ending"} :
            /\ pc[c] = "select"
            /\ half => c \in Tls /\ w # <<>> /\ Head(w).part # "rest"
            /\ wire' = IF half THEN [wire EXCEPT ![c][1] = Rest(@)] ELSE wire
            /\ partial' = [partial EXCEPT ![c] = <<>>]
            /\ cuts' = [cuts EXCEPT ![c] = IF half \/ p # <<>> THEN m + 1 ELSE m]
            /\ pc' = [pc EXCEPT ![c] = l]
            /\ UNCHANGED <<inbound, registry, sent, handled, shared>>
    <2>1. PICK half \in BOOLEAN :
            /\ pc[c] = "select"
            /\ half => c \in Tls /\ w # <<>> /\ Head(w).part # "rest"
            /\ wire' = IF half THEN [wire EXCEPT ![c][1] = Rest(@)] ELSE wire
            /\ partial' = [partial EXCEPT ![c] = <<>>]
            /\ cuts' = [cuts EXCEPT ![c] = IF half \/ p # <<>> THEN m + 1 ELSE m]
            /\ pc' = pc \/ pc' = [pc EXCEPT ![c] = "ending"]
            /\ UNCHANGED <<inbound, registry, sent, handled, shared>>
      BY DEF recv, Goto
    <2>2. pc = [pc EXCEPT ![c] = pc[c]]
      BY NoChange DEF StreamsInv, StreamsTypeOK
    <2>3. pc' = [pc EXCEPT ![c] = "select"] \/ pc' = [pc EXCEPT ![c] = "ending"]
      BY <2>1, <2>2
    <2> QED BY <2>1, <2>3
  <1>2. Keeps(c)
    BY <1>1, RunningKeeps DEF Running
  <1>3. inbound[c] = <<>> /\ (c \in Ws => m = 0) /\ (p # <<>> => c \in Tls)
    BY <1>1, <1>2 DEF Keeps
  <1>4. /\ w \in Seq(Line) /\ p \in Seq(Line) /\ k \in Nat /\ h \in Seq(Nat) /\ m \in Nat
        /\ Held(p) /\ (c \in Tls <=> c \notin Ws) /\ (c \in Ws) \in BOOLEAN
    BY <1>2, ConnTypes
  <1>5. /\ Unread(p \o w, k, c \in Ws)
        /\ Ordered(p \o w, <<>>, k, h) /\ Bounded(p \o w, <<>>, k, h, m)
    <2>1. /\ Unread(p \o w, k, c \in Ws)
          /\ Ordered(p \o w, inbound[c], k, h) /\ Bounded(p \o w, inbound[c], k, h, m)
      BY <1>2, ConnTypes
    <2> QED BY <2>1, <1>3
  <1>6. /\ wire = [wire EXCEPT ![c] = w] /\ sent = [sent EXCEPT ![c] = k]
        /\ handled = [handled EXCEPT ![c] = h] /\ inbound = [inbound EXCEPT ![c] = <<>>]
    <2>1. /\ wire = [wire EXCEPT ![c] = w] /\ sent = [sent EXCEPT ![c] = k]
          /\ handled = [handled EXCEPT ![c] = h] /\ inbound = [inbound EXCEPT ![c] = inbound[c]]
      BY <1>2, NoChange DEF Keeps
    <2> QED BY <2>1, <1>3
  <1>7. /\ l \in {"select", "process", "ending"} /\ <<>> \in Seq(Line) /\ l # "process"
        /\ (<<>> # <<>> <=> l = "process")
    BY <1>4, NothingFirst
  <1>8. CASE ~half /\ p = <<>>
    <2>1. Moves(c, l, w, <<>>, <<>>, k, h, m)
      BY <1>1, <1>6, <1>8 DEF Moves
    <2> HIDE DEF w, p, k, h, m
    <2>2. Sound(c \in Ws, w, <<>>, <<>>, k, h, m)
      BY <1>4, <1>5, <1>8 DEF Sound
    <2> QED BY <2>1, <2>2, <1>2, <1>3, <1>4, <1>7, MoveSound
  <1>9. CASE half \/ p # <<>>
    <2> DEFINE t == IF half THEN [w EXCEPT ![1] = Rest(@)] ELSE w
    <2>1. Moves(c, l, t, <<>>, <<>>, k, h, m + 1)
      <3>1. wire' = [wire EXCEPT ![c] = t]
        BY <1>1, <1>6
      <3>2. cuts' = [cuts EXCEPT ![c] = m + 1]
        BY <1>1, <1>9
      <3> QED BY <3>1, <3>2, <1>1, <1>6 DEF Moves
    <2>2. c \in Tls
      BY <1>1, <1>3, <1>9
    <2>3. (c \in Ws) = FALSE
      BY <2>2, <1>4, NoFrames
    <2>4. FALSE \in BOOLEAN /\ Unread(p \o w, k, FALSE)
      BY <2>3, <1>5
    <2>5. half => w # <<>> /\ Head(w).part # "rest"
      BY <1>1
    <2> HIDE DEF w, p, k, h, m
    <2>6. Unread(w, k, FALSE)
      BY <2>4, <1>4, OnWire
    <2>7. t \in Seq(Line) /\ Unread(t, k, FALSE) /\ Numbers(t) = Numbers(w)
      <3>1. CASE half
        <4>1. /\ t \in Seq(Line) /\ Len(t) = Len(w) /\ Unread(t, k, FALSE)
              /\ \A i \in 1 .. Len(w) : t[i].n = w[i].n
          BY <3>1, <2>5, <2>6, HalvedStream
        <4> HIDE DEF t
        <4>2. DOMAIN t = 1 .. Len(t) /\ DOMAIN w = 1 .. Len(w)
          BY <4>1, <1>4, SMTT(30)
        <4> QED BY <4>1, <4>2 DEF Numbers
      <3>2. CASE ~half
        BY <3>2, <2>6, <1>4
      <3> QED BY <3>1, <3>2
    <2> HIDE DEF t
    <2>8. Ordered(t, <<>>, k, h) /\ Bounded(t, <<>>, k, h, m + 1)
      BY <2>4, <2>7, <1>4, <1>5, CutSafe
    <2>9. <<>> \o t = t /\ Held(<<>>)
      BY <2>7, NothingFirst
    <2>10. Sound(c \in Ws, t, <<>>, <<>>, k, h, m + 1)
      BY <2>3, <2>7, <2>8, <2>9 DEF Sound
    <2>11. m + 1 \in Nat
      BY <1>4, SMTT(30)
    <2> DEFINE mm == m + 1
    <2> HIDE DEF mm
    <2>12. Moves(c, l, t, <<>>, <<>>, k, h, mm) /\ Sound(c \in Ws, t, <<>>, <<>>, k, h, mm) /\ mm \in Nat
      BY <2>1, <2>10, <2>11 DEF mm
    <2>13. c \in Ws => mm = 0
      BY <2>2, <1>4
    <2> QED BY <2>7, <2>12, <2>13, <1>2, <1>4, <1>7, MoveSound
  <1> QED BY <1>8, <1>9


-----------------------------------------------------------------------------
(* Every step keeps the invariant.                                          *)
LEMMA StepStreams ==
    ASSUME Sizes
    PROVE  StreamsInv /\ [StreamsNext]_streamVars => StreamsInv'
  <1> SUFFICES ASSUME StreamsInv, [StreamsNext]_streamVars PROVE StreamsInv'
    OBVIOUS
  <1>1. ASSUME NEW c \in Conns, ClientSend(c) PROVE StreamsInv'
    BY <1>1, SendStep
  <1>2. ASSUME NEW c \in Conns, read_line(c) PROVE StreamsInv'
    BY <1>2, LineStep
  <1>3. ASSUME NEW c \in Conns, read_exact(c) \/ next_frame(c) PROVE StreamsInv'
    BY <1>3, ExactStep
  <1>4. ASSUME NEW c \in Conns, process_inbound(c) PROVE StreamsInv'
    BY <1>4, ProcessStep
  <1>5. ASSUME NEW c \in Conns, recv(c) PROVE StreamsInv'
    BY <1>5, CutStep
  <1>6. ASSUME \/ \E c \in Conns : \/ Connect(c) \/ ClientClose(c) \/ Accept(c) \/ HandshakeFails(c)
                                   \/ ReadEnds(c) \/ End(c)
               \/ \E s \in Senders : SendClone(s) \/ SendPush(s)
               \/ UNCHANGED streamVars
        PROVE  StreamsInv'
    BY <1>6, QuietSteps
  <1> QED BY <1>1, <1>2, <1>3, <1>4, <1>5, <1>6 DEF StreamsNext, Pump

INSTANCE FiniteSetTheorems

(* The library proves the facts about sizes.                                *)
LEMMA SizesHold == Sizes
  <1>1. \A A : IsFiniteSet(A) => Cardinality(A) \in Nat
    BY FS_CardinalityType
  <1>2. \A A, B : IsFiniteSet(A) /\ B \subseteq A => IsFiniteSet(B) /\ Cardinality(B) <= Cardinality(A)
    BY FS_Subset
  <1>3. \A A, x : IsFiniteSet(A) =>
          /\ IsFiniteSet(A \cup {x})
          /\ Cardinality(A \cup {x}) = IF x \in A THEN Cardinality(A) ELSE Cardinality(A) + 1
    BY FS_AddElement
  <1>4. \A a, b \in Int : IsFiniteSet(a .. b)
    BY FS_Interval
  <1> QED BY <1>1, <1>2, <1>3, <1>4, FS_EmptySet DEF Sizes

(* The invariant of the connections: types, the registry, and, for each     *)
(* connection, what is unread, held, handed on and handled.                 *)
THEOREM StreamsInvariant == StreamsSpec => []StreamsInv
  BY SizesHold, InitStreams, StepStreams, PTL DEF StreamsSpec

(* TypeOK of the connections always holds: a read is cut only on TLS, and   *)
(* its future holds lines only in the select!.                              *)
THEOREM StreamsTypes == StreamsSpec => []StreamsTypeOK
  <1>1. StreamsInv => StreamsTypeOK
    BY DEF StreamsInv
  <1> QED BY <1>1, StreamsInvariant, PTL

(* The registry leads only to running connections, and to each of them that *)
(* no other one of the address came after: register, unregister.            *)
THEOREM RegistryKept == StreamsSpec => []RegistryFollows
  <1>1. StreamsInv => RegistryFollows
    BY DEF StreamsInv
  <1> QED BY <1>1, StreamsInvariant, PTL

(* However the reads of read_next_sip_message are cut by outbound messages, *)
(* each cut costs at most two messages and makes at most two mangled ones,  *)
(* and what is handled whole is handled in order and once.                  *)
THEOREM DamageBounded == StreamsSpec => []DamageIsBounded
  <1>1. ASSUME StreamsInv, NEW c \in Conns
        PROVE  LET given == handled[c]
                   Whole == {i \in DOMAIN given : given[i] # Mangled}
               IN  /\ \A i, j \in Whole : i < j => given[i] < given[j]
                   /\ Cardinality(ReadUp(c) \ {given[i] : i \in Whole}) <= 2 * cuts[c]
                   /\ Cardinality(DOMAIN given \ Whole) <= 2 * cuts[c]
                   /\ c \in Ws => cuts[c] = 0
    <2> DEFINE w == wire[c] p == partial[c] b == inbound[c] k == sent[c] h == handled[c] m == cuts[c]
               s == p \o w D == Damaged(s, b, k, h) L == Lost(s, b, k, h)
    <2>1. /\ w \in Seq(Line) /\ p \in Seq(Line) /\ b \in Seq(Line)
          /\ k \in Nat /\ h \in Seq(Nat) /\ m \in Nat /\ (c \in Ws => m = 0)
      BY <1>1 DEF StreamsInv, StreamsTypeOK
    <2>2. Unread(s, k, c \in Ws) /\ Ordered(s, b, k, h) /\ Bounded(s, b, k, h, m)
      BY <1>1 DEF StreamsInv, SoundInv, Sound
    <2>3. ReadUp(c) \ {h[i] : i \in WholeIn(h)} = L
      <3>1. Numbers(s) = Numbers(p) \cup Numbers(w)
        BY <2>1, NumbersJoined
      <3> QED BY <3>1 DEF ReadUp, Lost
    <2>4. \A i, j \in WholeIn(h) : i < j => h[i] < h[j]
      BY <2>2 DEF Ordered
    <2> HIDE DEF w, p, b, k, h, m, s
    <2>5. L \subseteq D
      BY DEF Damaged
    <2>6. IsFiniteSet(D) /\ Cardinality(DOMAIN h \ WholeIn(h)) \in Nat
      BY <2>1, <2>2, SizesHold, FiniteDamage
    <2>7. /\ Cardinality(D) <= 2 * m
          /\ Cardinality(DOMAIN h \ WholeIn(h)) + OwedIn(b) + Owed(s) <= 2 * m
      BY <2>2 DEF Bounded
    <2>8. OwedIn(b) \in Nat /\ Owed(s) \in Nat
      BY OwedTypes
    <2> HIDE DEF D, L
    <2>9. Cardinality(L) <= Cardinality(D) /\ Cardinality(L) \in Nat /\ Cardinality(D) \in Nat
      BY <2>5, <2>6, SizesHold, NoMore
    <2>10. Cardinality(L) <= 2 * m
      BY <2>1, <2>7, <2>9, SMTT(30)
    <2>11. Cardinality(DOMAIN h \ WholeIn(h)) <= 2 * m
      BY <2>1, <2>6, <2>7, <2>8, SMTT(30)
    <2> QED BY <2>1, <2>3, <2>4, <2>10, <2>11 DEF WholeIn, h, m
  <1>2. StreamsInv => DamageIsBounded
    BY <1>1 DEF DamageIsBounded
  <1> QED BY <1>2, StreamsInvariant, PTL
=============================================================================
