---------------------------- MODULE WebhookOutbox ----------------------------
(* The webhook outbox: WebhookDispatcher (enqueue, the worker that drains   *)
(* the table) and the management API of webhooks and deliveries.            *)
(*                                                                          *)
(* A delivery is a row of sip_webhook_deliveries, named by its id.  Every   *)
(* SQL statement and the POST is a step; producers, the worker and the API  *)
(* run between each other's steps and the process may die between any two.  *)
EXTENDS Integers, FiniteSets

CONSTANTS
    Hooks,         \* rows of sip_webhooks
    Types,         \* event types
    Producers,     \* runs of enqueue, each for one event
    TypeOf,        \* the event type of a producer
    Ids,           \* ids of delivery rows, natural numbers handed out in order
    MAX_ATTEMPTS,  \* 10 in the code
    Limit,         \* rows of one batch, 50 in the code
    MaxFaults,     \* bound: crashes and failing updates
    MaxAdmin,      \* bound: requests to the management API
    NoHook,        \* the owner of an id that is not used yet
    NoId           \* no delivery is being posted

ASSUME OutboxAssumption ==
    /\ Ids \subseteq Nat
    /\ MAX_ATTEMPTS \in Nat
    /\ TypeOf \in [Producers -> Types]
    /\ NoHook \notin Hooks
    /\ NoId \notin Ids

VARIABLES
    active,      \* sip_webhooks: none, on, off or deleted
    listens,     \* sip_webhooks: events_json as a set of types
    todo,        \* producer: webhooks a row is still to be inserted for
    ppc,         \* producer: idle, inserting or done
    owner,       \* delivery row: webhook_id
    status,      \* delivery row: none while the id is not used
    gone,        \* delivery rows removed with their webhook
    attempts,    \* delivery row: attempts
    due,         \* failed rows whose next_retry_at has passed
    wpc,         \* worker: sleep, post or record
    batch,       \* worker: the rows of drain_once still to be handled
    readAt,      \* worker: the attempts of each row when it was selected
    current,     \* worker: the row being posted
    outcome,     \* worker: what the POST returned
    accepted,    \* history: how often the receiver took a delivery
    unrecorded,  \* history: deliveries taken without the table saying so
    refused,     \* history: POSTs of a delivery that did not succeed
    faults, requests

hookVars == <<active, listens>>
producerVars == <<todo, ppc>>
rowVars == <<owner, status, gone, attempts, due>>
workerVars == <<wpc, batch, readAt, current, outcome>>
historyVars == <<accepted, unrecorded, refused>>
vars == <<hookVars, producerVars, rowVars, workerVars, historyVars, faults, requests>>

Live(d) == status[d] # "none" /\ d \notin gone

Init ==
    /\ active \in [Hooks -> {"none", "on"}]
    /\ listens = [h \in Hooks |-> Types]
    /\ todo = [p \in Producers |-> {}]
    /\ ppc = [p \in Producers |-> "idle"]
    /\ owner = [d \in Ids |-> NoHook]
    /\ status = [d \in Ids |-> "none"]
    /\ gone = {}
    /\ attempts = [d \in Ids |-> 0]
    /\ due = {}
    /\ wpc = "sleep"
    /\ batch = {}
    /\ readAt = [d \in Ids |-> 0]
    /\ current = NoId
    /\ outcome = "none"
    /\ accepted = [d \in Ids |-> 0]
    /\ unrecorded = {}
    /\ refused = [d \in Ids |-> 0]
    /\ faults = 0
    /\ requests = 0

-----------------------------------------------------------------------------
(* enqueue: one SELECT of the active webhooks, then one INSERT for each      *)
(* that listens to the event type.                                           *)

Subscribers(t) == {h \in Hooks : active[h] = "on" /\ t \in listens[h]}

EnqueueSelect(p) ==
    /\ ppc[p] = "idle"
    /\ ppc' = [ppc EXCEPT ![p] = "inserting"]
    /\ todo' = [todo EXCEPT ![p] = Subscribers(TypeOf[p])]
    /\ UNCHANGED <<hookVars, rowVars, workerVars, historyVars, faults, requests>>

NextId(d) == status[d] = "none" /\ \A e \in Ids : e < d => status[e] # "none"

EnqueueInsert(p) ==
    \E h \in todo[p], d \in Ids :
        /\ ppc[p] = "inserting"
        /\ active[h] # "deleted"
        /\ NextId(d)
        /\ owner' = [owner EXCEPT ![d] = h]
        /\ status' = [status EXCEPT ![d] = "pending"]
        /\ todo' = [todo EXCEPT ![p] = @ \ {h}]
        /\ UNCHANGED <<hookVars, ppc, gone, attempts, due, workerVars, historyVars, faults, requests>>

(* An INSERT fails, the foreign key's refusal of a webhook deleted since the *)
(* SELECT included: the error ends the loop for the webhooks that were left. *)
EnqueueAborts(p) ==
    /\ ppc[p] = "inserting"
    /\ todo[p] # {}
    /\ \/ /\ \E h \in todo[p] : active[h] = "deleted"
          /\ UNCHANGED faults
       \/ /\ faults < MaxFaults
          /\ faults' = faults + 1
    /\ todo' = [todo EXCEPT ![p] = {}]
    /\ ppc' = [ppc EXCEPT ![p] = "done"]
    /\ UNCHANGED <<hookVars, rowVars, workerVars, historyVars, requests>>

EnqueueEnds(p) ==
    /\ ppc[p] = "inserting"
    /\ todo[p] = {}
    /\ ppc' = [ppc EXCEPT ![p] = "done"]
    /\ UNCHANGED <<hookVars, todo, rowVars, workerVars, historyVars, faults, requests>>

enqueue(p) == EnqueueSelect(p) \/ EnqueueInsert(p) \/ EnqueueAborts(p) \/ EnqueueEnds(p)

-----------------------------------------------------------------------------
(* The management API: one statement or one transaction each.                *)

Request ==
    /\ requests < MaxAdmin
    /\ requests' = requests + 1
    /\ UNCHANGED <<producerVars, workerVars, historyVars, faults>>

create(h) ==
    /\ Request
    /\ active[h] = "none"
    /\ \E a \in {"on", "off"} : active' = [active EXCEPT ![h] = a]
    /\ \E T \in (SUBSET Types) \ {{}} : listens' = [listens EXCEPT ![h] = T]
    /\ UNCHANGED rowVars

update(h) ==
    /\ Request
    /\ active[h] \in {"on", "off"}
    /\ \E a \in {"on", "off"} : active' = [active EXCEPT ![h] = a]
    /\ \E T \in SUBSET Types : listens' = [listens EXCEPT ![h] = T]
    /\ UNCHANGED rowVars

(* ON DELETE CASCADE removes the deliveries of the webhook.                  *)
delete(h) ==
    /\ Request
    /\ active[h] \in {"on", "off"}
    /\ active' = [active EXCEPT ![h] = "deleted"]
    /\ gone' = gone \cup {d \in Ids : owner[d] = h}
    /\ UNCHANGED <<listens, owner, status, attempts, due>>

\* Faulty variant: the status is not looked at.
retry_any(d) ==
    /\ Request
    /\ Live(d)
    /\ status' = [status EXCEPT ![d] = "pending"]
    /\ due' = due \ {d}
    /\ UNCHANGED <<hookVars, owner, gone, attempts>>

retry_delivery(d) ==
    /\ Request
    /\ Live(d) /\ status[d] \in {"failed", "dead"}
    /\ status' = [status EXCEPT ![d] = "pending"]
    /\ due' = due \ {d}
    /\ UNCHANGED <<hookVars, owner, gone, attempts>>

-----------------------------------------------------------------------------
(* The worker.  drain_once selects a batch, posts its rows in the order of   *)
(* their ids and writes the outcome of each before it posts the next.        *)

FirstOf(S, n) == {d \in S : Cardinality({e \in S : e < d}) < n}

\* Faulty variant: only new rows are taken.
PendingOnly == {d \in Ids : Live(d) /\ status[d] = "pending"}

Waiting == {d \in Ids : Live(d) /\ (status[d] = "pending" \/ (status[d] = "failed" /\ d \in due))}

DrainSelect ==
    /\ wpc = "sleep"
    /\ batch' = FirstOf(Waiting, Limit)
    /\ batch' # {}
    /\ wpc' = "post"
    /\ readAt' = [d \in Ids |-> IF d \in batch' THEN attempts[d] ELSE readAt[d]]
    /\ UNCHANGED <<hookVars, producerVars, rowVars, current, outcome, historyVars, faults, requests>>

(* The receiver takes the delivery and says so, takes it but its answer is   *)
(* late or lost, or does not take it.                                        *)
Post ==
    \E d \in batch :
        /\ wpc = "post"
        /\ \A e \in batch : d <= e
        /\ current' = d
        /\ batch' = batch \ {d}
        /\ wpc' = "record"
        /\ \/ /\ outcome' = "ok"
              /\ accepted' = [accepted EXCEPT ![d] = @ + 1]
              /\ UNCHANGED <<unrecorded, refused, faults>>
           \/ /\ outcome' = "err"
              /\ faults < MaxFaults
              /\ faults' = faults + 1
              /\ accepted' = [accepted EXCEPT ![d] = @ + 1]
              /\ unrecorded' = unrecorded \cup {d}
              /\ refused' = [refused EXCEPT ![d] = @ + 1]
           \/ /\ outcome' = "err"
              /\ refused' = [refused EXCEPT ![d] = @ + 1]
              /\ UNCHANGED <<accepted, unrecorded, faults>>
        /\ UNCHANGED <<hookVars, producerVars, rowVars, readAt, requests>>

Recorded ==
    /\ wpc = "record"
    /\ wpc' = "post"
    /\ current' = NoId
    /\ outcome' = "none"
    /\ UNCHANGED <<hookVars, producerVars, owner, gone, batch, readAt, historyVars, faults, requests>>

\* Faulty variant: every answer counts as a success.
RecordAnyAnswer ==
    /\ Recorded
    /\ status' = IF Live(current) THEN [status EXCEPT ![current] = "delivered"] ELSE status
    /\ UNCHANGED <<attempts, due>>

RecordDelivered ==
    /\ Recorded
    /\ outcome = "ok"
    /\ status' = IF Live(current) THEN [status EXCEPT ![current] = "delivered"] ELSE status
    /\ UNCHANGED <<attempts, due>>

\* Faulty variant: one attempt too few.
maybe_retry_early ==
    /\ Recorded
    /\ outcome = "err"
    /\ IF Live(current)
       THEN /\ attempts' = [attempts EXCEPT ![current] = readAt[current] + 1]
            /\ status' = [status EXCEPT ![current] =
                             IF readAt[current] + 2 >= MAX_ATTEMPTS THEN "dead" ELSE "failed"]
            /\ due' = due \ {current}
       ELSE UNCHANGED <<attempts, status, due>>

(* The new count is computed from the one read with the batch.               *)
maybe_retry ==
    /\ Recorded
    /\ outcome = "err"
    /\ IF Live(current)
       THEN /\ attempts' = [attempts EXCEPT ![current] = readAt[current] + 1]
            /\ status' = [status EXCEPT ![current] =
                             IF readAt[current] + 1 >= MAX_ATTEMPTS THEN "dead" ELSE "failed"]
            /\ due' = due \ {current}
       ELSE UNCHANGED <<attempts, status, due>>

BatchEnds ==
    /\ wpc = "post" /\ batch = {}
    /\ wpc' = "sleep"
    /\ UNCHANGED <<hookVars, producerVars, rowVars, batch, readAt, current, outcome, historyVars, faults, requests>>

(* What the worker held is lost; whether the POST had succeeded with it.     *)
WorkerLosesBatch ==
    /\ faults < MaxFaults
    /\ faults' = faults + 1
    /\ wpc' = "sleep"
    /\ batch' = {}
    /\ current' = NoId
    /\ outcome' = "none"
    /\ unrecorded' = IF outcome = "ok" THEN unrecorded \cup {current} ELSE unrecorded
    /\ UNCHANGED <<hookVars, rowVars, readAt, accepted, refused, requests>>

(* An update that fails leaves drain_once with the rest of its batch.        *)
UpdateFails ==
    /\ wpc = "record"
    /\ WorkerLosesBatch
    /\ UNCHANGED producerVars

(* The process dies and is started again; enqueue calls in progress are lost. *)
Restart ==
    /\ WorkerLosesBatch
    /\ todo' = [p \in Producers |-> {}]
    /\ ppc' = [p \in Producers |-> IF ppc[p] = "inserting" THEN "done" ELSE ppc[p]]

drain_once == DrainSelect \/ Post \/ RecordDelivered \/ maybe_retry \/ BatchEnds

(* next_retry_at passes.                                                     *)
RetryDue(d) ==
    /\ status[d] = "failed" /\ d \notin due
    /\ due' = due \cup {d}
    /\ UNCHANGED <<hookVars, producerVars, owner, status, gone, attempts, workerVars, historyVars, faults, requests>>

Next ==
    \/ \E p \in Producers : enqueue(p)
    \/ \E h \in Hooks : create(h) \/ update(h) \/ delete(h)
    \/ \E d \in Ids : retry_delivery(d) \/ RetryDue(d)
    \/ drain_once
    \/ UpdateFails
    \/ Restart

Fairness ==
    /\ \A p \in Producers : WF_vars(enqueue(p))
    /\ WF_vars(drain_once)
    /\ \A d \in Ids : WF_vars(RetryDue(d))

Spec == Init /\ [][Next]_vars /\ Fairness

-----------------------------------------------------------------------------
(* The variables have their types: hooks, producers, rows and worker.        *)
TypeOK ==
    /\ active \in [Hooks -> {"none", "on", "off", "deleted"}]
    /\ listens \in [Hooks -> SUBSET Types]
    /\ todo \in [Producers -> SUBSET Hooks]
    /\ ppc \in [Producers -> {"idle", "inserting", "done"}]
    /\ owner \in [Ids -> Hooks \cup {NoHook}]
    /\ status \in [Ids -> {"none", "pending", "failed", "dead", "delivered"}]
    /\ gone \in SUBSET Ids
    /\ attempts \in [Ids -> Nat]
    /\ due \in SUBSET Ids
    /\ wpc \in {"sleep", "post", "record"}
    /\ batch \in SUBSET Ids
    /\ readAt \in [Ids -> Nat]
    /\ current \in Ids \cup {NoId}
    /\ outcome \in {"none", "ok", "err"}
    /\ accepted \in [Ids -> Nat]
    /\ unrecorded \in SUBSET Ids
    /\ refused \in [Ids -> Nat]
    /\ faults \in Nat
    /\ requests \in Nat

(* The receiver gets a delivery twice only when the table did not learn of   *)
(* an earlier success: its answer was lost, the update of drain_once failed  *)
(* or the process died between the POST and the update.  Retries from the    *)
(* API and the deletion of webhooks never cause a repetition.                *)
RepetitionExplained == \A d \in Ids : accepted[d] > 1 => d \in unrecorded

(* maybe_retry gives a delivery up only after MAX_ATTEMPTS POSTs of it did   *)
(* not succeed, whatever restarts and retries happened in between.           *)
DeadAfterAllAttempts == \A d \in Ids : status[d] = "dead" => refused[d] >= MAX_ATTEMPTS

(* The table of deliveries, and what receivers have seen, behave as an       *)
(* at-least-once queue: rows removed with their webhook and dead ones are    *)
(* dropped, pending and failed ones queued.                                  *)
QueueState(d) ==
    CASE status[d] = "none" -> "absent"
      [] status[d] = "delivered" -> "done"
      [] status[d] = "dead" \/ (status[d] \in {"pending", "failed"} /\ d \in gone) -> "dropped"
      [] OTHER -> "queued"

Queue == INSTANCE DeliveryQueue WITH
            Item <- Ids,
            state <- [d \in Ids |-> QueueState(d)],
            handed <- {d \in Ids : accepted[d] > 0}

(* The outbox implements the queue: nothing is done that the receiver did    *)
(* not get, and nothing is handed over again once it is done.                *)
ImplementsQueue == Queue!Spec

(* Every delivery is settled: drain_once brings it to delivered or dead, or  *)
(* its webhook is deleted.  A low id that keeps failing does not starve the  *)
(* others in spite of ORDER BY id LIMIT.                                     *)
DeliveriesSettle ==
    \A d \in Ids : status[d] \in {"pending", "failed"} ~>
                       (status[d] \in {"delivered", "dead"} \/ d \in gone)
=============================================================================
