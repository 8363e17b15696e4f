--------------------------- MODULE WebhookDelivery ---------------------------
(***************************************************************************)
(* Outbound webhooks.                                                      *)
(*                                                                         *)
(*   dispatch_event (webhooks/dispatcher.py) pushes a message on a Redis   *)
(*     list, or drops it                                                   *)
(*   WebhookWorker (workers/webhook_worker.py) pops a message, reads the   *)
(*     active endpoints, posts to each of them with retries, and commits   *)
(*     the delivery rows and failure counts of the message at once         *)
(*   create_webhook_endpoint, delete_webhook_endpoint                      *)
(*     (api/v1/webhook_endpoints.py)                                       *)
(*                                                                         *)
(* PostgreSQL runs READ COMMITTED: an update locks its row until the end   *)
(* of the transaction, a row that refers to an endpoint keeps it from      *)
(* being deleted once it is flushed, and of transactions that wait for     *)
(* each other one is aborted.                                              *)
(***************************************************************************)
EXTENDS Naturals, Sequences, FiniteSets, SequencesExt

CONSTANTS
    Endpoints, Workers,
    NMessages,    \* bound: messages, numbered in the order of their dispatch
    Subscribed,   \* <<endpoint, message>>: the endpoint lists the event type
    Initial,      \* endpoints registered at the start; the others are created later
    Threshold,    \* CIRCUIT_BREAKER_THRESHOLD
    MaxAttempts,  \* MAX_ATTEMPTS
    MaxDeliveryFaults     \* bound: dropped messages, exceptions and crashes

MessageIds == 1..NMessages

ASSUME WebhookAssumption ==
    /\ NMessages \in Nat \ {0}
    /\ Subscribed \subseteq Endpoints \X MessageIds
    /\ Initial \subseteq Endpoints /\ IsFiniteSet(Endpoints)
    /\ Threshold \in Nat \ {0} /\ MaxAttempts \in Nat \ {0} /\ MaxDeliveryFaults \in Nat

VARIABLES
    dispatched,  \* messages dispatched or dropped so far
    deliveries,       \* the Redis list
    endpoints,   \* committed rows: [status, active, failures]
    log,         \* each endpoint's committed delivery rows in the order of their
                 \* commits: whether it was delivered
    worker,      \* [at, message, todo, read, attempt, result, rows, flushed, writes]
    finished,    \* messages whose transaction was committed
    lost,        \* messages dropped, or gone with an exception or a crash
    overlapped,  \* history: endpoints another worker counted for in the meantime
    deliveryFaults

webhookVars == <<dispatched, deliveries, endpoints, log, worker, finished, lost, overlapped, deliveryFaults>>

\* read: the failure counts as they were read; rows: the delivery row of each endpoint
\* that was posted to, of which those of `flushed` are in the database; writes: the
\* endpoint rows updated, hence locked.
Idle == [at |-> "idle", message |-> 1, todo |-> <<>>, read |-> <<>>,
         attempt |-> 1, result |-> "none", rows |-> <<>>, flushed |-> {}, writes |-> <<>>]

WebhookInit ==
    /\ dispatched = 0 /\ deliveries = <<>>
    /\ endpoints = [e \in Endpoints |->
                       [status |-> IF e \in Initial THEN "registered" ELSE "absent",
                        active |-> TRUE, failures |-> 0]]
    /\ log = [e \in Endpoints |-> <<>>] /\ worker = [w \in Workers |-> Idle]
    /\ finished = {} /\ lost = {} /\ overlapped = {}
    /\ deliveryFaults = 0

Registered == {e \in Endpoints : endpoints[e].status = "registered"}

-----------------------------------------------------------------------------
(* dispatch_event, and the endpoints API *)

Dispatch ==
    /\ dispatched < NMessages
    /\ dispatched' = dispatched + 1
    /\ deliveries' = Append(deliveries, dispatched')
    /\ UNCHANGED <<endpoints, log, worker, finished, lost, overlapped, deliveryFaults>>

\* Redis is unavailable: the event is logged and dropped.
DispatchFails ==
    /\ dispatched < NMessages /\ deliveryFaults < MaxDeliveryFaults
    /\ dispatched' = dispatched + 1
    /\ lost' = lost \union {dispatched'}
    /\ deliveryFaults' = deliveryFaults + 1
    /\ UNCHANGED <<deliveries, endpoints, log, worker, finished, overlapped>>

Create(e) ==
    /\ endpoints[e].status = "absent"
    /\ endpoints' = [endpoints EXCEPT ![e].status = "registered"]
    /\ UNCHANGED <<dispatched, deliveries, log, worker, finished, lost, overlapped, deliveryFaults>>

Locked(e, by) == \E w \in Workers \ {by} : e \in DOMAIN worker[w].writes

\* The delivery rows of the endpoint go with it.
Delete(e) ==
    /\ e \in Registered
    /\ \A w \in Workers : e \notin worker[w].flushed \union DOMAIN worker[w].writes
    /\ endpoints' = [endpoints EXCEPT ![e].status = "deleted"]
    /\ log' = [log EXCEPT ![e] = <<>>]
    /\ UNCHANGED <<dispatched, deliveries, worker, finished, lost, overlapped, deliveryFaults>>

-----------------------------------------------------------------------------
(* WebhookWorker.run *)

Eligible(m) ==
    {e \in Registered : /\ endpoints[e].active
                        /\ <<e, m>> \in Subscribed
                        /\ endpoints[e].failures < Threshold}

\* The message leaves the list, and the endpoints are read, in any order.
TakeMessage(w) ==
    /\ worker[w].at = "idle" /\ deliveries # <<>>
    /\ \E todo \in SetToSeqs(Eligible(Head(deliveries))) :
          worker' = [worker EXCEPT ![w] =
              [Idle EXCEPT !.at = "endpoints", !.message = Head(deliveries), !.todo = todo,
                           !.read = [e \in ToSet(todo) |-> endpoints[e].failures]]]
    /\ deliveries' = Tail(deliveries)
    /\ UNCHANGED <<dispatched, endpoints, log, finished, lost, overlapped, deliveryFaults>>

\* One post: accepted, or refused, unanswered or late.
Post(w) ==
    LET at == worker[w] IN
    /\ at.at = "endpoints" /\ at.todo # <<>> /\ at.result = "none"
    /\ \/ worker' = [worker EXCEPT ![w].result = "ok"]
       \/ at.attempt < MaxAttempts /\ worker' = [worker EXCEPT ![w].attempt = @ + 1]
       \/ at.attempt = MaxAttempts /\ worker' = [worker EXCEPT ![w].result = "failed"]
    /\ UNCHANGED <<dispatched, deliveries, endpoints, log, finished, lost, overlapped, deliveryFaults>>

Put(f, e, value) == [x \in DOMAIN f \union {e} |-> IF x = e THEN value ELSE f[x]]

\* Mutant: a success leaves the count as it is.
CountNeverReset(failures, ok) ==
    IF ok THEN [failures |-> failures, active |-> TRUE]
    ELSE [failures |-> failures + 1, active |-> failures + 1 < Threshold]

\* The values written, from the count that was read; a success writes the count only.
CountAfter(failures, ok) ==
    IF ok THEN [failures |-> 0, active |-> TRUE]
    ELSE [failures |-> failures + 1, active |-> failures + 1 < Threshold]

Writes(w) == worker[w].result = "failed" \/ worker[w].read[Head(worker[w].todo)] > 0

\* The end of _deliver_to_endpoint.  An update flushes the rows before it: if an
\* endpoint of theirs was deleted, it raises.
Record(w) ==
    LET at == worker[w]
        e == Head(at.todo)
        ok == at.result = "ok"
        rows == Put(at.rows, e, ok)
        next == [at EXCEPT !.todo = Tail(@), !.attempt = 1, !.result = "none", !.rows = rows]
    IN  /\ at.at = "endpoints" /\ at.result # "none"
        /\ IF Writes(w)
           THEN /\ ~Locked(e, w)
                /\ DOMAIN rows \subseteq Registered
                /\ worker' = [worker EXCEPT ![w] =
                      [next EXCEPT !.flushed = DOMAIN rows,
                                   !.writes = Put(@, e, CountAfter(at.read[e], ok))]]
           ELSE worker' = [worker EXCEPT ![w] = next]
        /\ UNCHANGED <<dispatched, deliveries, endpoints, log, finished, lost, overlapped, deliveryFaults>>

\* is_active is written by a failure that reaches the threshold, never set again.
Updated(e, write) ==
    [endpoints[e] EXCEPT !.failures = write.failures, !.active = @ /\ write.active]

CommitDeliveries(w) ==
    LET at == worker[w] IN
    /\ at.at = "endpoints" /\ at.todo = <<>>
    /\ DOMAIN at.rows \subseteq Registered
    /\ log' = [e \in Endpoints |->
                  IF e \in DOMAIN at.rows THEN Append(log[e], at.rows[e]) ELSE log[e]]
    /\ endpoints' = [e \in Endpoints |->
                        IF e \in DOMAIN at.writes THEN Updated(e, at.writes[e]) ELSE endpoints[e]]
    /\ finished' = finished \union {at.message}
    /\ overlapped' = overlapped \union
                        {e \in DOMAIN at.read : at.read[e] # endpoints[e].failures}
    /\ worker' = [worker EXCEPT ![w] = Idle]
    /\ UNCHANGED <<dispatched, deliveries, lost, deliveryFaults>>

-----------------------------------------------------------------------------
(* What goes wrong *)

\* Mutant: the worker ends with the exception.
LoopEnds(w) == [worker EXCEPT ![w].at = "stopped"]

\* rollback, and the next message.
LoopGoesOn(w) == [worker EXCEPT ![w] = Idle]

RollbackDeliveries(w) ==
    /\ lost' = lost \union {worker[w].message}
    /\ UNCHANGED <<dispatched, deliveries, endpoints, log, finished, overlapped>>

\* A flush finds that an endpoint of the rows was deleted.
FlushFails(w) ==
    LET at == worker[w]
        flushes == IF at.todo = <<>> THEN {} ELSE {Head(at.todo)}
    IN  /\ at.at = "endpoints"
        /\ at.todo = <<>> \/ (at.result # "none" /\ Writes(w))
        /\ \E e \in flushes \union DOMAIN at.rows : e \notin Registered
    /\ worker' = LoopGoesOn(w)
    /\ RollbackDeliveries(w)
    /\ UNCHANGED deliveryFaults

WaitsFor(w, v) ==
    /\ worker[w].result # "none" /\ Writes(w)
    /\ Head(worker[w].todo) \in DOMAIN worker[v].writes

\* PostgreSQL aborts one of two transactions that wait for each other.
AbortDeadlock(w) ==
    /\ \E v \in Workers \ {w} : WaitsFor(w, v) /\ WaitsFor(v, w)
    /\ worker' = LoopGoesOn(w)
    /\ RollbackDeliveries(w)
    /\ UNCHANGED deliveryFaults

\* An exception that is not an httpx.HTTPError, a database error, or a crash.
Fails(w) ==
    /\ worker[w].at = "endpoints" /\ deliveryFaults < MaxDeliveryFaults
    /\ worker' = LoopGoesOn(w)
    /\ RollbackDeliveries(w)
    /\ deliveryFaults' = deliveryFaults + 1

-----------------------------------------------------------------------------
DeliveryStep(w) ==
    \/ TakeMessage(w) \/ Post(w) \/ Record(w) \/ CommitDeliveries(w) \/ FlushFails(w) \/ AbortDeadlock(w)

WebhookNext ==
    \/ Dispatch \/ DispatchFails
    \/ \E e \in Endpoints : Create(e) \/ Delete(e)
    \/ \E w \in Workers : DeliveryStep(w) \/ Fails(w)

\* The loop of a worker goes on; the steps that end a wait are PostgreSQL's.
Fairness == \A w \in Workers : WF_webhookVars(DeliveryStep(w))

WebhookSpec == WebhookInit /\ [][WebhookNext]_webhookVars /\ Fairness

-----------------------------------------------------------------------------
(* Properties *)

Counts == [failures : Nat, active : BOOLEAN]

WorkerOK(at) ==
    /\ at = [at |-> at.at, message |-> at.message, todo |-> at.todo, read |-> at.read,
             attempt |-> at.attempt, result |-> at.result, rows |-> at.rows,
             flushed |-> at.flushed, writes |-> at.writes]
    /\ at.at \in {"idle", "endpoints"} /\ at.message \in MessageIds
    /\ at.todo \in Seq(Endpoints) /\ at.attempt \in 1..MaxAttempts
    /\ at.result \in {"none", "ok", "failed"} /\ at.flushed \subseteq Endpoints
    /\ DOMAIN at.read \subseteq Endpoints /\ at.read \in [DOMAIN at.read -> Nat]
    /\ DOMAIN at.rows \subseteq Endpoints /\ at.rows \in [DOMAIN at.rows -> BOOLEAN]
    /\ DOMAIN at.writes \subseteq Endpoints /\ at.writes \in [DOMAIN at.writes -> Counts]

WebhookTypeOK ==
    /\ dispatched \in 0..NMessages
    /\ deliveries \in Seq(MessageIds)
    /\ endpoints \in [Endpoints -> [status : {"absent", "registered", "deleted"},
                                    active : BOOLEAN, failures : Nat]]
    /\ log \in [Endpoints -> Seq(BOOLEAN)]
    /\ worker = [w \in Workers |-> worker[w]] /\ \A w \in Workers : WorkerOK(worker[w])
    /\ finished \subseteq MessageIds /\ lost \subseteq MessageIds
    /\ overlapped \subseteq Endpoints
    /\ deliveryFaults \in 0..MaxDeliveryFaults

\* The circuit breaker opens for cause: an endpoint that is switched off has at least
\* Threshold failed deliveries on record, and unless two workers counted for it at the
\* same time they are its last ones, with no success in between.  (The count is read
\* when the message is taken and written when its retries are over.)
BreakerTripsForCause ==
    \A e \in Registered : ~endpoints[e].active =>
        /\ Cardinality({i \in DOMAIN log[e] : ~log[e][i]}) >= Threshold
        /\ \/ e \in overlapped
           \/ \A i \in (Len(log[e]) - Threshold + 1)..Len(log[e]) : ~log[e][i]

\* Every message that is dispatched is worked off, whatever receivers, deletions and
\* deadlocks do to it: committed, or lost with its transaction.
MessagesAreWorkedOff ==
    \A m \in MessageIds : m <= dispatched ~> m \in finished \union lost
=============================================================================
