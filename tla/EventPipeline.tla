--------------------------- MODULE EventPipeline ---------------------------
(***************************************************************************)
(* Usage and outcome events, from POST /v1/events to the table that        *)
(* billing counts.                                                         *)
(*                                                                         *)
(*   create_event (api/v1/events.py): SELECT by idempotency key, INSERT,   *)
(*     push to Redis (billing/metering.py); then get_db COMMITs            *)
(*   EventProcessorWorker (workers/event_processor.py): pop to a batch in  *)
(*     memory, flush the batch to ClickHouse                               *)
(*   update_status (agents/outcome_agent.py): the verdict on an outcome    *)
(*                                                                         *)
(* A call pushes one payload, with an event_id of its own (a uuid4 drawn   *)
(* by ingest_event), so a payload is named by its call.  PostgreSQL keeps  *)
(* one row per idempotency key.                                            *)
(***************************************************************************)
EXTENDS Integers, Sequences, SequencesExt

CONSTANTS
    Calls,      \* POSTs to /v1/events, retries by the client included
    Keys,       \* idempotency keys
    KeyOf,      \* the key each call carries
    Nobody,
    BatchSize   \* BATCH_SIZE

ASSUME KeyOfAssumption == KeyOf \in [Calls -> Keys]
ASSUME NobodyAssumption == Nobody \notin Calls
ASSUME BatchSizeAssumption == BatchSize \in Nat \ {0}

VARIABLES
    status,     \* outcome_status of each key's committed row, or "absent"
    holder,     \* the call with an uncommitted INSERT of a key
    pc,         \* where each call is
    queue,      \* the Redis list
    worker,     \* the event processor
    batch,      \* its self._batch
    flushing,   \* the batch it is writing
    stored,     \* ClickHouse: [call, outcome_status]
    dropped,    \* history: payloads that left Redis and were given up
    orphans     \* history: payloads pushed by a call that then rolled back

api == <<holder, pc>>
pipe == <<queue, worker, batch, flushing, stored, dropped>>
vars == <<status, api, pipe, orphans>>

Labels == {"idle", "check", "insert", "push", "commit", "done", "conflict", "lost"}
Ended == {"done", "conflict", "lost"}

Goto(c, label) == pc' = [pc EXCEPT ![c] = label]

\* The end of the call's transaction frees the key.
Release(c) == holder' = [k \in Keys |-> IF holder[k] = c THEN Nobody ELSE holder[k]]

Persisted(k) == status[k] # "absent"

-----------------------------------------------------------------------------
(* create_event *)

Post(c) ==
    /\ pc[c] = "idle"
    /\ Goto(c, "check")
    /\ UNCHANGED <<status, holder, pipe, orphans>>

Check(c) ==
    /\ pc[c] = "check"
    /\ Goto(c, IF Persisted(KeyOf[c]) THEN "done" ELSE "insert")
    /\ UNCHANGED <<status, holder, pipe, orphans>>

\* Mutant: the key is not unique, so the INSERT neither waits nor fails.
InsertAlways(c) ==
    /\ pc[c] = "insert"
    /\ holder' = [holder EXCEPT ![KeyOf[c]] = c]
    /\ Goto(c, "push")
    /\ UNCHANGED <<status, pipe, orphans>>

\* The flush: it waits for another call's uncommitted row of the same key.
Insert(c) ==
    /\ pc[c] = "insert"
    /\ ~ Persisted(KeyOf[c])
    /\ holder[KeyOf[c]] = Nobody
    /\ holder' = [holder EXCEPT ![KeyOf[c]] = c]
    /\ Goto(c, "push")
    /\ UNCHANGED <<status, pipe, orphans>>

\* IntegrityError: rolled back, and a 500.
InsertConflict(c) ==
    /\ pc[c] = "insert"
    /\ Persisted(KeyOf[c])
    /\ Goto(c, "conflict")
    /\ UNCHANGED <<status, holder, pipe, orphans>>

\* ingest_event; an error after the rpush (of the publish) is swallowed as well.
Push(c) ==
    /\ pc[c] = "push"
    /\ queue' = Append(queue, c)
    /\ Goto(c, "commit")
    /\ UNCHANGED <<status, holder, worker, batch, flushing, stored, dropped, orphans>>

\* Redis is unavailable: a warning is logged and the call goes on.
PushFails(c) ==
    /\ pc[c] = "push"
    /\ Goto(c, "commit")
    /\ UNCHANGED <<status, holder, pipe, orphans>>

Commit(c) ==
    /\ pc[c] = "commit"
    /\ status' = [status EXCEPT ![KeyOf[c]] = "unset"]
    /\ Release(c)
    /\ Goto(c, "done")
    /\ UNCHANGED <<pipe, orphans>>

Dropped(payloads) == dropped' = dropped \union ToSet(payloads)

Pushed ==
    ToSet(queue) \union ToSet(batch) \union ToSet(flushing) \union dropped
        \union {e.call : e \in stored}

\* The process dies, or a statement or the COMMIT fails: PostgreSQL rolls back.
\* What was pushed stays pushed.
Lose(c) ==
    /\ pc[c] \notin Ended \union {"idle"}
    /\ Release(c)
    /\ orphans' = orphans \union ({c} \intersect Pushed)
    /\ Goto(c, "lost")
    /\ UNCHANGED <<status, pipe>>

\* Redis runs with maxmemory-policy allkeys-lru: short of memory it deletes the list.
Evict ==
    /\ queue # <<>>
    /\ Dropped(queue)
    /\ queue' = <<>>
    /\ UNCHANGED <<status, api, worker, batch, flushing, stored, orphans>>

-----------------------------------------------------------------------------
(* EventProcessorWorker.run: one coroutine, so it pops nothing while a flush *)
(* is being awaited.                                                         *)

Pop ==
    /\ worker = "running"
    /\ flushing = <<>>
    /\ Len(batch) < BatchSize
    /\ queue # <<>>
    /\ queue' = Tail(queue)
    /\ batch' = Append(batch, Head(queue))
    /\ UNCHANGED <<status, api, worker, flushing, stored, dropped, orphans>>

\* blpop raises although Redis has taken the payload off the list: it is lost with the
\* answer.  One that raises before takes nothing: the loop sleeps and tries again, without
\* the test for a flush, which therefore waits for Redis (see Fairness).
PopFails ==
    /\ worker = "running"
    /\ flushing = <<>>
    /\ Len(batch) < BatchSize
    /\ queue # <<>>
    /\ queue' = Tail(queue)
    /\ Dropped(<<Head(queue)>>)
    /\ UNCHANGED <<status, api, worker, batch, flushing, stored, orphans>>

\* Mutant: a batch is flushed when it is full, not after BATCH_TIMEOUT_SECONDS.
StartFlushWhenFull ==
    /\ worker \in {"running", "draining"}
    /\ flushing = <<>>
    /\ Len(batch) = BatchSize
    /\ flushing' = batch
    /\ batch' = <<>>
    /\ UNCHANGED <<status, api, queue, worker, stored, dropped, orphans>>

\* Mutant: the batch is not reset before the write.
StartFlushKeepsBatch ==
    /\ worker \in {"running", "draining"}
    /\ flushing = <<>>
    /\ batch # <<>>
    /\ flushing' = batch
    /\ UNCHANGED <<status, api, queue, worker, batch, stored, dropped, orphans>>

\* The batch is full, BATCH_TIMEOUT_SECONDS passed, or the worker is stopping.
StartFlush ==
    /\ worker \in {"running", "draining"}
    /\ flushing = <<>>
    /\ batch # <<>>
    /\ flushing' = batch
    /\ batch' = <<>>
    /\ UNCHANGED <<status, api, queue, worker, stored, dropped, orphans>>

\* write_to_clickhouse: no payload carries an outcome_status, so each row gets
\* the default.
Rows(payloads) == {[call |-> c, outcome_status |-> "pending"] : c \in ToSet(payloads)}

FlushWritten ==
    /\ flushing # <<>>
    /\ stored' = stored \union Rows(flushing)
    /\ flushing' = <<>>
    /\ UNCHANGED <<status, api, queue, worker, batch, dropped, orphans>>

\* The write raises; the batch is not put back.
FlushFails ==
    /\ flushing # <<>>
    /\ Dropped(flushing)
    /\ flushing' = <<>>
    /\ UNCHANGED <<status, api, queue, worker, batch, stored, orphans>>

\* The loop sees the flag that SIGTERM or SIGINT set: one last flush, then it ends.
SeeShutdown ==
    /\ worker = "running"
    /\ flushing = <<>>
    /\ worker' = "draining"
    /\ UNCHANGED <<status, api, queue, batch, flushing, stored, dropped, orphans>>

ShutdownComplete ==
    /\ worker = "draining"
    /\ batch = <<>> /\ flushing = <<>>
    /\ worker' = "down"
    /\ UNCHANGED <<status, api, queue, batch, flushing, stored, dropped, orphans>>

\* What was popped lives in the process only.
WorkerCrash ==
    /\ worker # "down"
    /\ worker' = "down"
    /\ Dropped(batch \o flushing)
    /\ batch' = <<>>
    /\ flushing' = <<>>
    /\ UNCHANGED <<status, api, queue, stored, orphans>>

WorkerStart ==
    /\ worker = "down"
    /\ worker' = "running"
    /\ UNCHANGED <<status, api, queue, batch, flushing, stored, dropped, orphans>>

-----------------------------------------------------------------------------
\* update_status: the verdict goes to the PostgreSQL row, and nowhere else.
ValidateOutcome(k) ==
    /\ Persisted(k)
    /\ \E verdict \in {"validated", "rejected"} : status' = [status EXCEPT ![k] = verdict]
    /\ UNCHANGED <<api, pipe, orphans>>

\* aggregate_outcomes: what billing charges for.
AggregateOutcomes == {e \in stored : e.outcome_status = "validated"}

-----------------------------------------------------------------------------
Init ==
    /\ status = [k \in Keys |-> "absent"]
    /\ holder = [k \in Keys |-> Nobody]
    /\ pc = [c \in Calls |-> "idle"]
    /\ queue = <<>>
    /\ worker = "running"
    /\ batch = <<>>
    /\ flushing = <<>>
    /\ stored = {}
    /\ dropped = {}
    /\ orphans = {}

CallStep(c) ==
    \/ Check(c)
    \/ Insert(c)
    \/ InsertConflict(c)
    \/ Push(c)
    \/ PushFails(c)
    \/ Commit(c)

WorkerStep ==
    \/ Pop
    \/ PopFails
    \/ StartFlush
    \/ FlushWritten
    \/ FlushFails
    \/ ShutdownComplete
    \/ WorkerStart

Next ==
    \/ \E c \in Calls : Post(c) \/ CallStep(c) \/ Lose(c)
    \/ WorkerStep
    \/ Evict
    \/ SeeShutdown
    \/ WorkerCrash
    \/ \E k \in Keys : ValidateOutcome(k)

Spec == Init /\ [][Next]_vars

\* The event loops run their coroutines, and the batch timeout ends every wait
\* for a full batch.  A worker that ends is started again (restart policy of the
\* container), and of infinitely many starts one lives until it pops: hence SF.
\* Redis is not down for ever: blpop then raises each time, and the loop neither pops
\* nor looks whether the batch has waited too long.
Fairness ==
    /\ \A c \in Calls : WF_vars(CallStep(c))
    /\ SF_vars(Pop)
    /\ WF_vars(StartFlush)
    /\ WF_vars(FlushWritten \/ FlushFails)
    /\ WF_vars(ShutdownComplete)
    /\ WF_vars(WorkerStart)

FairSpec == Spec /\ Fairness

-----------------------------------------------------------------------------
(* Properties *)

TypeOK ==
    /\ status \in [Keys -> {"absent", "unset", "validated", "rejected"}]
    /\ holder \in [Keys -> Calls \union {Nobody}]
    /\ pc \in [Calls -> Labels]
    /\ {queue, batch, flushing} \subseteq Seq(Calls)
    /\ Len(batch) <= BatchSize
    /\ worker \in {"running", "draining", "down"}
    /\ stored \subseteq [call : Calls, outcome_status : {"pending", "validated", "rejected"}]
    /\ {dropped, orphans} \subseteq SUBSET Calls

\* The idempotency key: two calls with one key, racing or retried, are not both
\* counted, unless one of them rolled back after its push.
CountedOnce ==
    \A e, f \in stored :
        e # f /\ KeyOf[e.call] = KeyOf[f.call] => {e.call, f.call} \intersect orphans # {}

\* A payload is at any time in exactly one place: the list, the batch, the write,
\* ClickHouse, or lost; no flush, failure, shutdown or restart copies one.
NothingCopied ==
    LET transit == queue \o batch \o flushing IN
    /\ IsInjective(transit)
    /\ ToSet(transit) \intersect dropped = {}
    /\ \A e \in stored : e.call \notin ToSet(transit) \union dropped

\* Whatever the order of pops, timeouts, shutdowns and crashes, a payload that
\* reached Redis is written to ClickHouse or given up, never kept waiting for a
\* batch that does not fill.
EveryPayloadEnds ==
    \A c \in Calls : c \in ToSet(queue) ~> c \in dropped \/ \E e \in stored : e.call = c

\* README: "Outcomes are validated before billing": a validated outcome in
\* ClickHouse is one that the billing agent finds, sooner or later.
ValidatedIsBilled ==
    \A k \in Keys :
        (/\ status[k] = "validated"
         /\ \E e \in stored : KeyOf[e.call] = k)
            ~> (status[k] = "rejected" \/ \E e \in AggregateOutcomes : KeyOf[e.call] = k)
=============================================================================
