------------------------- MODULE RevenueRecognition -------------------------
(***************************************************************************)
(* Revenue schedules of subscriptions, and the two programs that are to    *)
(* write them:                                                             *)
(*                                                                         *)
(*   generate_schedule_endpoint (api/v1/revenue.py): one session           *)
(*   RevenueWorker (workers/revenue_worker.py): takes a message from a     *)
(*     Redis list and runs revenue_graph (agents/revenue_agent.py), whose  *)
(*     second node raises for every plan: its other nodes do nothing       *)
(*                                                                         *)
(* Rows have no key but their id.                                          *)
(***************************************************************************)
EXTENDS RevenueSchedule, FiniteSets, SequencesExt

CONSTANTS
    Subs,
    Rules,      \* [Subs -> the pricing rules of its plan]
    LastMonth,  \* [0..MaxPeriod -> the last calendar month of a period]
    Requests,   \* API calls, each made once
    Messages,   \* messages for the worker, each pushed once
    Malformed,  \* what messages may hold instead of a subscription
    MaxPeriod,  \* bound: periods
    MaxFaults   \* bound: nodes that raise, lost commits, ends of the worker's process

ASSUME RulesAssumption == Rules \in [Subs -> Seq([model : STRING, flat : Int, unit : Int])]
ASSUME MonthsAssumption ==
    /\ LastMonth \in [0..MaxPeriod -> Nat]
    /\ \A p \in 0..MaxPeriod : LastMonth[p] >= p
ASSUME BoundAssumption == MaxPeriod \in Nat /\ MaxFaults \in Nat

\* No JSON or an object without an id, and JSON that is no object.
ASSUME MalformedAssumption ==
    Malformed \subseteq {"unreadable", "no object"} /\ Malformed \intersect Subs = {}

VARIABLES
    schedules,  \* committed sets of rows: [by, sub, period, rows]
    queue,      \* rupiv:revenue:generate
    pushed,     \* history: messages pushed, with their subscription
    graph,      \* the worker: idle, a run of revenue_graph, or ended
    call,       \* each API call: [at, sub, period]
    faults

vars == <<schedules, queue, pushed, graph, call, faults>>

Months(p) == [first |-> p, last |-> LastMonth[p]]
NoRun == [at |-> "idle"]
Run(m, s) == [at |-> "load_subscription", by |-> m, sub |-> s]
Ended(cause) == [at |-> "ended", by |-> cause]

-----------------------------------------------------------------------------
(* The endpoint *)

\* It reads the period the subscription is in.
SelectSubscription(r, s) ==
    /\ call[r].at = "idle"
    /\ \E p \in 0..MaxPeriod :
          call' = [call EXCEPT ![r] =
              [at |-> IF Rules[s] = <<>> THEN "refused" ELSE "commit", sub |-> s, period |-> p]]
    /\ UNCHANGED <<schedules, queue, pushed, graph, faults>>

\* What generate_schedule_endpoint writes for the period it read.
Generated(s, p) ==
    LET obligations == Obligations(Rules[s])
        allocated == Allocate(TotalPrice(obligations), obligations)
    IN [i \in DOMAIN obligations |->
          Row(obligations[i], allocated[i],
              Schedule(obligations[i], allocated[i], Months(p).first, Months(p).last))]

Commit(r) ==
    /\ call[r].at = "commit"
    /\ schedules' = schedules \union
          {[by |-> r, sub |-> call[r].sub, period |-> call[r].period,
            rows |-> Generated(call[r].sub, call[r].period)]}
    /\ call' = [call EXCEPT ![r].at = "ended"]
    /\ UNCHANGED <<queue, pushed, graph, faults>>

Rollback(r) ==
    /\ call[r].at = "commit"
    /\ faults < MaxFaults
    /\ faults' = faults + 1
    /\ call' = [call EXCEPT ![r].at = "ended"]
    /\ UNCHANGED <<schedules, queue, pushed, graph>>

-----------------------------------------------------------------------------
(* The worker and the agent *)

\* Invoice creation is to push a message.
Push(m, s) ==
    /\ m \notin DOMAIN pushed
    /\ pushed' = [n \in DOMAIN pushed \union {m} |-> IF n = m THEN s ELSE pushed[n]]
    /\ queue' = Append(queue, m)
    /\ UNCHANGED <<schedules, graph, call, faults>>

Worker(state) ==
    /\ graph' = state
    /\ UNCHANGED <<schedules, pushed, call>>

\* Mutant: a message that is no JSON ends the worker, too.
ProcessStrictly(m) == IF pushed[m] \in Subs THEN Run(m, pushed[m]) ELSE Ended(m)

\* _process_message: what cannot be read is logged, but payload.get of JSON that is no
\* object raises outside its try blocks, through run() and out of the process.
Process(m) ==
    CASE pushed[m] \in Subs -> Run(m, pushed[m])
      [] pushed[m] = "unreadable" -> NoRun
      [] pushed[m] = "no object" -> Ended(m)

\* BLPOP removes the message.
Take ==
    /\ graph.at = "idle"
    /\ queue # <<>>
    /\ queue' = Tail(queue)
    /\ Worker(Process(Head(queue)))
    /\ UNCHANGED faults

\* A plan without rules is an error, after which the nodes do nothing.
LoadSubscription ==
    /\ graph.at = "load_subscription"
    /\ Worker(IF Rules[graph.sub] = <<>> THEN NoRun
              ELSE [graph EXCEPT !.at = "identify_obligations"])
    /\ UNCHANGED <<queue, faults>>

\* The rules are rebuilt with __new__, without the state SQLAlchemy keeps in an instance:
\* setting the first attribute of the first rule raises, and the error ends the run.
IdentifyObligations ==
    /\ graph.at = "identify_obligations"
    /\ Worker(NoRun)
    /\ UNCHANGED <<queue, faults>>

\* load_subscription raises, which is an error as well.
RunFails ==
    /\ graph.at = "load_subscription"
    /\ faults < MaxFaults
    /\ faults' = faults + 1
    /\ Worker(NoRun)
    /\ UNCHANGED queue

\* A signal or a crash, with the message of the run gone.
WorkerEnds ==
    /\ graph.at # "ended"
    /\ faults < MaxFaults
    /\ faults' = faults + 1
    /\ Worker(Ended("signal"))
    /\ UNCHANGED queue

\* Somebody starts the worker again: neither docker-compose.yml nor render.yaml does.
WorkerStarts ==
    /\ graph.at = "ended"
    /\ Worker(NoRun)
    /\ UNCHANGED <<queue, faults>>

WorkerStep ==
    \/ Take
    \/ LoadSubscription
    \/ IdentifyObligations

-----------------------------------------------------------------------------
Init ==
    /\ schedules = {}
    /\ queue = <<>>
    /\ pushed = <<>>
    /\ graph = NoRun
    /\ call = [r \in Requests |-> [at |-> "idle"]]
    /\ faults = 0

Next ==
    \/ \E r \in Requests :
          \/ \E s \in Subs : SelectSubscription(r, s)
          \/ Commit(r)
          \/ Rollback(r)
    \/ \E m \in Messages, s \in Subs \union Malformed : Push(m, s)
    \/ WorkerStep
    \/ RunFails
    \/ WorkerEnds
    \/ WorkerStarts

Spec == Init /\ [][Next]_vars

\* The loop of a worker that runs goes on.
FairSpec == Spec /\ WF_vars(WorkerStep)

-----------------------------------------------------------------------------
(* Properties *)

\* The sum of a set of entries.
SumEntries(entries) == SumOf([e \in entries |-> e.amount])

\* One generation shares out the price of the whole plan, and every schedule of it
\* recognises just what it was allocated, in months of its period.
SharesOut(g) ==
    LET obligations == Obligations(Rules[g.sub]) IN
    /\ Len(g.rows) = Len(obligations)
    /\ SumOf([i \in DOMAIN g.rows |-> g.rows[i].total]) = TotalPrice(obligations)
    /\ \A i \in DOMAIN g.rows :
          LET row == g.rows[i]
              recognized == {e \in row.entries : e.type = "recognized"}
          IN  /\ row.total = SumEntries(recognized)
              /\ \A e \in row.entries :
                    /\ e.period \in Months(g.period).first..Months(g.period).last
                    /\ e.type = "deferred" =>
                          e.amount = SumEntries({x \in recognized : x.period > e.period})

\* Each generation is complete: it shares out the price of the whole plan, every
\* schedule recognises just what it was allocated, within the months of its period, and
\* what is deferred in a month is what later months recognise, also where rounded shares
\* exceed the whole and the last one is negative.
PriceIsRecognised == \A g \in schedules : SharesOut(g)

Taken(m) == m \notin Range(queue) /\ (graph.at \in {"idle", "ended"} \/ graph.by # m)

\* The worker stands still because of a signal or a crash, or of a message that is JSON
\* but no object.
EndedForCause ==
    /\ graph.at = "ended"
    /\ graph.by # "signal" => pushed[graph.by] = "no object"

\* The worker works its queue off whatever the other messages are and whatever becomes
\* of their runs, but for the one kind of message that ends it.
MessagesAreTaken ==
    \A m \in Messages : m \in DOMAIN pushed ~> (Taken(m) \/ EndedForCause)
=============================================================================
