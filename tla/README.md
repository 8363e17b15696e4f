# Verification of Rupiv.ai

TLA+ models of the billing platform in `src/`, their model-checking runs, and
TLAPS proofs about them. `PROJECT.json` lists the components, the runs, the
source lines of every definition (`map`), the hazards and the theorems; this file
explains them. Paths below are relative to `src/src/rupiv/`.

## 1. The system

An API (FastAPI, one process with many coroutines), a set of worker processes and
a set of LangGraph agents that run inside either. They share PostgreSQL, Redis and
ClickHouse and call Mollie, Stripe and Adyen. Four facts decide most of what can
go wrong:

* **A database session per call.** `db.get_db` yields a session and commits after the
  handler has returned, or rolls back if it raised. Nothing takes a row lock
  (`with_for_update` occurs nowhere) and PostgreSQL runs READ COMMITTED: what a handler read
  may have changed when it writes. Uniqueness is enforced only where there is a unique index
  (events.idempotency_key, credit_balances.customer_id, invoices.invoice_number,
  legal_entities(name, country), ...): invoices, contracts and revenue schedules have no key
  but their id.
* **Agents that leave `async for session in get_db()` with `return`** abandon the
  generator before its commit: those writes never reach the database.
* **Redis lists as queues.** Workers take messages with BLPOP: what was popped lives
  in the worker's memory. Redis evicts keys when it is short of memory
  (`allkeys-lru`).
* **Agent state in memory.** All graphs use a `MemorySaver`: a process that dies
  forgets where its graphs were, and nothing resumes them.

### Inventory

| component | state | operations | talks to | hard part | correct when |
|---|---|---|---|---|---|
| double-entry ledger (`billing/ledger.py`) | ledger_entries | create_transfer, settle_transaction, fail_transaction, balances | A2A agent | several SELECTs per balance; no guard on the old status | every transaction is a debit and a credit of one amount and status; postings never change |
| agent-to-agent settlement (`agents/a2a_agent.py`, `api/v1/a2a.py`, `billing/adyen_client.py`) | graph state per intent, ledger rows | validate, compliance, reserve, execute, settle | ledger, Adyen | concurrent intents of one buyer, lost answers, crashes, retries | money moves only for accepted transfers, and answers agree with the ledger |
| prepaid credits (`billing/credits.py`) | credit_balances, credit_transactions | purchase, consume, refund, adjust | API | read-modify-write without a lock, concurrent creation of the row | the balance is the sum of the transactions and never negative |
| event ingestion (`api/v1/events.py`, `billing/metering.py`, `workers/event_processor.py`) | events, Redis list, batch in memory, ClickHouse | create, push, pop, flush | Redis, ClickHouse | push before commit, batch lost with its process, racing keys | counted once per key; nothing waits for ever |
| outcome validation (`agents/outcome_agent.py`, `billing/aggregation.py`) | outcome_status in PostgreSQL and ClickHouse | load the rule, check its conditions, write the verdict, aggregate | events, pricing | two copies of one status, conditions read by two functions | what is validated is billed |
| payment collection (`workers/payment_worker.py`, `billing/payment.py`, `agents/dunning_agent.py`, `api/v1/webhooks.py`) | invoice status and payment ids, payments at the providers | poll, charge, webhook, dunning | Mollie, Stripe | timeouts, one commit per poll, webhooks early, late or out of order, dunning at the same time | charged once; paid only with a payment; written off only for cause; always concluded |
| billing cycle (`workers/invoice_worker.py`, `billing/engine.py`, `billing/invoicing.py`, `agents/billing_agent.py`, `api/v1/subscriptions.py`, `api/v1/onboarding.py`) | subscriptions, invoices | poll, invoice, advance the period, create, cancel, upgrade | events, pricing, VAT, payment | two polls of one period, one commit per poll, two upgrades | one invoice per subscription and period, none passed over |
| pricing (`billing/pricing.py`) | none | flat, usage, outcome with cap, tiered, credit | billing cycle | tier limits, rounding, zero, several rules of one metric | every event is charged its price once |
| policy engine (`policy/`) | policy_rules | evaluate, threshold | A2A, quotes, billing | priority, reject over allow, missing fields, types | a denied action does not happen |
| EU VAT (`tax/`, `workers/vat_worker.py`) | VAT-id cache | rate, reverse charge, OSS threshold, validate | VIES | two functions for one tax, the threshold | tax follows the two parties' countries and status |
| quotes and contracts (`quoting/`, `agents/quoting_agent.py`, `api/v1/quotes.py`) | quotes, contracts, subscriptions | build, recalculate, send, accept, reject, expire, renew | policy engine | accept racing accept, reject, expire or recalculate | one contract per accepted quote, on the terms accepted; one active contract |
| outbound webhooks (`webhooks/`, `workers/webhook_worker.py`) | endpoints with a failure count, deliveries, Redis list | dispatch, deliver with retries, trip the breaker | customers' servers | stale failure counts, row locks in any order, messages lost with the worker | the breaker opens for cause; every message is worked off |
| revenue recognition (`revenue_recognition/`, `agents/revenue_agent.py`, `workers/revenue_worker.py`, `api/v1/revenue.py`) | revenue schedules | identify, allocate, schedule, journal | subscriptions | rounding residuals, messages the worker cannot read, a graph whose nodes fail | what is recognised sums to the price; the queue is worked off |
| legal entities (`entities/`, `api/v1/entities.py`) | entity tree | create, patch, move, walk up and down | API | concurrent moves, unchecked patches | the tree is a tree, and walks end |
| pricing studio (`pricing_studio/`) | A/B tests | simulate, assign, evaluate | pricing | a second aggregation of the same events | a simulation of the plan one has changes nothing |
| payment routing (`billing/payment_routing.py`, `analytics/routing_optimizer.py`) | payment costs | route, recommend | fee schedules | caps, ties, fallback | the route is the cheapest possible |

Not modelled at all: alert and simulation workers, SDK batchers, API middleware,
analytics, the ERP export, compliance exports, transformations and PDF, CRUD handlers, clients,
dashboard, seeds and migrations, approvals, variable consideration. They read, format
or insert single rows, run outside the service, or have no caller; `PROJECT.json` gives
each one's reason.

How they interact: an event becomes a row, a payload in Redis and a row in ClickHouse; a
billing cycle aggregates the ClickHouse rows, prices them, adds VAT and writes an invoice;
the payment worker and dunning collect it, and provider webhooks correct it; a message per
invoice is to start revenue recognition. A quote becomes a subscription and a contract,
which the billing cycle serves. Agent-to-agent intents and prepaid credits are money of
their own, beside the invoices.

## 2. What is modelled

| module | what it is | run | TLAPS |
|---|---|---|---|
| `Ledger` | the ledger's rows and its three writers | `ledger` | `LedgerProofs` |
| `A2ASettlement` | settlement graph over an instance of `Ledger`, with Adyen as environment | `a2a_settlement` | `A2ASettlementProofs` |
| `AgentTransfers` | abstract: hold an amount, then move it once or never | target of `ImplementsTransfers` | `A2ASettlementProofs` |
| `CreditLedger` | one customer's balance under overlapping sessions | `credits` | `SessionProofs` |
| `EventPipeline` | from POST /v1/events to ClickHouse, and the outcome verdict | `events`, `events_outcomes` | `EventPipelineProofs` |
| `PaymentCollection` | worker, webhooks, dunning agent and providers over the same invoices | `payments` | `InvoiceProofs` |
| `BillingCycle` | invoice workers, subscription calls and the billing agent over subscriptions and invoices | `billing` | `BillingCycleProofs` |
| `QuoteToContract` | quotes, contracts and their sessions, and the quoting agent | `quotes` | `QuoteToContractProofs` |
| `WebhookDelivery` | queue, workers, row locks, circuit breaker | `webhooks` | `WorkerProofs` |
| `RevenueRecognition` | the endpoint that writes revenue schedules, and the worker and agent that are to | `revenue` | `WorkerProofs` |
| `EntityHierarchy` | the tree, its moves, patches and walks | `entities` | `SessionProofs` |
| `Policy` | conditions, priority and verdict | used by `QuoteToContract`, `BillingEngine` | `InvoiceProofs` |
| `Rounding`, `Pricing`, `Vat`, `BillingEngine` | a billing cycle as one calculation | `calculations` | `InvoiceProofs` |
| `PricingStudio`, `PaymentRouting`, `QuoteEstimates`, `OutcomeRules` | simulation and A/B test, provider choice, estimates of a quote, outcome conditions | `calculations` | `InvoiceProofs` |
| `RevenueSchedule` | the five steps of revenue recognition as functions | used by `RevenueRecognition` | `WorkerProofs` |
| `Calculations` | calls each of these functions with inputs of given sets | `calculations` | `InvoiceProofs` |

An `MC*` module gives each its small instance. Definitions whose comment begins
with "Mutant:" are faulty variants of the definition after them. They take no part
in a specification; each property is tested by the variant that breaks it.

Conventions. A definition has the name of the function it models, or says in its
comment which one it is. One action is what a process does between two points
where another can interfere: a statement and its commit, an HTTP call, a queue
operation. What a process holds between two such points (a value it read, a batch,
an uncommitted row) is a variable, and is lost in the crash actions. History
variables (`raced`, `stale`, `posted`, `dropped`, `orphans`, `refused`, `overlapped`,
`unchecked`) are read by properties and never by a guard.

Several properties hold *unless sessions overlapped*: the code takes no row lock, so two
sessions that read one row before either commits can both act on it. The properties name the
overlap exactly, as a history variable, and say what holds otherwise. They cannot catch the
overlap itself, which is what the code does; which behaviours the overlap does allow is
listed in section 5.

### Ledger

`entries` is the table, one record per row. `CreateTransfer` inserts both rows in
one commit; `SettleTransaction` and `FailTransaction` are one UPDATE each and, like
the code, have no guard on the status they replace. Balances are operators: their
SELECTs are separate statements, so modules that call them read step by step.

### A2ASettlement

`pc[i]` is the node that the graph of intent `i` runs next; a node that sets
`state["error"]` goes to END (`EndWithError`). `reserve_funds` is four actions: its
balance check is three SELECTs (`ReadCredits`, `ReadDebits`, `ReadPending`), and
`Reserve` inserts the pair in a later transaction. The transfer is
`SendTransfer`, `PspProcess` (external: any result code, at any time, also after the
client gave up) and `TransferAnswered` or `TransferRaised`. `Crash` loses the graph
at any point. Every request gets a new intent id, so an idempotency key changes
nothing in the model, as in the code. The compliance verdict is a free choice.

`ImplementsTransfers` maps the rows of an intent to a transfer of `AgentTransfers`
and `GetBalance` to its balances: reservations are holds, settlement is the payment,
and everything else, crashes included, is a stutter.

### CreditLedger

A call reads the row (`Select`), or inserts it and takes the lock of the unique key
(`InsertRow`; a second inserter waits, then fails: `InsertConflict`), computes the new
balance from what it read, flushes it (`Write`, which takes the row lock) and commits.
The balance is written as an absolute value, which is what makes updates get lost.

### EventPipeline

`create_event` checks the key, inserts (the flush waits for another uncommitted row
of the key), pushes the payload to Redis, and only then commits. The worker pops
into `batch`, moves it to `flushing`, and the write succeeds or gives the batch up.
Shutdown, crash, restart and Redis eviction can come at any point, and BLPOP can raise
after Redis has given the payload away (`PopFails`). The verdict on
an outcome is written to PostgreSQL; ClickHouse keeps the default.

### PaymentCollection

`worker` is the payment worker's session: a poll holds every open invoice it
selected, in the order of `created_at`, and commits once at the end; what it wrote
so far is in `written`, and those rows are locked. Each charge is answered, refused
(HTTP error, no key, unknown provider) or raises, in which case the payment may exist.
`Charged` is the provider's promise for an Idempotency-Key: a known key returns the
payment it has, whatever became of it. `hooks` are the webhook calls, delivered in
any order: `HookFinds` is the SELECT by the provider's id column, `HookCommits` the
commit; `HookIgnored` is every way to answer 200 without effect. `dunning[i]` is the
agent's run for an overdue invoice: it always charges with Mollie, does not commit
the id, and writes the invoice off after the last failed attempt.

### BillingCycle

Time is the number of period ends that have passed; period `p` of a subscription is
due when `p < now`. A poll of the invoice worker is a SELECT (`Scan`) and one commit
of everything the loop did (`CommitPoll`); per subscription the loop writes an invoice
and the next period, or skips a plan without rules, or logs an exception and goes on. The
next period is written as an absolute value from what the poll read, in an UPDATE by id,
so two workers can overlap.

`workers/invoice_worker.py` as committed cannot bill anything: it imports two names that
do not exist (23, 29), and its loop calls the aggregations without their client (108,
117), `calculate_line_items` without its period (210) and `generate_invoice` with
arguments it does not have (229), so every subscription of a plan with rules raises on every
poll and stays due. The constant `Billable` is the set of subscriptions for which these
calls return. As the file stands it is empty, and no invoice of a period is ever written.
The theorems hold for any `Billable`, the empty one included; the run takes a larger one,
which is the loop with every guard and write as it stands, once the calls fit what they
call. Which billable subscriptions raise in a poll is a free choice, so that nothing is
said about a due period being invoiced in the end.

`create_subscription`, `cancel_subscription` and `upgrade` are
one session each. Every node of the billing agent is a session it leaves with
`return`: it changes nothing here.

### QuoteToContract

A call reads its rows and decides (`SelectQuote`, `SelectStale`, `SelectContract`),
updates them, waiting for other updaters (`Flush`), and commits or rolls back. `Written`
and `ContractsAfter` are what it writes, computed from what it *read*. `overlapped`
records rows that had changed since. `CheckPolicies` puts the discount (a
text, as in the agent's state) and the term (a number) before the policies of `Policy`; a
comparison that raises, like a query that fails, ends the run with an error. The agent's
quote is lost with the session that `build_quote_node` returns from.

### WebhookDelivery

A worker pops a message and reads the endpoints in any order; `Post` is one attempt,
`Record` the end of `_deliver_to_endpoint` with its row lock and its flush, `Commit` the
commit of all rows of the message. `log` holds the committed delivery rows: per endpoint,
the sequence of what was delivered and what failed. `rows` are those of the message that a
worker is on, of which `flushed` have reached the database and keep their endpoint from
being deleted. `FlushFails` (an endpoint was deleted), `AbortDeadlock`
and `Fails` roll back, and the message is gone. `is_active` is only ever written by a
failure that reaches the threshold.

### RevenueRecognition and RevenueSchedule

The endpoint reads and writes in one session (`SelectSubscription`, `Commit`), for
whatever period the subscription is in. The worker takes a message from Redis (`Take`).
What it does with one depends on what the message holds (`Process`): no JSON, or an object
without an id, is logged; JSON that is no object raises outside every try block
(`workers/revenue_worker.py:65`) and ends the process; a subscription starts
the agent's graph. The graph never gets past its second node: `identify_obligations_node`
rebuilds each rule with `PricingRule.__new__`, and setting a mapped attribute of such an
instance raises (`agents/revenue_agent.py:159`), so the run ends with an error and without
rows, whatever the plan. `WorkerEnds` is a signal or a crash.

`RevenueSchedule` is the arithmetic: shares in parts of `PctScale`, the residual on the
last obligation, monthly amounts with the residual in the last month. A period ends in the
month it starts in or later (`MonthsAssumption`). The journal is called with entries only
by the nodes the agent never reaches and by the ERP export, which raises for every month
that has entries (`api/v1/erp.py:197`): neither is modelled.

### EntityHierarchy

`move_entity` walks down one SELECT at a time (`Descend`), refuses, or writes; PATCH
writes without a walk; `get_ancestors` climbs one SELECT at a time. `unchecked` is the
set of entities whose present parent was written without an undisturbed check.

### The calculations

`Pricing` computes line items from a plan's rules and the aggregated events;
`BillingEngine` puts aggregation, policies and tax around it as `run_billing_cycle`
does; `PricingStudio`, `QuoteEstimates` and `OutcomeRules` are the other places that
price, and `PaymentRouting` the choice of a provider. Money is a whole number of 0.0001
and is rounded with the mode the code names (`HalfUp`) or leaves out (`HalfEven`).

`Policy` takes a context of numbers and texts: equality of the two is false and order
raises, conditions are looked at in the order of the list and rules in that of their
priority, so whether an evaluation raises depends on what comes first (`ConditionsRaise`,
`EvaluateRaises`). The total of an invoice is passed as text: `PlaceOf` is its place in
alphabetical order. `OutcomeRules` reads the conditions of an outcome rule twice, as the
validation agent does (`CheckRules`) and as the pricing engine does (`Counted`). It says
nothing of what reaches the engine: the aggregation looks at ClickHouse, which no verdict
ever reaches (`EventPipeline`).

`Calculations` has one state per call: the arguments and the answer. Its properties
compare each answer with a second definition that is not the loop of the code: the
price of a tiered quantity event by event, the verdict of the policies as a set, the
tax of the other function, the cheapest of all providers, a quote built anew.

## 3. What is checked

| run | instance and bounds | what it shows |
|---|---|---|
| `ledger` | 3 accounts, 3 transactions, amounts 0..2, symmetric | every order of transfers, settlements and failures keeps `DoubleEntry` and `PostingsImmutable` |
| `a2a_settlement` | 2 intents, 4 agents (one without IBAN, one inactive), 7 payloads | accepted before settled, money held only for a cause, answers true and final, no overdraft without one of two races, refinement, every intent ends |
| `credits` | 3 sessions, 8 requests | never negative; the balance drifts only by a lost update; no call waits for ever |
| `events` | 3 calls, 2 of one key, batches of 2 | counted once per key unless a call rolled back after its push, never copied, always stored or given up |
| `events_outcomes` | 2 calls | a validated outcome is never found by the aggregation |
| `payments` | 2 invoices (Stripe and overdue, Mollie), 2 dunning attempts, 1 lost session | charged once per provider, paid only with a traceable payment, written off only for cause, every open invoice concluded |
| `billing` | 3 subscriptions, 2 of them billable, 2 workers, 2 calls, 1 agent run, 2 period ends, 1 fault | a period is invoiced once and only after its end, none is passed over, an upgrade replaces |
| `quotes` | 2 quotes, 3 sessions of any kind, 1 agent run, symmetric | contracts follow accepted quotes, one runs per subscription, on the terms accepted |
| `webhooks` | 2 endpoints, 2 workers, 3 messages, threshold 2, 2 attempts, 1 fault | the breaker opens for cause; every message is worked off |
| `revenue` | 3 plans (one whose rounded shares exceed the whole, one without rules), 1 call, 2 messages of any kind, 2 periods, 1 fault | schedules add up to the price; the queue is worked off unless a message that is no object, or a signal, ended the worker |
| `entities` | 3 entities, 2 sessions, 3 calls | every cycle has a write on it that no check allowed; every call ends, on a cycle too |
| `calculations` | plans of at most 2 of 15 rules, 3 sets of events, 8 policy sets, 6 countries, 7 amounts, 8 first and 2 second outcome rules; one state per input | each calculation equals a second definition of it |

`events_outcomes` is named as a violation: it states what a docstring and the README of
the repository say, quoted in `findings`, and ends with a behaviour of the code that
contradicts it.

Why the bounds are enough. The hazards need two actors on one piece of state, and a
third that dies, is refused or commits in between; the instances have them. The
ledger needs a third transaction to separate "this one" from "all others". A batch
of two is the smallest that can be full, partly filled, or split between callers. Two
dunning attempts give a retry and an end of the schedule. Two period ends let a slow
poll overlap with two others and move a subscription back. Three sessions give an
acceptance, its rival and a renewal. Three messages and a threshold of two let a
success come between two failures. Three entities make the smallest cycle whose check
is not its own parent. Two rules are enough for the first rule of a metric to decide
how it is aggregated for a second. `MaxFaults`, `MaxAttempts`, `MaxPeriod`,
`MaxCalls` and `NMessages` are the only bounds in guards, and `TextWidth` bounds the totals
whose alphabetical place is computed (below 100,000 euros); the others are the finite sets
of calls, intents and sessions, each of which acts once.

`Ledger`, `A2ASettlement`, `CreditLedger`, `EventPipeline`, `PaymentCollection`,
`BillingCycle`, `QuoteToContract`, `EntityHierarchy` and `WebhookDelivery` have a type
invariant (`TypeOK`, `CreditTypeOK`, `WebhookTypeOK`). It is proved for every value of the
constants (section 4), so no run spends a property on it. `RevenueRecognition` has none: its
invariant types the calls.

Deadlock is not checked where every call may have ended (`a2a_settlement`, `credits`,
`payments`, `billing`, `quotes`, `webhooks`, `revenue`, `entities`, `calculations`): the
systems then really stop, as do the bounded environments.

### Fairness

* `A2ASettlement`, `CreditLedger`: weak fairness per request. The event loop runs ready
  coroutines, the HTTP client has a timeout, PostgreSQL serves waiting sessions.
  Arrivals, crashes and Adyen are not fair.
* `EventPipeline`: weak fairness of the worker's steps and of its restart (the
  container's restart policy). `Pop` has strong fairness: of infinitely many restarts,
  one lives long enough to pop. That Redis is not down for ever is part of it: a BLPOP that
  raises skips the test for a flush. Crash, shutdown, eviction and `PopFails` are not fair.
* `PaymentCollection`: weak fairness of the worker's loop, whose actions are never
  enabled together, and strong fairness of a provider's answer per invoice: asked
  infinitely often, it answers at some time. Webhooks, customers and dunning are
  not fair. With unboundedly many lost sessions nothing need ever commit, hence
  `MaxFaults`.
* `WebhookDelivery`: weak fairness of the worker's loop, which catches every exception
  of a message `dispatch_event` can push and goes on; the steps that end a wait for a row
  lock are PostgreSQL's. Dispatch, deletion and faults are not fair.
* `RevenueRecognition`: weak fairness of the loop of a worker that runs. That somebody
  starts it again is not assumed: no deployment file does. Pushes and faults are not fair.
* `EntityHierarchy`: weak fairness of each session's next step. Lost connections are
  not fair.
* `BillingCycle`, `QuoteToContract` and `Calculations` state safety only.

## 4. What is proved

For every value of the constants, with the named assumptions of each module. Hardly any
property is inductive as the runs check it; each proofs module begins with the invariant
`IInv` that is, in named parts, and shows that it holds initially, that each action
preserves it, and that it implies the properties. TLC found no state of the instances above
that violates an `IInv` or `MoneyInv`. The model bounds (`MaxFaults`, `MaxPeriod`,
`MaxCalls`, ...) are any natural numbers.

* **LedgerProofs.** `DoubleEntry` is inductive together with the type of the rows: a new
  pair brings both counterparts, and an UPDATE by transaction id moves both
  (`LedgerDoubleEntry`). `LedgerPostingsImmutable` follows action by action. The lemmas on
  sums serve the next module: a balance is a fold over a set of rows, and what is needed of
  it (it exists, the order of the rows does not matter, a row adds its amount) is shown by
  looking at a set of least cardinality that would be an exception (`LeastSet`).
  `CreateSums` and `SettleSums` say what each operation does to every sum.
* **A2ASettlementProofs.** Whether an answer agrees with the ledger depends on how the graph
  got there. `IInv` adds, per intent, what its position says about the request, the provider
  and the error flag (`Progress`), and that its rows are its request's, settled exactly when
  its graph settled them (`RowsFollow`). From it: `ReservationsHaveACause` (money stays held
  only by a graph on its way to settle, by one that died there, or by one that failed),
  `SettlementIsAccepted`, `AnswersAreTrue`, `AnswersAreFinal`. `SettlementIsAccepted`
  assumes that Adyen answers only with the three codes the docstrings name: any other code
  but "Refused" settles the ledger. `MoneyInv` bounds what a graph has read between its
  SELECTs by what the ledger holds now (`Bounds`): settled credits never shrink, and the
  other sums move the wrong way only through a race. It gives `TypeCorrect` and
  `OverdraftsNeedARace`. `IntentsAreTransfers` is the refinement: `Reserve` is `Hold`,
  `Settle` is `Pay`, every other step leaves the mapped state alone; the reading of holds
  and balances off the rows is `CreateSums` and `SettleSums` again. Opening balances are
  those of finitely many accounts (`FundedAssumption`).
* **EventPipelineProofs.** A payload is in one of queue, batch, flush, ClickHouse or the
  dropped, and once (`InOnePlace`); what a call has pushed says how far the call is
  (`CallsInOrder`): before its commit it holds its key, after it the key is persisted, and a
  call that is lost leaves an orphan. From it `EventsAreCountedOnce` and
  `PayloadsAreNotCopied`, for any number of calls and keys and any batch size.
* **InvoiceProofs: collecting.** The parts of `IInv` are about what is under way: what the
  worker's session has written and not committed (`WrittenAsAnswered`), webhook calls that
  have found their row (`HooksAreTold`), dunning between its last attempt and its commit
  (`DunningInOrder`, `WrittenOffByDunning`), and the ids in the rows (`RowsHoldTheirIds`,
  `PaidRowsHold`). `NoDoubleCharge` rests on the key being the invoice's id
  (`KeysAreInvoices`), `PaidInvoicesAreTraceable` on nothing ever erasing an id,
  `WriteOffsHaveACause` on all of them. `NoPaymentAssumption`: no payment's id is null.
* **InvoiceProofs: calculating.** One theorem per property of `Calculations`. There is no
  state to carry: what is proved is about the functions, for lists of any length and numbers
  of any size. Their loops are folds over sequences, which the library defines by a choice;
  `FoldsExist` builds the function that is chosen, one index at a time, and what holds after
  each round is shown by a least round that would be an exception (`LeastNat`).
  * `EventsArePriced`: a total is the last of the sums of its beginnings (`TotalsAddUp`), and
    with ascending limits each round of the graduated loop takes the events of its tier and
    no others (`UsesUp`, from which `UsedUp` and `GraduatedByEvent`). `ChargedIfMetered` says
    which events the aggregation leaves for a rule.
  * `ConditionsAreReadAlike`: the agent's verdict is the truth of the conditions
    (`CheckedIsMet`), and the pricing engine counts an outcome exactly when its names and
    values match (`CountedWhenMatched`).
  * `SimulationsAgree`: a rule written to the API is read back as it was
    (`RuleIsReadBack`), amounts depend on how many events are charged and not on which
    (`AmountOfCharged`), and an arm of `k` customers has `k` times the amount of one
    (`ArmIsMultiple`).
  * `PoliciesAlwaysDecide`: sorting by priority visits every rule once, in order
    (`OrderIsRight`: the ranks are a bijection); after `k` rounds the loop holds the first
    reject, or else the first match (`TheFirstIsFound`). Whether that reject comes before
    every rule that raises is a matter of the order alone (`WhoComesFirst`), and with it
    `InvoiceIsDecided` says when an invoice is made.
  * `RoutesAreAlwaysCheapest`: the loop over three providers is unrolled
    (`CheapestOfThree`); a recommendation, made from an average, is the route of a payment of
    that amount, because rounding does not depend on how a fraction is reduced
    (`HalfEvenReduces`).
  * `TaxesAlwaysAgree` and `RecalculatingIsRebuilding` are case by case, the latter line by
    line of a quote (`RequotedIsEstimated`).

  The assumptions say what the inputs are. `PlanAssumption`: a plan is a list of rules whose
  prices are any integers and whose limits and caps count events. `EventAssumption`: events
  are finitely many, and a metric of a plan has some count of them, if only none.
  `OutcomeAssumption`: the rules are outcome rules, an exact condition names its key, and a
  cap is not zero: otherwise nothing is counted, whatever the conditions.
  `PolicyAssumption`, `QuoteAssumption`, `RoutingAssumption`, `SalesAssumption` and
  `TestAssumption`: priorities, quantities and amounts are numbers, a group has payments, the
  sales of a seller are known or not, the customers of a test are finitely many.
* **BillingCycleProofs.** A poll commits what it read, possibly after others have. So `IInv`
  carries, for each period a poll has read, that it has ended and that all before it are
  settled (`PollsReadPeriods`), and that nothing refers to a row that is yet to be inserted
  (`NewRows`, `AbsentIsUntouched`). From it `PeriodsAreInvoicedOnce`, `PeriodsAreNotLost`
  and `UpgradesReplace`, for any number of workers, calls and periods and any set of
  billable subscriptions. There are finitely many subscriptions and calls
  (`FiniteAssumption`): active ones are counted.
* **QuoteToContractProofs.** A call writes what it decided from the rows as it read them.
  `Holds` says what it read; a call that commits either finds its rows as it had read them,
  and its guard still holds, or they are in `overlapped`. `LastIsActive` is what makes the
  term of a renewal a new one. From it `QuotesMatchContracts`, `OneContractRuns` and
  `TermsAreAgreed`. Rows of different tables have different ids (`RowsAssumption`).
* **SessionProofs.** The tree of entities and the credit balance: sessions that read rows
  without a lock and write them later. A cycle is a set of entities whose parents are in the
  set (`IsLoop`), which needs no induction along a path; the last step of the proof shows
  that the entities on a way up that comes back, as `CyclesHaveACause` counts it, are one.
  The set a session has visited is closed under children but for those still queued
  (`ChildrenAreSeen`), as long as nobody disturbed it: when the queue is empty, the rest of
  a loop that the move would close was a loop before. `TreeAssumption`: finitely many
  entities, which start as a tree. For the credits, `CreditIInv` says what a session holds
  between its read and its commit (`SessionHolds`), and that a row nobody committed is worth
  nothing (`NoRowIsEmpty`). `BalanceNeverNegative` holds although updates get lost, because
  every write is an absolute value computed from a checked read; `OnlyLostUpdatesDrift` says
  that a lost update is the only way for balance and transactions to disagree.
* **WorkerProofs.** The workers that take messages off a Redis list. *Webhooks*:
  `BreakerTripsForCause` looks at committed rows, but a count is read when a message is
  taken and written when its posts are over. `WebhookIInv` follows it: what a worker will
  write comes from what it read and what became of its post (`InOrder`); every count, read
  or stored, is covered by failed deliveries on record (`ReadsAreCounted`,
  `CountsAreCovered`), and a stored one is of the last deliveries unless the endpoint is in
  `overlapped` (`CountsAreLast`). *Revenue*: the invariant says of every set of rows that it
  is `Generated` for its subscription and period. `PriceIsRecognised` then is about sums.
  The laws of `SumOf` come first: an element can be taken out of a sum (`SumTake`), a sum
  can be split (`SumSplit`), renamed (`SumRenamed`) and nested (`SumNested`); each is shown
  on a set of least cardinality that would be an exception. With them, shares plus residual
  are the price (`AllocateSharesOut`), the months of a schedule are its total
  (`RecognizedIsAll`), and what is deferred is what later months recognise
  (`SchedulesAreComplete`, `RowsAreRight`). Rates, rounding and the scale of the shares do
  not matter: `HalfUp` has only to return an integer.

Only model-checked: the liveness properties (`EveryIntentEnds`,
`EveryRequestEnds`, `EveryPayloadEnds`, `EveryOpenInvoiceConcludes`,
`MessagesAreTaken`, `MessagesAreWorkedOff`, `EveryCallEnds`) with the fairness they need,
which the prover cannot treat. Every invariant and action property that a passing run checks
is stated by a theorem.

## 5. Not modelled, simplified, and what the models made visible

Simplifications.

* Currencies, descriptions, timestamps and formatting. Amounts are integers. In the
  ledger and credit models, numbers have no width: the columns are NUMERIC(19,4).
* `billing/dunning.py`'s `run_dunning` has no caller in the sources; its counter, an
  attribute of the loaded object, does not survive a session.
* The payment providers keep an idempotency key for ever in the model.
* The percentage of a threshold, the operator `contains` of a policy condition, and floats
  of the pricing studio's percentages are left out.
* Components marked `not_modelled` in `PROJECT.json`, with the reason.

The models describe code as it runs, with one exception: `BillingCycle` is also checked with
the invoice worker's calls put right (section 2). The deployment files start only the event
processor.
`run_billing_cycle`, `route_payment`, `calculate_vat_detailed`, `recalculate_quote`,
`dispatch_event`, `move_entity` and `validate_outcome` have no caller in the sources,
and nothing pushes to `rupiv:revenue:generate`: their callers are free choices.

What the code does and a reader might not expect. The properties are stated around
these behaviours; all but minor units, the clamped period end, the ERP export and VIES are
in a model.

* *Agent-to-agent.* Two intents of one buyer can pass the same balance check. A refused
  transfer leaves its reservation pending, although `settle` documents that it is reversed
  (a2a_agent.py:328): the error edge (430) skips `settle`. A retry with
  the same idempotency key pays again: nothing reads the key. Adyen is asked for
  truncated minor units.
* *Credits.* Two overlapping consumptions can spend more than was bought.
* *Events.* A payload can be stored in ClickHouse before, or without, its row. POST
  /v1/events never sets `subscription_id`, so the outcome agent finds no rule and
  validates every such outcome. A failed load rejects a billable outcome.
* *Outcomes.* Suffixed conditions (`resolution_time_lt`, `csat_score_gte`, src/README.md:77)
  are understood by `agents/outcome_agent.py` only; `billing/pricing.py` compares the whole
  key and charges nothing for them, validated or not. A second outcome rule of a metric
  charges only what the first rule's conditions let through. A property that is no number
  makes a suffixed condition raise.
* *Payments.* `paid` is written when a payment is created, not when it is collected.
  Across providers there is no guard: an invoice whose Stripe charge timed out and which
  dunning then charges with Mollie has two payments.
* *Billing cycle.* As written, no poll bills anything (section 2). With the calls put right,
  two polls of one period invoice it twice, and a slow poll can move a subscription back. A
  plan with a zero price raises and is never billed.
  The first rule of a metric decides how it is aggregated. Tiers without an unlimited
  last one leave the excess free, and nothing orders them. An outcome line's quantity is
  derived from its rounded amount. The end of a period on the 31st is clamped and drifts.
* *Policies.* A billing cycle passes the invoice total as text, so a rule with a numeric
  threshold on `invoice.total` (src/README.md:118), one that would only approve included,
  raises and stops the invoice, unless a condition listed before it is false or an earlier
  rule rejects. The quoting agent's discount is text as well: such a rule ends its run.
* *VAT.* The tax of an invoice ignores the OSS threshold that the detailed function
  applies. The VAT worker's retries never see VIES down time: the look-up returns unknown
  instead of raising.
* *Quotes.* Two acceptances of one quote make two contracts; an accepted quote can
  become expired. The quoting agent's quote is rolled back while its id is reported.
  Recalculation forgets the base of a hybrid rule (which quote_builder.py:95 adds) and
  multiplies a flat fee.
* *Webhooks.* Posts happen before the commit, so a rollback forgets deliveries that were
  made. Deleting one endpoint can lose the log of the whole message. A success never
  switches an endpoint on again.
* *Revenue.* Schedules are not unique: two requests write them twice. `recognized_amount`
  is full from the start. Rounded shares can make the last one negative. The agent never
  writes a schedule, for any plan, and one message that is JSON but no object ends the
  worker. The ERP export of a month with revenue raises; only empty months are exported.
* *Entities.* An entity can be moved under itself; PATCH writes `parent_id` unchecked.
* *Pricing studio.* A simulation counts outcomes that were not validated; an A/B test of
  a plan with a base fee, a tier or a cap favours the smaller arm.
* *Routing.* A method nobody supports falls back to Mollie's card although Adyen's is
  cheaper; the second comparison in `route_payment` never changes the route.
* *SDK batchers.* Both post to `/v1/events/batch` (src/src/rupiv/sdk/python/rupiv/events.py:113,
  src/src/rupiv/sdk/node/src/batcher.ts:133); no router of the API in this repository defines
  that path, so there is no server side to compose them with.

## 6. Plan

Done: the core (ledger, settlement, credits, events, payments), the billing cycle, quotes,
webhooks, revenue, entities and the calculations; then the theorems: type correctness and
every safety property of the stateful modules, the refinement of `AgentTransfers` among them,
and every property of the calculations.

Left to prove: nothing that a run checks and the prover can treat.

Left to model: the SDK batchers (close against add and timer), the alert worker's
check-then-insert, and the rate limiter's two counters.
