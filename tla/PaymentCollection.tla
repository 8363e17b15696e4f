------------------------- MODULE PaymentCollection -------------------------
(***************************************************************************)
(* Collecting open invoices.                                               *)
(*                                                                         *)
(*   PaymentWorker (workers/payment_worker.py): charges the open invoices  *)
(*     of a poll in one database session, committed after the last one     *)
(*   charge_invoice_routed (billing/payment.py): one POST to the provider  *)
(*     of the customer's default payment method                            *)
(*   dunning_graph (agents/dunning_agent.py): charges an overdue invoice   *)
(*     with Mollie, and writes it off after the last attempt               *)
(*   process_webhook, process_stripe_webhook (billing/payment.py): what    *)
(*     the providers tell of a payment, written to its invoice             *)
(*                                                                         *)
(* The providers are external.  They keep one payment per idempotency key, *)
(* so that a payment is named by its provider and its key.                 *)
(***************************************************************************)
EXTENDS Naturals, FiniteSets

CONSTANTS
    Invoices,
    MethodOf,     \* provider of the customer's default payment method, or "none"
    CreatedAt,    \* the order of a poll
    Overdue,      \* invoices whose due_date has passed
    MaxAttempts,  \* DunningSchedule.max_attempts
    MaxFaults,    \* bound: worker sessions that crash or fail to commit
    NoInvoice,
    NoPayment

Providers == {"mollie", "stripe"}

ASSUME MethodOfAssumption == MethodOf \in [Invoices -> Providers \union {"none"}]
ASSUME CreatedAtAssumption == CreatedAt \in [Invoices -> Nat]
ASSUME OverdueAssumption == Overdue \subseteq Invoices
ASSUME BoundsAssumption == MaxAttempts \in Nat \ {0} /\ MaxFaults \in Nat
ASSUME NoInvoiceAssumption == NoInvoice \notin Invoices
ASSUME NoPaymentAssumption ==
    \A provider \in Providers, i \in Invoices : NoPayment # [provider |-> provider, key |-> i]

VARIABLES
    status,     \* committed columns of each invoice: status,
    mollieId,   \*   mollie_payment_id,
    stripeId,   \*   stripe_payment_intent_id
    payments,   \* at the providers: [provider, key, invoice, status]
    worker,     \* the payment worker's session: [at, todo, invoice]
    written,    \* what the session wrote to each invoice, not yet committed
    hooks,      \* webhook calls on their way or being handled
    dunning,    \* the dunning run of each invoice: [at, attempt, seen]
    refused,    \* history: invoices whose charge or whose payment a provider refused
    faults      \* worker sessions lost so far

columns == <<status, mollieId, stripeId>>
session == <<worker, written, faults>>
vars == <<columns, payments, session, hooks, dunning, refused>>

InvoiceStatus == {"open", "paid", "uncollectible"}
Unwritten == [status |-> "unwritten", id |-> NoPayment]

IdOf(p) == [provider |-> p.provider, key |-> p.key]
PaymentIds == {IdOf(p) : p \in payments}

-----------------------------------------------------------------------------
(* The providers: external. *)

\* Mutant: every dunning attempt is charged under a key of its own.
IdempotencyKeyPerAttempt(i) == <<i, dunning[i].attempt>>

\* idempotency_key = str(invoice.id)
IdempotencyKey(i) == i

ChargeId(provider, i) == [provider |-> provider, key |-> IdempotencyKey(i)]

\* The POST with an Idempotency-Key: a known key answers with the payment it has.
Charged(provider, i) ==
    IF ChargeId(provider, i) \in PaymentIds THEN payments
    ELSE payments \union
           {[provider |-> provider, key |-> IdempotencyKey(i), invoice |-> i, status |-> "open"]}

\* A request that fails may have reached the provider.
MaybeCharged(provider, i) == payments' \in {payments, Charged(provider, i)}

\* The customer pays, or does not; a Stripe customer may try another card.  Each
\* change is told to the webhook.
PspConcludes(p, outcome) ==
    /\ \/ p.status = "open"
       \/ p.status = "failed" /\ p.provider = "stripe" /\ outcome = "paid"
    /\ payments' = (payments \ {p}) \union {[p EXCEPT !.status = outcome]}
    /\ hooks' = hooks \union
          {[id |-> IdOf(p), says |-> outcome, invoice |-> NoInvoice, seen |-> "open"]}
    /\ refused' = IF outcome = "failed" THEN refused \union {p.invoice} ELSE refused
    /\ UNCHANGED <<columns, session, dunning>>

-----------------------------------------------------------------------------
(* PaymentWorker *)

\* process_open_invoices selects; a payload of rupiv:payments:queue names one.
StartSession ==
    /\ worker.at = "idle"
    /\ LET open == {i \in Invoices : status[i] = "open"} IN
          /\ open # {}
          /\ \E batch \in {open} \union {{i} : i \in open} :
                worker' = [worker EXCEPT !.at = "next", !.todo = batch]
    /\ UNCHANGED <<columns, payments, written, faults, hooks, dunning, refused>>

Next1(i) == [worker EXCEPT !.at = "next", !.todo = @ \ {i}, !.invoice = NoInvoice]

\* process_invoice_payment, up to the call.  Without a default payment method, or
\* with two, it returns False.
ProcessInvoice(i) ==
    /\ worker.at = "next"
    /\ i \in worker.todo
    /\ \A j \in worker.todo : CreatedAt[i] <= CreatedAt[j]
    /\ worker' = IF MethodOf[i] = "none" THEN Next1(i)
                 ELSE [worker EXCEPT !.at = "charge", !.invoice = i]
    /\ UNCHANGED <<columns, payments, written, faults, hooks, dunning, refused>>

\* result.success: the payment exists.  The UPDATE locks the row until the commit.
ChargeAnswered(i) ==
    /\ worker.at = "charge" /\ worker.invoice = i
    /\ payments' = Charged(MethodOf[i], i)
    /\ written' = [written EXCEPT ![i] =
                       [status |-> "paid", id |-> ChargeId(MethodOf[i], i)]]
    /\ worker' = Next1(i)
    /\ UNCHANGED <<columns, faults, hooks, dunning, refused>>

\* Mutant: the result of a refused charge is written as well, with its empty id.
ChargeRefusedPaid(i) ==
    /\ worker.at = "charge" /\ worker.invoice = i
    /\ written' = [written EXCEPT ![i] = [status |-> "paid", id |-> NoPayment]]
    /\ refused' = refused \union {i}
    /\ worker' = Next1(i)
    /\ UNCHANGED <<columns, payments, faults, hooks, dunning>>

\* Mutant: the branch for a refused charge logs and writes nothing.
ChargeRefusedLogged(i) ==
    /\ worker.at = "charge" /\ worker.invoice = i
    /\ refused' = refused \union {i}
    /\ worker' = Next1(i)
    /\ UNCHANGED <<columns, payments, written, faults, hooks, dunning>>

\* An HTTP error, no API key, or a provider charge_invoice_routed does not know.
ChargeRefused(i) ==
    /\ worker.at = "charge" /\ worker.invoice = i
    /\ written' = [written EXCEPT ![i] = [status |-> "uncollectible", id |-> NoPayment]]
    /\ refused' = refused \union {i}
    /\ worker' = Next1(i)
    /\ UNCHANGED <<columns, payments, faults, hooks, dunning>>

\* Mutant: an exception is taken for a refusal.
ChargeRaisedWritesOff(i) ==
    /\ worker.at = "charge" /\ worker.invoice = i
    /\ MaybeCharged(MethodOf[i], i)
    /\ written' = [written EXCEPT ![i] = [status |-> "uncollectible", id |-> NoPayment]]
    /\ worker' = Next1(i)
    /\ UNCHANGED <<columns, faults, hooks, dunning, refused>>

\* A timeout or a broken connection: process_invoice_payment returns False.
ChargeRaised(i) ==
    /\ worker.at = "charge" /\ worker.invoice = i
    /\ MaybeCharged(MethodOf[i], i)
    /\ worker' = Next1(i)
    /\ UNCHANGED <<columns, written, faults, hooks, dunning, refused>>

\* async with session_factory(): committed or not, the session is closed.
EndSession ==
    /\ worker' = [at |-> "idle", todo |-> {}, invoice |-> NoInvoice]
    /\ written' = [i \in Invoices |-> Unwritten]

\* charge_invoice_stripe set stripe_payment_intent_id; the worker's UPDATE puts
\* the id in mollie_payment_id, whatever the provider.
CommitSession ==
    /\ worker.at = "next" /\ worker.todo = {}
    /\ status' = [i \in Invoices |->
           IF written[i] = Unwritten THEN status[i] ELSE written[i].status]
    /\ mollieId' = [i \in Invoices |->
           IF written[i].status = "paid" THEN written[i].id ELSE mollieId[i]]
    /\ stripeId' = [i \in Invoices |->
           IF written[i].status = "paid" /\ MethodOf[i] = "stripe"
           THEN written[i].id ELSE stripeId[i]]
    /\ EndSession
    /\ UNCHANGED <<payments, faults, hooks, dunning, refused>>

\* The process dies, or the COMMIT fails; the charges were made.
LoseSession ==
    /\ worker.at # "idle"
    /\ faults < MaxFaults
    /\ faults' = faults + 1
    /\ EndSession
    /\ \/ UNCHANGED payments
       \/ /\ worker.at = "charge"
          /\ payments' = Charged(MethodOf[worker.invoice], worker.invoice)
    /\ UNCHANGED <<columns, hooks, dunning, refused>>

-----------------------------------------------------------------------------
(* The webhooks *)

\* _MOLLIE_STATUS_TO_INVOICE (of a live status that is final) and
\* _STRIPE_EVENT_TO_INVOICE (of the status in the event).
NewStatus(h) == IF h.says = "paid" THEN "paid" ELSE "uncollectible"

Holders(id) ==
    {i \in Invoices : (IF id.provider = "mollie" THEN mollieId[i] ELSE stripeId[i]) = id}

\* A handler that dies answers nothing, and its provider calls again: the call is
\* only delayed.  The SELECT.  No invoice, or an error: logged, and 200 all the same.
HookFinds(h) ==
    /\ h.invoice = NoInvoice
    /\ \E i \in Holders(h.id) :
          hooks' = (hooks \ {h}) \union {[h EXCEPT !.invoice = i, !.seen = status[i]]}
    /\ UNCHANGED <<columns, payments, session, dunning, refused>>

HookIgnored(h) ==
    /\ hooks' = hooks \ {h}
    /\ UNCHANGED <<columns, payments, session, dunning, refused>>

\* The ORM writes the status only if it differs from the one it read.
HookCommits(h) ==
    /\ h.invoice # NoInvoice
    /\ written[h.invoice] = Unwritten
    /\ status' = [status EXCEPT ![h.invoice] =
                      IF h.seen = NewStatus(h) THEN @ ELSE NewStatus(h)]
    /\ hooks' = hooks \ {h}
    /\ UNCHANGED <<mollieId, stripeId, payments, session, dunning, refused>>

-----------------------------------------------------------------------------
(* The dunning agent.  Its caller passes the attempt_number of the last run.  *)

Dunning(i, at, attempt) ==
    dunning' = [dunning EXCEPT ![i] = [at |-> at, attempt |-> attempt, seen |-> "open"]]

\* get_invoices_for_dunning, load_invoice
DunningLoads(i) ==
    /\ i \in Overdue
    /\ dunning[i].at = "idle"
    /\ dunning[i].attempt < MaxAttempts
    /\ status[i] = "open"
    /\ Dunning(i, "attempt_payment", dunning[i].attempt)
    /\ UNCHANGED <<columns, payments, session, hooks, refused>>

\* attempt_payment: the id goes to an object whose session is never committed.
DunningCharged(i) ==
    /\ dunning[i].at = "attempt_payment"
    /\ payments' = Charged("mollie", i)
    /\ Dunning(i, "idle", dunning[i].attempt + 1)
    /\ UNCHANGED <<columns, session, hooks, refused>>

\* Refused, raised, or without an API key; then _route_after_evaluate.
DunningFails(i) ==
    /\ dunning[i].at = "attempt_payment"
    /\ MaybeCharged("mollie", i)
    /\ LET made == dunning[i].attempt + 1 IN
          Dunning(i, IF made >= MaxAttempts THEN "mark_uncollectible" ELSE "idle", made)
    /\ UNCHANGED <<columns, session, hooks, refused>>

DunningSelects(i) ==
    /\ dunning[i].at = "mark_uncollectible"
    /\ dunning' = [dunning EXCEPT ![i] =
           [at |-> "commit", attempt |-> @.attempt, seen |-> status[i]]]
    /\ UNCHANGED <<columns, payments, session, hooks, refused>>

DunningCommits(i) ==
    /\ dunning[i].at = "commit"
    /\ written[i] = Unwritten
    /\ status' = [status EXCEPT ![i] =
                      IF dunning[i].seen = "uncollectible" THEN @ ELSE "uncollectible"]
    /\ Dunning(i, "idle", dunning[i].attempt)
    /\ UNCHANGED <<mollieId, stripeId, payments, session, hooks, refused>>

\* The graph's state was in memory: the caller learns nothing of the attempt.
DunningCrashes(i) ==
    /\ dunning[i].at # "idle"
    /\ Dunning(i, "idle", IF dunning[i].at = "attempt_payment"
                         THEN dunning[i].attempt ELSE dunning[i].attempt - 1)
    /\ UNCHANGED <<columns, payments, session, hooks, refused>>

-----------------------------------------------------------------------------
Init ==
    /\ status = [i \in Invoices |-> "open"]
    /\ mollieId = [i \in Invoices |-> NoPayment]
    /\ stripeId = [i \in Invoices |-> NoPayment]
    /\ payments = {}
    /\ worker = [at |-> "idle", todo |-> {}, invoice |-> NoInvoice]
    /\ written = [i \in Invoices |-> Unwritten]
    /\ hooks = {}
    /\ dunning = [i \in Invoices |-> [at |-> "idle", attempt |-> 0, seen |-> "open"]]
    /\ refused = {}
    /\ faults = 0

WorkerStep(i) ==
    \/ ProcessInvoice(i)
    \/ ChargeAnswered(i)
    \/ ChargeRefused(i)
    \/ ChargeRaised(i)

WorkerLoop ==
    \/ StartSession
    \/ \E i \in Invoices : WorkerStep(i)
    \/ CommitSession

HookStep(h) ==
    \/ HookFinds(h)
    \/ HookIgnored(h)
    \/ HookCommits(h)

DunningStep(i) ==
    \/ DunningLoads(i)
    \/ DunningCharged(i)
    \/ DunningFails(i)
    \/ DunningSelects(i)
    \/ DunningCommits(i)
    \/ DunningCrashes(i)

Next ==
    \/ WorkerLoop
    \/ LoseSession
    \/ \E i \in Invoices : DunningStep(i)
    \/ \E h \in hooks : HookStep(h)
    \/ \E p \in payments, outcome \in {"paid", "failed"} : PspConcludes(p, outcome)

Spec == Init /\ [][Next]_vars

\* The worker's loop runs and is started again when it ends (MaxFaults times); a
\* provider that is asked again and again answers now and then.
Fairness ==
    /\ WF_vars(WorkerLoop)
    /\ \A i \in Invoices : SF_vars(ChargeAnswered(i) \/ ChargeRefused(i))

FairSpec == Spec /\ Fairness

-----------------------------------------------------------------------------
(* Properties *)

Id == [provider : Providers, key : Invoices]

TypeOK ==
    /\ status \in [Invoices -> InvoiceStatus]
    /\ {mollieId, stripeId} \subseteq [Invoices -> Id \union {NoPayment}]
    /\ payments \subseteq [provider : Providers, key : Invoices, invoice : Invoices,
                           status : {"open", "paid", "failed"}]
    /\ worker \in [at : {"idle", "next", "charge"}, todo : SUBSET Invoices,
                   invoice : Invoices \union {NoInvoice}]
    /\ written \in [Invoices -> [status : {"unwritten", "paid", "uncollectible"},
                                 id : Id \union {NoPayment}]]
    /\ hooks \subseteq [id : Id, says : {"paid", "failed"},
                        invoice : Invoices \union {NoInvoice}, seen : InvoiceStatus]
    /\ dunning \in [Invoices -> [at : {"idle", "attempt_payment", "mark_uncollectible", "commit"},
                                 attempt : 0..MaxAttempts, seen : InvoiceStatus]]
    /\ refused \subseteq Invoices
    /\ faults \in 0..MaxFaults

\* Whatever the worker, the webhooks and the dunning agent do to each other, an
\* invoice is paid only with the id of a payment of its own on the row, by which
\* the webhook of that payment finds it.
PaidIsTraceable ==
    \A i \in Invoices : status[i] = "paid" =>
        \E p \in payments : p.invoice = i /\ i \in Holders(IdOf(p))

\* charge_invoice: the "idempotency key so retries are safe": timeouts, lost
\* sessions, the next poll and every dunning attempt charge an invoice at most
\* once at each provider.
ChargedOncePerProvider ==
    \A i \in Invoices, provider \in Providers :
        Cardinality({p \in payments : p.provider = provider /\ p.invoice = i}) <= 1

\* An invoice is written off only after a provider refused the charge, the
\* customer's payment failed, or the dunning schedule came to its end.
WrittenOffForCause ==
    \A i \in Invoices : status[i] = "uncollectible" =>
        \/ i \in refused
        \/ dunning[i].attempt = MaxAttempts

\* Timeouts on another invoice of the poll and lost sessions do not keep an open
\* invoice, whose customer has a payment method, from being concluded.
EveryOpenInvoiceConcludes ==
    \A i \in Invoices : MethodOf[i] # "none" => (status[i] = "open" ~> status[i] # "open")
=============================================================================
