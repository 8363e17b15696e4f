---------------------------- MODULE BillingCycle ----------------------------
(***************************************************************************)
(* The subscriptions of one customer and the invoices of their periods.    *)
(*                                                                         *)
(*   InvoiceWorker (workers/invoice_worker.py): a poll selects the active  *)
(*     subscriptions whose period has ended, inserts an invoice for each,  *)
(*     advances the period, and commits once                               *)
(*   create_subscription, cancel_subscription (api/v1/subscriptions.py),   *)
(*     upgrade (api/v1/onboarding.py): one database session each           *)
(*   billing_graph (agents/billing_agent.py): prices the current period    *)
(*     and charges it                                                      *)
(*                                                                         *)
(* Periods are numbered.  now is the number of period ends that have       *)
(* passed: period p has ended when p < now.  PostgreSQL runs READ          *)
(* COMMITTED, and invoices are not unique per subscription and period.     *)
(*                                                                         *)
(* invoice_worker.py as committed does not import (billing.pricing has no  *)
(* PricingRule, billing.invoicing no TaxInfo), and its loop raises for     *)
(* every plan with rules: the aggregations are called without their        *)
(* client (108, 117), calculate_line_items without its period (210) and    *)
(* generate_invoice with arguments it does not have (229).  Billable is    *)
(* the set of subscriptions for which these calls return: as the file      *)
(* stands it is empty.  A larger one is the loop, with every write of it   *)
(* as it stands, once the calls fit what they call.                        *)
(***************************************************************************)
EXTENDS Naturals, FiniteSets

CONSTANTS
    Subs,
    Billable,   \* those whose plan has rules and for which the calls of the loop return
    Workers,    \* invoice worker processes (two during a deployment)
    Requests,   \* API calls; each is made once
    Runs,       \* runs of the billing agent, each repeated at will
    First,      \* the subscription of the signup
    Row,        \* the subscription a request inserts, if it does
    MaxPeriod,  \* bound: period ends
    MaxFaults   \* bound: polls that are lost

ASSUME SubsAssumption == First \in Subs /\ Billable \subseteq Subs
ASSUME RowAssumption ==
    /\ \A r \in Requests : Row[r] \in Subs \ {First}
    /\ \A r, t \in Requests : Row[r] = Row[t] => r = t
ASSUME BoundAssumption == MaxPeriod \in Nat /\ MaxFaults \in Nat
ASSUME FiniteAssumption == IsFiniteSet(Subs) /\ IsFiniteSet(Requests)

VARIABLES
    now,
    subs,        \* committed rows: [status, period, since]
    invoices,    \* committed rows: [sub, period, by, n]; n tells duplicates apart
    worker,      \* each worker's poll: [at, seen]
    call,        \* each API call: [op, at, sub]
    agent,       \* the node each agent run is at
    charged,     \* runs whose invoice was charged at Mollie
    overlapped,  \* history: subscriptions written by a session that had read them otherwise
    faults

others == <<now, invoices, agent, charged>>
vars == <<others, subs, worker, call, overlapped, faults>>

Periods == 0..MaxPeriod
SubscriptionStatus == {"absent", "active", "canceled"}
Active == {s \in Subs : subs[s].status = "active"}

Idle == [at |-> "idle", seen |-> <<>>]
NoCall == [op |-> "none", at |-> "idle", sub |-> First]

PeriodEnds ==
    /\ now < MaxPeriod
    /\ now' = now + 1
    /\ UNCHANGED <<subs, invoices, worker, call, agent, charged, overlapped, faults>>

-----------------------------------------------------------------------------
(* The invoice worker *)

\* Mutant: subscriptions of any status are billed for the period they are in.
DueEarly == {s \in Active : subs[s].period <= now}

Due == {s \in Active : subs[s].period < now}

\* generate_period_invoices selects.
Scan(w) ==
    /\ worker[w].at = "idle"
    /\ Due # {}
    /\ worker' = [worker EXCEPT ![w] = [at |-> "poll", seen |-> [s \in Due |-> subs[s].period]]]
    /\ UNCHANGED <<others, subs, call, overlapped, faults>>

\* _advance_subscription_period, from the period the poll read.
NextPeriod(seen) == seen + 1

\* Mutant: a subscription that raised moves on to its next period.
AdvancedAll(w, billed) == [s \in Subs |->
    IF s \in DOMAIN worker[w].seen
    THEN [subs[s] EXCEPT !.period = NextPeriod(worker[w].seen[s])] ELSE subs[s]]

Advanced(w, billed) == [s \in Subs |->
    IF s \in billed
    THEN [subs[s] EXCEPT !.period = NextPeriod(worker[w].seen[s])] ELSE subs[s]]

InvoiceOf(s, p, by) ==
    [sub |-> s, period |-> p, by |-> by,
     n |-> Cardinality({i \in invoices : i.sub = s /\ i.period = p}) + 1]

\* The subscriptions of a poll that its loop can bill: each has a line item per rule.
\* A plan without rules is skipped, an exception is logged, and the loop goes on.
Outcomes(w) == SUBSET (DOMAIN worker[w].seen \intersect Billable)

\* The loop and the commit.  The UPDATE names the row by its id only: it waits for
\* another poll's and then overwrites it.
CommitPoll(w) ==
    /\ worker[w].at = "poll"
    /\ \E billed \in Outcomes(w) :
          /\ subs' = Advanced(w, billed)
          /\ invoices' = invoices \union
                {InvoiceOf(s, worker[w].seen[s], "worker") : s \in billed}
          /\ overlapped' = overlapped \union
                {s \in billed : subs[s].period # worker[w].seen[s]}
    /\ worker' = [worker EXCEPT ![w] = Idle]
    /\ UNCHANGED <<now, call, agent, charged, faults>>

\* A database error, two polls that wait for each other, a lost commit, or a crash:
\* the session rolls back, and nothing of the poll is kept.
LosePoll(w) ==
    /\ worker[w].at = "poll"
    /\ faults < MaxFaults
    /\ faults' = faults + 1
    /\ worker' = [worker EXCEPT ![w] = Idle]
    /\ UNCHANGED <<others, subs, call, overlapped>>

WorkerStep(w) ==
    \/ Scan(w)
    \/ CommitPoll(w)

-----------------------------------------------------------------------------
(* The API *)

\* Mutant: upgrade does not look for the subscription it replaces.
UpgradableAny(s) == s \in Subs

\* scalar_one_or_none: none is a 404, two raise MultipleResultsFound.
Upgradable(s) == Active = {s}

\* create_subscription asks nothing of the customer's other subscriptions, and
\* cancel_subscription nothing of the status.
Select(r, op, s) ==
    /\ call[r].at = "idle"
    /\ op # "create" => subs[s].status # "absent"
    /\ op = "upgrade" => Upgradable(s)
    /\ call' = [call EXCEPT ![r] = [op |-> op, at |-> "commit", sub |-> s]]
    /\ UNCHANGED <<others, subs, worker, overlapped, faults>>

\* Mutant: the new subscription is added beside the old one.
AfterUpgradeKeepsOld(r) ==
    [subs EXCEPT ![Row[r]] = [status |-> "active", period |-> now, since |-> now]]

AfterUpgrade(r) ==
    [subs EXCEPT ![call[r].sub].status = "canceled",
                 ![Row[r]] = [status |-> "active", period |-> now, since |-> now]]

AfterCreate(r) ==
    [subs EXCEPT ![Row[r]] = [status |-> "active", period |-> now, since |-> now]]

AfterCancel(r) == [subs EXCEPT ![call[r].sub].status = "canceled"]

Commit(r) ==
    /\ call[r].at = "commit"
    /\ subs' = CASE call[r].op = "upgrade" -> AfterUpgrade(r)
                 [] call[r].op = "create" -> AfterCreate(r)
                 [] call[r].op = "cancel" -> AfterCancel(r)
    /\ overlapped' = overlapped \union
          {s \in {call[r].sub} : call[r].op = "upgrade" /\ subs[s].status # "active"}
    /\ call' = [call EXCEPT ![r] = [op |-> @.op, at |-> "ended", sub |-> First]]
    /\ UNCHANGED <<others, worker, faults>>

RequestStep(r) ==
    \/ \E op \in {"create", "cancel", "upgrade"}, s \in Subs : Select(r, op, s)
    \/ Commit(r)

-----------------------------------------------------------------------------
(* The billing agent.  Each node is a session of its own, which it leaves   *)
(* with return: nothing it writes is committed.                             *)

Node(r, at) ==
    /\ agent' = [agent EXCEPT ![r] = at]
    /\ UNCHANGED <<now, subs, invoices, worker, call, overlapped, faults>>

\* load_subscription and aggregate_usage: no such subscription, or any exception, is an
\* error.  The status is not looked at.
Loaded(s) == {ok \in BOOLEAN : ok => subs[s].status # "absent"}

\* They, calculate_pricing and generate_invoice: after an error the nodes do nothing.
GenerateInvoice(r) ==
    /\ agent[r] = "load_subscription"
    /\ \E s \in Subs : \E ok \in Loaded(s) : Node(r, IF ok THEN "check_policy" ELSE "load_subscription")
    /\ UNCHANGED charged

\* attempt_payment looks the invoice up by its id: scalar_one raises when there is none.
InvoiceFound(r) == \E i \in invoices : i.by = r

\* check_invoice_policy, attempt_payment and handle_payment_result.  A rejection ends the
\* run; an approval is asked for and not awaited; run_dunning follows a payment that
\* failed without an exception, and there is none.
AttemptPayment(r) ==
    /\ agent[r] = "check_policy"
    /\ Node(r, "load_subscription")
    /\ \E rejected \in BOOLEAN :
          charged' = IF ~rejected /\ InvoiceFound(r) THEN charged \union {r} ELSE charged

AgentStep(r) == GenerateInvoice(r) \/ AttemptPayment(r)

-----------------------------------------------------------------------------
Init ==
    /\ now = 0
    /\ subs = [s \in Subs |->
           [status |-> IF s = First THEN "active" ELSE "absent", period |-> 0, since |-> 0]]
    /\ invoices = {}
    /\ worker = [w \in Workers |-> Idle]
    /\ call = [r \in Requests |-> NoCall]
    /\ agent = [r \in Runs |-> "load_subscription"]
    /\ charged = {}
    /\ overlapped = {}
    /\ faults = 0

Next ==
    \/ PeriodEnds
    \/ \E w \in Workers :
          \/ WorkerStep(w)
          \/ LosePoll(w)
    \/ \E r \in Requests : RequestStep(r)
    \/ \E r \in Runs : AgentStep(r)

Spec == Init /\ [][Next]_vars

-----------------------------------------------------------------------------
(* Properties *)

TypeOK ==
    /\ now \in Periods
    /\ subs \in [Subs -> [status : SubscriptionStatus, period : Periods, since : Periods]]
    /\ \A i \in invoices : i.sub \in Subs /\ i.period \in Periods /\ i.by \in Runs \union {"worker"}
    /\ worker \in [Workers -> [at : {"idle", "poll"},
                               seen : UNION {[T -> Periods] : T \in SUBSET Subs}]]
    /\ call \in [Requests -> [op : {"none", "create", "cancel", "upgrade"},
                              at : {"idle", "commit", "ended"}, sub : Subs]]
    /\ agent \in [Runs -> {"load_subscription", "check_policy"}]
    /\ charged \subseteq Runs
    /\ overlapped \subseteq Subs
    /\ faults \in 0..MaxFaults

\* "Find all active subscriptions past their period end and invoice them": polls that
\* follow each other, lost polls and agent runs invoice a period once, and only after
\* its end; two polls of one period at a time are the exception.
InvoicedOnceAfterEnd ==
    \A i \in invoices :
        /\ i.period < now
        /\ i.sub \notin overlapped => i.n = 1

\* An invoice and the advance of its period commit together: every period a
\* subscription has left behind was invoiced, whatever raised or was lost, and no later
\* one was, unless a poll that read the subscription before another one's commit moved
\* it back.
NoPeriodLost ==
    \A s \in Subs, p \in Periods :
        LET billed == \E i \in invoices : i.sub = s /\ i.period = p IN
        /\ subs[s].since <= p /\ p < subs[s].period => billed
        /\ p >= subs[s].period /\ s \notin overlapped => ~billed

\* upgrade replaces the active subscription: a customer has more than one only by
\* create_subscription, or when two upgrades of one subscription overlapped.
UpgradeReplaces ==
    overlapped = {} =>
        Cardinality(Active)
            <= 1 + Cardinality({r \in Requests : call[r].op = "create" /\ call[r].at = "ended"})
=============================================================================
