---------------------------- MODULE Calculations ----------------------------
(***************************************************************************)
(* The calculations the services share, each called with inputs of small   *)
(* sets: a billing cycle, a what-if simulation, an A/B test, a tax, a      *)
(* route for a payment, a routing recommendation, a quote recalculated, an *)
(* outcome validated and counted.                                          *)
(* call holds the arguments and the answer of the last one.                *)
(***************************************************************************)
EXTENDS PricingStudio, PaymentRouting, QuoteEstimates, OutcomeRules

CONSTANTS
    Plans,        \* sequences of pricing rules
    TestPlans,    \* those that are proposed or compared
    EventSets,    \* the events of a customer in a period
    Customers,
    PolicySets,   \* sequences of policy rules
    Hashes,       \* A/B tests: the hashes of the customers with events
    Subtotals, Countries, AnnualSales,
    Amounts, Methods, PaymentGroups,
    Overrides, Discounts, Terms,
    OutcomePlans, OutcomeEvents   \* one or two outcome rules of a metric; an event of it

\* The sales of a seller are known, or not.
ASSUME SalesAssumption == \A sales \in AnnualSales : \A s, t \in sales : s = t

\* A plan is a list of rules.  Prices are numbers, limits and caps count events.
AtMostOne == {S \in SUBSET Nat : \A x, y \in S : x = y}

IsRule(rule) ==
    rule \in [model : PricingModel, metric : {rule.metric}, flat : Int, unit : Int,
              tiers : Seq([upTo : AtMostOne, unit : Int]),
              outcome : [price : Int, cap : AtMostOne, when : {rule.outcome.when},
                         perUnit : Int, rate : Int]]

ASSUME PlanAssumption ==
    \A rules \in Plans \union TestPlans :
        rules \in Seq(Range(rules)) /\ \A i \in DOMAIN rules : IsRule(rules[i])

\* A metric of a plan has events, if only none.
ASSUME EventAssumption ==
    \A events \in EventSets :
        /\ \A m \in DOMAIN events :
              /\ events[m].count \in Nat
              /\ IsFiniteSet(DOMAIN events[m].outcomes)
        /\ \A rules \in Plans \union TestPlans : \A i \in DOMAIN rules :
              rules[i].metric \in DOMAIN events \union {""}

ASSUME TestAssumption == IsFiniteSet(Hashes)

ASSUME QuoteAssumption ==
    \A overrides \in Overrides : \A m \in DOMAIN overrides : overrides[m] \in Int

\* A group has payments, and what they came to is whole.
ASSUME RoutingAssumption ==
    /\ Amounts \subseteq Int
    /\ \A group \in PaymentGroups :
          group.count \in Nat \ {0} /\ group.volume \in Int /\ group.fees \in Int

\* The policies are a list, their priorities numbers.
ASSUME PolicyAssumption ==
    \A policies \in PolicySets :
        /\ policies \in Seq(Range(policies))
        /\ \A i \in DOMAIN policies : policies[i].priority \in Int

\* The outcome rules of one metric; no cap is 0.
ASSUME OutcomeAssumption ==
    \A rules \in OutcomePlans :
        /\ rules \in Seq(Range(rules)) /\ rules # <<>>
        /\ \A i \in DOMAIN rules :
              /\ IsRule(rules[i]) /\ rules[i].model = "outcome" /\ 0 \notin rules[i].outcome.cap
              /\ \A c \in rules[i].outcome.when : c.operator = "eq" => c.name = c.key

VARIABLE call
CalculationInit == call = [op |-> "none"]

Priced(rules) == \A i \in DOMAIN rules : Priceable(rules[i])

\* run_billing_cycle
Bill ==
    \E rules \in Plans, events \in EventSets, customer \in Customers, policies \in PolicySets :
        call' = [op |-> "bill", rules |-> rules, events |-> events, customer |-> customer,
                 policies |-> policies,
                 answer |-> RunBillingCycle(rules, events, customer, policies)]

\* run_simulation of a plan's rules as the two spellings of the API give them back.
AsDict(rule, keys) ==
    LET value == [model |-> rule.model, metric |-> rule.metric, flat_amount |-> rule.flat,
                  unit |-> rule.unit, tiers |-> rule.tiers, outcome_rules |-> rule.outcome]
    IN  [k \in {keys.model, keys.unit, "metric", "flat_amount", "tiers", "outcome_rules"} |->
            CASE k = keys.model -> value.model
              [] k = keys.unit -> value.unit
              [] OTHER -> value[k]]

Spellings == {[model |-> "model", unit |-> "unit_price"],
              [model |-> "pricing_model", unit |-> "unit_amount"]}

Simulate ==
    \E rules \in Plans, keys \in Spellings, events \in EventSets : \E proposed \in TestPlans \union {rules} :
        LET scenario == [i \in DOMAIN proposed |-> AsDict(proposed[i], keys)] IN
        /\ Priced(rules) /\ Priced(proposed)
        /\ call' = [op |-> "simulate", rules |-> rules, proposed |-> proposed, events |-> events,
                    answer |-> RunSimulation(rules, scenario, events)]

\* evaluate_test
Compare ==
    \E control, variant \in TestPlans, customers \in SUBSET Hashes, events \in EventSets :
    \E split \in 0..Cardinality(Hashes) :
        /\ Priced(control) /\ Priced(variant)
        /\ call' = [op |-> "compare", control |-> control, variant |-> variant, split |-> split,
                    customers |-> customers, events |-> events,
                    answer |-> EvaluateTest(control, variant, split, customers, events)]

\* calculate_vat and calculate_vat_detailed
Charge ==
    \E country \in Countries, isBusiness \in BOOLEAN, subtotal \in Subtotals, sales \in AnnualSales :
        call' = [op |-> "tax", country |-> country, isBusiness |-> isBusiness,
                 subtotal |-> subtotal, sales |-> sales,
                 invoiced |-> CalculateVat(country, isBusiness, subtotal),
                 detailed |-> CalculateVatDetailed(country, isBusiness, subtotal, sales)]

\* route_payment
RouteOne ==
    \E amount \in Amounts, country \in Countries, method \in Methods \union {""} :
        call' = [op |-> "route", amount |-> amount, country |-> country, method |-> method,
                 answer |-> RoutePayment(amount, country, method)]

\* get_recommendations
Recommend ==
    \E group \in PaymentGroups :
        call' = [op |-> "recommend", group |-> group, answer |-> Recommendations(group)]

\* build_quote, then recalculate_quote
Requote ==
    \E rules \in Plans, before, after \in Overrides, discount \in Discounts, term \in Terms :
        call' = [op |-> "requote", rules |-> rules, before |-> before, after |-> after,
                 discount |-> discount, term |-> term,
                 answer |-> RecalculateQuote(BuildQuote(rules, before, discount, term), after)]

\* validate_outcome, and calculate_outcome of the same event
Validate ==
    \E rules \in OutcomePlans, event \in OutcomeEvents :
        call' = [op |-> "validate", rules |-> rules, event |-> event,
                 verdict |-> Verdict(event, rules), counted |-> Counted(event, rules)]

CalculationNext ==
    /\ call.op = "none"
    /\ Bill \/ Simulate \/ Compare \/ Charge \/ RouteOne \/ Recommend \/ Requote \/ Validate

CalculationSpec == CalculationInit /\ [][CalculationNext]_call

-----------------------------------------------------------------------------
(* Prices *)

\* What pricing a rule takes, and what the aggregation collects for it.
Needs(rule) ==
    CASE rule.model \in {"usage", "tiered", "credit"} -> "count"
      [] rule.model = "outcome" -> "outcomes"
      [] OTHER -> "nothing"

Collects(rule) == IF rule.model = "credit" THEN "nothing" ELSE Needs(rule)

\* A rule is metered when the first rule of the plan with its metric collects what it
\* needs: a credit rule only after a usage or tiered rule.
Metered(rules, i) ==
    LET first == rules[Min({j \in DOMAIN rules : rules[j].metric = rules[i].metric})] IN
    /\ rules[i].metric # ""
    /\ Collects(first) = Needs(rules[i])

EventsOf(rule, events) ==
    IF rule.model = "outcome"
    THEN Cardinality({k \in DOMAIN events[rule.metric].outcomes :
                         /\ events[rule.metric].outcomes[k].validated
                         /\ rule.outcome.when \subseteq events[rule.metric].outcomes[k].props})
    ELSE events[rule.metric].count

\* The price of the k-th event: that of its tier, free beyond the last tier or the cap.
PriceOfEvent(rule, k) ==
    CASE rule.model = "usage"   -> rule.unit
      [] rule.model = "credit"  -> rule.outcome.perUnit * rule.outcome.rate
      [] rule.model = "outcome" -> IF \E c \in rule.outcome.cap : k > c THEN 0 ELSE OutcomePrice(rule)
      [] rule.model = "tiered"  ->
            LET open == {j \in DOMAIN rule.tiers : \A u \in rule.tiers[j].upTo : k <= u} IN
            IF open = {} THEN 0 ELSE rule.tiers[Min(open)].unit

\* What graduated pricing presupposes and nothing enforces.
Ascending(tiers) ==
    \A i, j \in DOMAIN tiers : i < j =>
        \E u \in tiers[i].upTo : \A v \in tiers[j].upTo : u < v

\* On an invoice every rule is charged the prices of its own events, event by event:
\* no event of a metered rule is missed, priced by two tiers or charged above the cap,
\* whatever the other rules of the plan are; a rule that is not metered charges nothing,
\* and the quantity shown is that of the events charged if the price is in whole cents.
\* (billing/engine.py aggregates, billing/pricing.py prices.)
PricedByEvent ==
    (call.op = "bill" /\ call.answer.raised = "nothing") =>
        /\ Len(call.answer.lines) = Len(call.rules)
        /\ call.answer.subtotal = TotalAmount(call.answer.lines)
        /\ \A i \in DOMAIN call.rules :
              LET rule == call.rules[i]
                  line == call.answer.lines[i]
                  n == IF Metered(call.rules, i) THEN EventsOf(rule, call.events) ELSE 0
                  charged == {k \in 1..n : PriceOfEvent(rule, k) # 0}
              IN  IF rule.model = "flat" THEN line.amount = RoundMoney(rule.flat)
                  ELSE Ascending(rule.tiers) =>
                      /\ line.amount = RoundMoney(Total([k \in 1..n |-> PriceOfEvent(rule, k)]))
                      /\ (rule.model = "outcome" /\ OutcomePrice(rule) % 100 = 0) =>
                            line.quantity = 100 * Cardinality(charged)

\* Whether the events of the simulation are those an invoice bills: all outcomes are
\* validated and every rule is metered.
BilledAlike(rules, events) ==
    /\ \A m \in DOMAIN events :
          \A k \in DOMAIN events[m].outcomes : events[m].outcomes[k].validated
    /\ \A i \in DOMAIN rules : rules[i].model = "flat" \/ Metered(rules, i)

\* Prices that add up over customers: whole cents per event, no base, tier or cap.
Additive(rules) ==
    \A i \in DOMAIN rules :
        \/ rules[i].model = "usage" /\ rules[i].unit % 100 = 0
        \/ rules[i].model = "outcome" /\ OutcomePrice(rules[i]) % 100 = 0 /\ rules[i].outcome.cap = {}

\* Simulating the rules a plan has changes nothing and returns what an invoice for
\* those events would charge, and an A/B test of a plan against itself finds no
\* difference if its prices add up over customers (a base fee, a tier or a cap is
\* shared by an arm, and favours the smaller one).
SimulationAgrees ==
    /\ (call.op = "simulate" /\ call.rules = call.proposed) =>
          /\ call.answer.delta = 0 /\ call.answer.pct = 0
          /\ call.answer.outcomes.current = call.answer.outcomes.simulated
          /\ BilledAlike(call.rules, call.events) =>
                call.answer.current =
                    TotalAmount(LineItems(call.rules, Aggregated(call.rules, call.events)))
    /\ (call.op = "compare" /\ call.control = call.variant /\ Additive(call.control)) =>
          \/ call.answer.recommendation = "no_difference"
          \/ \E arm \in {"control", "variant"} :
                \A h \in call.customers : AssignVariant(h, call.split) = arm

\* Of a plan that can be priced an invoice is made exactly when no policy rejects or
\* raises; a policy rejects only if no rule before it, by priority and then by place,
\* has a threshold that cannot be compared; and where none has one the verdict depends
\* on the matching rules alone, a reject prevailing over every priority.
\* (policy/engine.py, billing/engine.py.)
PoliciesDecide ==
    (call.op = "bill" /\ Priced(call.rules)) =>
        LET context == PolicyContext(call.customer, LineItems(call.rules, Aggregated(call.rules, call.events)))
            P == DOMAIN call.policies
            rejecting == {i \in P : /\ call.policies[i].action = "reject"
                                   /\ EvaluateConditions(call.policies[i].conditions, context)}
            raising == {i \in P : ConditionsRaise(call.policies[i].conditions, context)}
        IN  /\ call.answer.raised = "nothing" <=> rejecting \union raising = {}
            /\ call.answer.raised = "reject" <=>
                  \E i \in rejecting : \A j \in raising : Before(call.policies, i, j)
            /\ raising = {} => VerdictIsRight(context, call.policies)

\* Whether an event meets a condition: as the agent's suffixes mean it, and as the
\* pricing engine matches it.
Holds(c, properties) ==
    \E n \in DOMAIN properties :
        /\ n = c.key
        /\ CASE c.operator = "eq" -> properties[n] = c.value
             [] OTHER -> properties[n] # NoNumber /\ Compares(c.operator, properties[n], c.value)

\* Of a linked event the verdict is the truth of the conditions of the plan's first
\* outcome rule, of one that is not linked it is always yes, and an event that does not
\* load is never validated.  The pricing engine, which reads the conditions again, counts
\* the same events where they are exact, for any rule of the plan; one with a suffix it
\* counts for no event that does not carry the suffixed name itself, validated or not.
\* (agents/outcome_agent.py, billing/pricing.py.)
ConditionsReadAlike ==
    call.op = "validate" =>
        LET properties == call.event.properties
            met(i) == \A c \in call.rules[i].outcome.when : Holds(c, properties)
        IN  /\ call.verdict = "validated" <=> call.event.loads /\ (call.event.linked => met(1))
            /\ \A i \in DOMAIN call.rules :
                  /\ (\A c \in call.rules[i].outcome.when : c.operator = "eq")
                        => (i \in call.counted <=> met(i))
                  /\ (\E c \in call.rules[i].outcome.when : c.name \notin DOMAIN properties)
                        => i \notin call.counted

\* The VAT of an invoice and the detailed VAT agree, except for a private customer in
\* another member state while the sales are known to be below the threshold, where
\* only the detailed one takes the seller's rate; reverse charge is for businesses in
\* another member state, and whether the One-Stop Shop applies is what oss.py says.
TaxesAgree ==
    call.op = "tax" =>
        LET abroad == call.country # SellerCountry /\ IsEU(call.country)
            below == \E s \in call.sales : ~CheckOssApplicable(call.country, s)
        IN  /\ call.invoiced = call.detailed <=>
                  \/ ~(abroad /\ ~call.isBusiness /\ below)
                  \/ EUVatRates[call.country] = EUVatRates[SellerCountry]
            /\ call.invoiced.type = "reverse_charge" <=> abroad /\ call.isBusiness
            /\ call.invoiced.type = call.detailed.type
            /\ \A s \in call.sales : abroad /\ ~call.isBusiness =>
                  (OssApplicable(call.country, call.isBusiness, call.sales)
                      <=> CheckOssApplicable(call.country, s))

\* A payment goes to a provider that supports its method and that no other undercuts,
\* except where a regional provider is preferred, or nobody supports the method wanted
\* and the default provider's card is taken, cheaper cards or not; the second comparison with the default
\* provider never changes the route; and a recommendation names the provider that
\* routing an average payment of the group would choose, and saves.
RoutesAreCheapest ==
    /\ call.op = "route" =>
          LET route == call.answer IN
          /\ Supports(route.psp, route.method)
          /\ route = FindCheapestRoute(call.amount, call.country, call.method)
          /\ \A i \in DOMAIN Psps :
                Supports(Psps[i], route.method) =>
                    \/ FeeAt(Psps[i], route.method, call.amount, 1) >= route.fee
                    \/ call.country \in StripePreferred /\ route.psp = "stripe"
                    \/ \A j \in DOMAIN Psps : ~Supports(Psps[j], MethodFor(call.country, call.method))
    /\ call.op = "recommend" =>
          \A r \in call.answer :
              /\ r.psp # call.group.psp /\ r.savings > 0
              /\ r.fees <= call.group.fees
              /\ call.group.volume % call.group.count = 0 =>
                    RoutePayment(call.group.volume \div call.group.count, "NL", call.group.method).psp = r.psp

\* Recalculating a quote is the same as building it with the new quantities, for the
\* metrics that have one, unless a new quantity is given for a hybrid or flat rule:
\* recalculate_quote then forgets the base, or multiplies the flat fee.  A quantity for
\* rules without a metric counts when a quote is built, and never again.
\* (quoting/quote_builder.py.)
RecalculationIsRebuild ==
    call.op = "requote" =>
        LET given == DOMAIN call.after \ {""}
            overrides == [m \in given \union DOMAIN call.before |->
                             IF m \in given THEN call.after[m] ELSE call.before[m]]
            rebuilt == BuildQuote(call.rules, overrides, call.discount, call.term)
            unitless == \E i \in DOMAIN call.rules :
                            /\ call.rules[i].model \in {"hybrid", "flat"}
                            /\ call.rules[i].metric \in given
        IN  unitless \/ call.answer = rebuilt
=============================================================================
