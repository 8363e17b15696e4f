---------------------------- MODULE PricingStudio ----------------------------
(***************************************************************************)
(* What-if simulation and A/B tests of prices (pricing_studio/simulator.py, *)
(* pricing_studio/ab_test.py): the pricing engine over the events of the   *)
(* application database, those of every plan and every status.             *)
(***************************************************************************)
EXTENDS BillingEngine

\* A proposed rule is a function from the keys that are present.
KeyOr(d, keys, default) ==
    LET present == {i \in DOMAIN keys : keys[i] \in DOMAIN d} IN
    IF present = {} THEN default ELSE d[keys[Min(present)]]

NoOutcome == [price |-> 0, cap |-> {}, when |-> {}, perUnit |-> 1, rate |-> 0]

DictToRule(d) ==
    [model |-> KeyOr(d, <<"model", "pricing_model">>, "outcome"),
     metric |-> KeyOr(d, <<"metric">>, ""),
     flat |-> KeyOr(d, <<"flat_amount">>, 0),
     unit |-> KeyOr(d, <<"unit_price", "unit_amount", "price_per_outcome">>, 0),
     tiers |-> KeyOr(d, <<"tiers">>, <<>>),
     outcome |-> KeyOr(d, <<"outcome_rules">>, NoOutcome)]

\* _aggregate_events; the metrics of the rules and of the events alike.
AggregateEvents(events, rules) ==
    [m \in DOMAIN events \union {rules[i].metric : i \in DOMAIN rules} |->
        IF m \in DOMAIN events
        THEN [quantity |-> events[m].count, outcomes |-> events[m].outcomes] ELSE Nothing]

\* Whole outcomes: the hundredths of the sum are cut off.
CountBillableOutcomes(lines) ==
    Total([i \in DOMAIN lines |-> IF lines[i].model = "outcome" THEN lines[i].quantity ELSE 0])
        \div 100

\* Mutant: the proposed rules see the quantities, not the outcomes.
SimulatedLinesOfUsage(scenario, events) ==
    LET rules == [i \in DOMAIN scenario |-> DictToRule(scenario[i])] IN
    LineItems(rules, [m \in DOMAIN events |-> [quantity |-> events[m].count, outcomes |-> <<>>]])

SimulatedLines(scenario, events) ==
    LET rules == [i \in DOMAIN scenario |-> DictToRule(scenario[i])] IN
    LineItems(rules, AggregateEvents(events, rules))

\* delta_pct in hundredths of a percent.
RunSimulation(rules, scenario, events) ==
    LET current == LineItems(rules, AggregateEvents(events, rules))
        simulated == SimulatedLines(scenario, events)
        delta == TotalAmount(simulated) - TotalAmount(current)
    IN  [current |-> TotalAmount(current), simulated |-> TotalAmount(simulated),
         delta |-> delta,
         pct |-> IF TotalAmount(current) = 0 THEN 0
                 ELSE HalfUp(delta * 100, TotalAmount(current) \div 100),
         outcomes |-> [current |-> CountBillableOutcomes(current),
                       simulated |-> CountBillableOutcomes(simulated)]]

-----------------------------------------------------------------------------
(* A/B tests *)

\* hash stands for the first 32 bits of the hash of customer and test; split is a
\* share of the same range.
AssignVariant(hash, split) == IF hash < split THEN "variant" ELSE "control"

\* The events of n customers that each made the same ones, pooled by metric.
Pooled(events, n) ==
    [m \in DOMAIN events |->
        [count |-> n * events[m].count,
         outcomes |-> [x \in (1..n) \X DOMAIN events[m].outcomes |-> events[m].outcomes[x[2]]]]]

\* _compute_revenue prices the pooled events of an arm as if one customer's.
ArmRevenue(rules, events) == TotalAmount(LineItems(rules, AggregateEvents(events, rules)))

PerCustomer(revenue, n) == IF n = 0 THEN 0 ELSE 100 * HalfUp(revenue, 100 * n)

\* evaluate_test: customers is a set of hashes, each with the same events.
EvaluateTest(control, variant, split, customers, events) ==
    LET Arm(name) == Cardinality({h \in customers : AssignVariant(h, split) = name})
        Revenue(rules, n) == PerCustomer(ArmRevenue(rules, Pooled(events, n)), n)
        c == Revenue(control, Arm("control"))
        v == Revenue(variant, Arm("variant"))
    IN  [control |-> c, variant |-> v,
         recommendation |-> IF v > c THEN "variant" ELSE IF c > v THEN "control"
                            ELSE "no_difference"]
=============================================================================
