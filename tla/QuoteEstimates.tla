--------------------------- MODULE QuoteEstimates ---------------------------
(***************************************************************************)
(* The estimates of a quote (quoting/quote_builder.py) from the rules of   *)
(* its plan, the expected quantities per metric (overrides), a discount in *)
(* percent and a term in months.                                           *)
(***************************************************************************)
EXTENDS Pricing

QuantityFor(metric, overrides) == IF metric \in DOMAIN overrides THEN overrides[metric] ELSE 0

\* A QuoteLineItem: hybrid adds the base to the units, flat is one unit.
EstimateOf(rule, overrides) ==
    LET n == QuantityFor(rule.metric, overrides) IN
    IF rule.model = "flat"
    THEN [model |-> "flat", metric |-> rule.metric, unit |-> rule.flat, quantity |-> 1,
          amount |-> rule.flat]
    ELSE [model |-> rule.model, metric |-> rule.metric, unit |-> rule.unit, quantity |-> n,
          amount |-> rule.unit * n + IF rule.model = "hybrid" THEN rule.flat ELSE 0]

\* The database keeps four places.
WithTotals(items, discount, term) ==
    LET sum == TotalAmount(items) * (100 - discount) IN
    [items |-> items, discount |-> discount, term |-> term,
     monthly |-> HalfUp(sum, 100), total |-> HalfUp(sum * term, 100)]

BuildQuote(rules, overrides, discount, term) ==
    WithTotals([i \in DOMAIN rules |-> EstimateOf(rules[i], overrides)], discount, term)

\* An item without a metric is never given a new quantity.
Requoted(item, overrides) ==
    IF item.metric # "" /\ item.metric \in DOMAIN overrides
    THEN [item EXCEPT !.quantity = overrides[item.metric],
                      !.amount = item.unit * overrides[item.metric]]
    ELSE item

\* Mutant: the totals are those of the quote as it was.
RecalculateItemsOnly(quote, overrides) ==
    [quote EXCEPT !.items = [i \in DOMAIN quote.items |-> Requoted(quote.items[i], overrides)]]

\* recalculate_quote: units times the new quantity, whatever the model.
RecalculateQuote(quote, overrides) ==
    WithTotals([i \in DOMAIN quote.items |-> Requoted(quote.items[i], overrides)],
               quote.discount, quote.term)
=============================================================================
