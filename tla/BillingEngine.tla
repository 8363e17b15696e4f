---------------------------- MODULE BillingEngine ----------------------------
(***************************************************************************)
(* A billing cycle as one calculation (billing/engine.py,                  *)
(* billing/invoicing.py, billing/aggregation.py): the events of a period   *)
(* are aggregated per metric, priced, put before the policies, taxed.      *)
(*                                                                         *)
(* The events of a customer in a period are a function from the metrics to *)
(* [count, outcomes]: how many usage events, and the outcome events.  A    *)
(* customer is [country, isBusiness].                                      *)
(***************************************************************************)
EXTENDS Pricing, Vat, Policy

Validated(outcomes) == Restrict(outcomes, {k \in DOMAIN outcomes : outcomes[k].validated})

\* aggregate_usage counts events; aggregate_outcomes returns the validated ones.
AggregateForRule(rule, events) ==
    [quantity |-> IF rule.model \in {"usage", "tiered"} THEN events[rule.metric].count ELSE 0,
     outcomes |-> IF rule.model = "outcome"
                  THEN Validated(events[rule.metric].outcomes)
                  ELSE <<>>]

\* Once per metric, as the first rule with that metric needs it.
Aggregated(rules, events) ==
    [m \in {rules[i].metric : i \in DOMAIN rules} \ {""} |->
        AggregateForRule(rules[Min({i \in DOMAIN rules : rules[i].metric = m})], events)]

-----------------------------------------------------------------------------
(* The policies *)

\* Where str() of an amount comes in alphabetical order ("29.00" after "1000.00"): by
\* the euros, read from the left in TextWidth digits, the shorter of two first, then
\* the cents; a minus comes before the digits.
TextWidth == 5

Digits(euros) == CHOOSE d \in 1..TextWidth : (d > 1 => euros >= 10^(d - 1)) /\ euros < 10^d

PlaceOf(amount) ==
    LET cents == Magnitude(amount) \div 100
        euros == cents \div 100
        fromLeft == euros * 10^(TextWidth - Digits(euros))
        place == 1000 * fromLeft + 100 * Digits(euros) + (cents % 100)
    IN  IF amount < 0 THEN place - 1000 * 10^TextWidth ELSE place

\* The total is passed as text, whatever the rules compare it to; of no lines at all it
\* is "0", which comes just before "0.00".  Countries are only tested for equality.
PolicyContext(customer, lines) ==
    [field \in {"invoice.total", "invoice.customer.country_code", "invoice.customer.is_business"} |->
        CASE field = "invoice.total" ->
                Text(IF lines = <<>> THEN PlaceOf(0) - 1 ELSE PlaceOf(TotalAmount(lines)))
          [] field = "invoice.customer.country_code" -> Text(customer.country)
          [] field = "invoice.customer.is_business" -> Number(IF customer.isBusiness THEN 1 ELSE 0)]

-----------------------------------------------------------------------------
(* The invoice *)

\* What the call raises: nothing; for a rule without a price; for a comparison; for
\* a policy that rejects.
Raised(by) == [raised |-> by, lines |-> <<>>, subtotal |-> 0, tax |-> 0, total |-> 0]

GenerateInvoice(lines, customer) ==
    LET subtotal == RoundMoney(TotalAmount(lines))
        tax == CalculateVat(customer.country, customer.isBusiness, subtotal).tax
    IN  [raised |-> "nothing", lines |-> lines, subtotal |-> subtotal, tax |-> tax,
         total |-> RoundMoney(subtotal + tax)]

\* The policies, then the invoice; a verdict of require_approval is only logged.
Decided(lines, customer, policies) ==
    LET context == PolicyContext(customer, lines) IN
    IF EvaluateRaises(context, policies) THEN Raised("comparison")
    ELSE IF Evaluate(context, policies).action = "reject" THEN Raised("reject")
    ELSE GenerateInvoice(lines, customer)

RunBillingCycle(rules, events, customer, policies) ==
    IF \E i \in DOMAIN rules : ~Priceable(rules[i]) THEN Raised("price")
    ELSE Decided(LineItems(rules, Aggregated(rules, events)), customer, policies)
=============================================================================
