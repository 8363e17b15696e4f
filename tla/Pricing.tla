------------------------------- MODULE Pricing -------------------------------
(***************************************************************************)
(* The pricing engine (billing/pricing.py).  Prices and amounts are whole  *)
(* numbers of 0.0001, rounded to cents (100); quantities are whole.        *)
(*                                                                         *)
(* A rule is [model, metric, flat, unit, tiers, outcome]: an amount that   *)
(* is missing is 0, which the code treats alike, a limit that may be       *)
(* missing is a set of at most one number, and outcome stands for the      *)
(* outcome_rules column: [price, cap, when, perUnit, rate].  The outcomes  *)
(* of a metric are a function from the ids of events to [props, validated], *)
(* props a set of facts.  Usage of a metric is [quantity, outcomes].       *)
(***************************************************************************)
EXTENDS Rounding, Sequences, FiniteSets, SequencesExt, FiniteSetsExt, Functions

PricingModel == {"flat", "usage", "outcome", "tiered", "credit", "hybrid"}

RoundMoney(amount) == 100 * HalfUp(amount, 100)

Total(s) == FoldLeft(LAMBDA x, y : x + y, 0, s)

Nothing == [quantity |-> 0, outcomes |-> <<>>]

-----------------------------------------------------------------------------
(* The calculators *)

OutcomePrice(rule) == IF rule.outcome.price # 0 THEN rule.outcome.price ELSE rule.unit

\* What calculate_* raises on; the engine's own PricingModel has no HYBRID.
Priceable(rule) ==
    \/ rule.model = "flat" /\ rule.flat # 0
    \/ rule.model = "usage" /\ rule.unit # 0
    \/ rule.model = "outcome" /\ OutcomePrice(rule) # 0
    \/ rule.model = "tiered" /\ rule.tiers # <<>>
    \/ rule.model = "credit" /\ rule.outcome.rate # 0

BillableCount(rule, outcomes) ==
    Min({Cardinality({k \in DOMAIN outcomes : rule.outcome.when \subseteq outcomes[k].props})}
        \union rule.outcome.cap)

\* Mutant: the limits of the tiers are taken for their sizes.
GraduatedBySize(tiers, quantity) ==
    LET Take(acc, tier) ==
            IF acc.remaining <= 0 THEN acc
            ELSE LET taken == Min({acc.remaining} \union tier.upTo) IN
                 [remaining |-> acc.remaining - taken,
                  limit |-> acc.limit,
                  total |-> acc.total + tier.unit * taken]
    IN  FoldLeft(Take, [remaining |-> quantity, limit |-> 0, total |-> 0], tiers).total

\* The brackets in their order; what is left after the last one costs nothing.
Graduated(tiers, quantity) ==
    LET Take(acc, tier) ==
            IF acc.remaining <= 0 THEN acc
            ELSE LET taken == Min({acc.remaining} \union {u - acc.limit : u \in tier.upTo}) IN
                 [remaining |-> acc.remaining - taken,
                  limit |-> IF tier.upTo = {} THEN acc.limit ELSE Max(tier.upTo),
                  total |-> acc.total + tier.unit * taken]
    IN  FoldLeft(Take, [remaining |-> quantity, limit |-> 0, total |-> 0], tiers).total

Amount(rule, usage) ==
    RoundMoney(CASE rule.model = "flat"    -> rule.flat
                 [] rule.model = "usage"   -> rule.unit * usage.quantity
                 [] rule.model = "outcome" ->
                        OutcomePrice(rule) * BillableCount(rule, usage.outcomes)
                 [] rule.model = "tiered"  -> Graduated(rule.tiers, usage.quantity)
                 [] rule.model = "credit"  ->
                        usage.quantity * rule.outcome.perUnit * rule.outcome.rate)

-----------------------------------------------------------------------------
(* The line items *)

\* The quantity shown, in hundredths; an outcome's is derived from its amount.
Quantity(rule, usage) ==
    CASE rule.model = "flat" -> 100
      [] rule.model = "outcome" -> HalfUp(100 * Amount(rule, usage), OutcomePrice(rule))
      [] rule.model = "credit" -> 100 * usage.quantity * rule.outcome.perUnit
      [] OTHER -> 100 * usage.quantity

LineItem(rule, usage) ==
    [model |-> rule.model, metric |-> rule.metric,
     quantity |-> Quantity(rule, usage), amount |-> Amount(rule, usage)]

\* calculate_line_items, for rules that are all Priceable.
LineItems(rules, aggregated) ==
    [i \in DOMAIN rules |->
        LineItem(rules[i], IF rules[i].metric \in DOMAIN aggregated
                           THEN aggregated[rules[i].metric] ELSE Nothing)]

TotalAmount(lines) == Total([i \in DOMAIN lines |-> lines[i].amount])
=============================================================================
