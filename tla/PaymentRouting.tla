--------------------------- MODULE PaymentRouting ---------------------------
(***************************************************************************)
(* The choice of a payment service provider                                *)
(* (analytics/routing_optimizer.py, billing/payment_routing.py).  Money is *)
(* a whole number of 0.0001, rates are tenths of a percent.                *)
(***************************************************************************)
EXTENDS Rounding, Sequences, SequencesExt, FiniteSetsExt

Fixed(amount) == [fixed |-> amount, rate |-> 0, cap |-> {}]
Percent(amount, rate) == [fixed |-> amount, rate |-> rate, cap |-> {}]

\* The providers in the order of the table.
Psps == <<"mollie", "adyen", "stripe">>

FeeSchedules ==
    [mollie |-> [ideal |-> Fixed(2900), card |-> Percent(2500, 29),
                 sepa_dd |-> Fixed(3500), bancontact |-> Fixed(2900)],
     adyen  |-> [ideal |-> Fixed(2200), card |-> Percent(2000, 22), sepa_dd |-> Fixed(3000)],
     stripe |-> [card |-> Percent(3000, 29), ach |-> [fixed |-> 0, rate |-> 8, cap |-> {50000}],
                 sepa_dd |-> Fixed(5000)]]

PreferredMethods ==
    [NL |-> "ideal", BE |-> "bancontact", DE |-> "sepa_dd", AT |-> "sepa_dd",
     FR |-> "card", ES |-> "card", IT |-> "card", US |-> "card"]

StripePreferred == {"US"}
DefaultPsp == "mollie"

Supports(psp, method) == method \in DOMAIN FeeSchedules[psp]

\* _estimate_fee of the amount n/d: the part that varies may be capped.
EstimateFee(n, d, schedule) ==
    IF \E c \in schedule.cap : n * schedule.rate > c * d * 1000
    THEN schedule.fixed + Min(schedule.cap)
    ELSE HalfEven(schedule.fixed * d * 1000 + n * schedule.rate, d * 1000)

FeeAt(psp, method, n, d) == EstimateFee(n, d, FeeSchedules[psp][method])

NoPsp == "none"

\* Mutant: the first provider that supports the method.
CheapestFirst(method, n, d) ==
    LET Better(best, p) == IF best = NoPsp /\ Supports(p, method) THEN p ELSE best
    IN  FoldLeft(Better, NoPsp, Psps)

\* The first of the cheapest, or none if no provider supports the method.
Cheapest(method, n, d) ==
    LET Better(best, p) ==
            IF /\ Supports(p, method)
               /\ best = NoPsp \/ FeeAt(p, method, n, d) < FeeAt(best, method, n, d)
            THEN p ELSE best
    IN  FoldLeft(Better, NoPsp, Psps)

Route(psp, method, fee) == [psp |-> psp, method |-> method, fee |-> fee]

\* An empty method stands for none; the country's, or card, is used.
MethodFor(country, method) ==
    IF method # "" THEN method
    ELSE IF country \in DOMAIN PreferredMethods THEN PreferredMethods[country] ELSE "card"

FindCheapestRoute(amount, country, wanted) ==
    LET method == MethodFor(country, wanted)
        psp == IF country \in StripePreferred /\ Supports("stripe", method)
               THEN "stripe" ELSE Cheapest(method, amount, 1)
    IN  IF psp = NoPsp
        THEN Route(DefaultPsp, "card", FeeAt(DefaultPsp, "card", amount, 1))
        ELSE Route(psp, method, FeeAt(psp, method, amount, 1))

\* route_payment: the default provider if it costs no more, its cap left aside.
RoutePayment(amount, country, wanted) ==
    LET route == FindCheapestRoute(amount, country, wanted)
        uncapped == [FeeSchedules[DefaultPsp][route.method] EXCEPT !.cap = {}]
    IN  IF /\ route.psp # DefaultPsp
           /\ country \notin StripePreferred
           /\ Supports(DefaultPsp, route.method)
           /\ EstimateFee(amount, 1, uncapped) <= route.fee
        THEN Route(DefaultPsp, route.method, EstimateFee(amount, 1, uncapped))
        ELSE route

\* get_recommendations, for one group of payments: [psp, method, count, volume, fees],
\* each taken to have the average amount.  A set of at most one recommendation.
Recommendations(group) ==
    LET best == Cheapest(group.method, group.volume, group.count)
        fees == group.count * FeeAt(best, group.method, group.volume, group.count)
    IN  IF best \in {NoPsp, group.psp} THEN {}
        ELSE {r \in {[psp |-> best, fees |-> fees, savings |-> group.fees - fees]} : r.savings > 0}
=============================================================================
